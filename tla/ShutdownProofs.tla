--------------------------- MODULE ShutdownProofs ---------------------------
(***************************************************************************)
(* What a user who quits may rely on, for any intervals and timeouts, any  *)
(* number of connections and any time that drawing may take, as long as it *)
(* leaves the UI's loop a chance to keep up.                               *)
(***************************************************************************)
EXTENDS ShutdownProperties, TLAPS

-----------------------------------------------------------------------------
(* The inductive invariant *)

\* Why no timer is late by more than TypeOK says.  A sleep that is over has
\* not been started anew since both intervals were ahead; a drawing starts
\* when its interval is due, and ends before it is due again; so only one
\* drawing comes between the statistics' tick and the loop's taking it.
TimersInv ==
    /\ renderDue >= -PollTime
    /\ tui = "select" /\ wake < SleepTime => renderDue >= 0 /\ statsDue >= 0
    /\ tui \in {"turn", "select"} /\ renderDue <= 0 => statsDue >= -PollTime
    /\ tui = "render" =>
          renderDue > busy /\ statsDue >= busy - (MaxRender + PollTime)
    /\ tui = "poll" => renderDue >= busy - PollTime /\ statsDue >= busy - PollTime

\* Whoever has left the UI without an error has set the flag that the server
\* looks at, and main's timeout runs no longer than the server's sleep.
QuitInv ==
    /\ tui # "off" => interactive
    /\ tui \in {"leaving", "closed"} /\ res = "ok" => should_quit
    /\ interactive /\ main = "waiting" => tui = "closed"
    /\ interactive /\ main = "waiting" /\ server = "serving" /\ res = "ok" =>
          exitDue >= ExitTimeout - QuitPoll + quitDue

\* A server stops with its last connection, and main after it.
DrainInv ==
    /\ server = "stopped" => open = 0
    /\ main = "exited" /\ ~ interactive => server = "stopped"

LifeInv == TypeOK /\ TimersInv /\ QuitInv /\ DrainInv

-----------------------------------------------------------------------------
(* Every step keeps it *)

LEMMA Intervals ==
    /\ RenderInterval \in Nat \ {0} /\ StatsInterval \in Nat \ {0}
    /\ SleepTime \in Nat \ {0} /\ QuitPoll \in Nat \ {0}
    /\ ExitTimeout \in Nat \ {0}
    /\ PollTime \in Nat /\ MaxRender \in Nat /\ MaxOpen \in Nat
    /\ MaxRender + PollTime < RenderInterval
  BY ShutdownAssumption

\* A drawing is over before its interval is due again.
LEMMA DrawingEnds ==
    ASSUME NEW r \in Int, NEW s \in Int, NEW b \in Int,
           r >= -PollTime, r <= 0, s >= -PollTime, 0 <= b, b <= MaxRender
    PROVE  /\ r + RenderInterval > b /\ r + RenderInterval <= RenderInterval
           /\ s >= b - (MaxRender + PollTime)
  BY Intervals

LEMMA InitLife == Init => LifeInv
<1> SUFFICES ASSUME Init PROVE LifeInv
  OBVIOUS
<1>1. interactive \in BOOLEAN /\ should_quit \in BOOLEAN /\ signal \in BOOLEAN
  BY DEF Init
<1>2. /\ tui \in {"off", "turn"} /\ main \in {"tui", "waiting"}
      /\ interactive => main = "tui"
  BY DEF Init
<1>3. TypeOK
  BY <1>1, <1>2, Intervals DEF Init, TypeOK
<1>4. TimersInv
  BY <1>2, Intervals DEF Init, TimersInv
<1>5. QuitInv /\ DrainInv
  BY <1>2 DEF Init, QuitInv, DrainInv
<1>6. QED
  BY <1>3, <1>4, <1>5 DEF LifeInv

LEMMA TuiKeepsLife == ASSUME LifeInv, Tui PROVE LifeInv'
<1> USE Intervals DEF LifeInv, tuiVars, serverVars, mainVars
<1>1. CASE Turn
  BY <1>1 DEF Turn, TypeOK, TimersInv, QuitInv, DrainInv
<1>2. CASE StatsTick
  BY <1>2 DEF StatsTick, TypeOK, TimersInv, QuitInv, DrainInv
<1>3. CASE RenderTick
  <2>1. /\ tui = "select" /\ tui' = "render" /\ renderDue <= 0
        /\ renderDue' = renderDue + RenderInterval /\ statsDue' = statsDue
        /\ busy' \in 0 .. MaxRender /\ wake' = 0
        /\ UNCHANGED <<interactive, res, key, should_quit, signal, server,
                       quitDue, open, main, exitDue>>
    BY <1>3 DEF RenderTick
  <2>2. /\ renderDue \in Int /\ statsDue \in Int /\ busy' \in Int
        /\ renderDue >= -PollTime /\ statsDue >= -PollTime
        /\ 0 <= busy' /\ busy' <= MaxRender /\ statsDue <= StatsInterval
    BY <2>1 DEF TypeOK, TimersInv
  <2>3. /\ renderDue' > busy' /\ renderDue' <= RenderInterval
        /\ statsDue' >= busy' - (MaxRender + PollTime)
    BY <2>1, <2>2, DrawingEnds
  <2>4. renderDue' \in Int /\ renderDue' >= 0 /\ statsDue' \in Int
    BY <2>1, <2>2, <2>3
  <2>5. TypeOK'
    <3>1. /\ renderDue' \in -(MaxRender + PollTime) .. RenderInterval
          /\ statsDue' \in -(MaxRender + PollTime) .. StatsInterval
          /\ wake' \in 0 .. SleepTime /\ busy' \in 0 .. (MaxRender + PollTime)
      BY <2>1, <2>2, <2>3, <2>4
    <3>2. QED
      BY <2>1, <3>1 DEF TypeOK
  <2>6. TimersInv'
    <3>1. tui' = "render" /\ renderDue' >= -PollTime
      BY <2>1, <2>4
    <3>2. QED
      BY <2>3, <3>1 DEF TimersInv
  <2>7. QuitInv' /\ DrainInv'
    BY <2>1 DEF QuitInv, DrainInv
  <2>8. QED
    BY <2>5, <2>6, <2>7
<1>4. CASE Wakes
  BY <1>4 DEF Wakes, TypeOK, TimersInv, QuitInv, DrainInv
<1>5. CASE ReadKey
  <2>1. /\ tui = "poll" /\ tui' \in {"leaving", "turn"} /\ key' = "none" /\ busy' = 0
        /\ should_quit' \in BOOLEAN /\ (tui' = "leaving" => should_quit')
        /\ UNCHANGED <<interactive, res, renderDue, statsDue, wake, signal,
                       server, quitDue, open, main, exitDue>>
    BY <1>5 DEF ReadKey, TypeOK
  <2>2. TypeOK' /\ TimersInv'
    BY <2>1 DEF TypeOK, TimersInv
  <2>3. QuitInv' /\ DrainInv'
    BY <2>1 DEF QuitInv, DrainInv
  <2>4. QED
    BY <2>2, <2>3
<1>6. CASE Ends
  BY <1>6 DEF Ends, TypeOK, TimersInv, QuitInv, DrainInv
<1>7. CASE Fails
  BY <1>7 DEF Fails, TypeOK, TimersInv, QuitInv, DrainInv
<1>8. CASE Leave
  BY <1>8 DEF Leave, TypeOK, TimersInv, QuitInv, DrainInv
<1>9. QED
  BY <1>1, <1>2, <1>3, <1>4, <1>5, <1>6, <1>7, <1>8 DEF Tui

LEMMA ServerKeepsLife == ASSUME LifeInv, Server PROVE LifeInv'
<1> USE Intervals DEF LifeInv, tuiVars, serverVars, mainVars
<1>1. CASE Signalled
  <2>1. /\ server = "serving" /\ server' = "draining" /\ quitDue' = 0
        /\ should_quit' = interactive /\ should_quit' \in BOOLEAN
        /\ UNCHANGED <<interactive, tui, renderDue, statsDue, wake, busy, res, key,
                       signal, open, main, exitDue>>
    BY <1>1 DEF Signalled, TypeOK
  <2>2. TypeOK' /\ TimersInv'
    BY <2>1 DEF TypeOK, TimersInv
  <2>3. tui \in {"leaving", "closed"} => interactive
    BY DEF QuitInv
  <2>4. QuitInv' /\ DrainInv'
    BY <2>1, <2>3 DEF QuitInv, DrainInv
  <2>5. QED
    BY <2>2, <2>4
<1>2. CASE CheckQuit
  BY <1>2 DEF CheckQuit, TypeOK, TimersInv, QuitInv, DrainInv
<1>3. CASE Stop
  BY <1>3 DEF Stop, TypeOK, TimersInv, QuitInv, DrainInv
<1>4. QED
  BY <1>1, <1>2, <1>3 DEF Server

LEMMA UserKeepsLife == ASSUME LifeInv, User PROVE LifeInv'
<1> USE Intervals DEF LifeInv, tuiVars, serverVars, mainVars
<1>1. CASE Connect
  BY <1>1 DEF Connect, TypeOK, TimersInv, QuitInv, DrainInv
<1>2. CASE Close
  BY <1>2 DEF Close, TypeOK, TimersInv, QuitInv, DrainInv
<1>3. CASE PressKey
  BY <1>3 DEF PressKey, TypeOK, TimersInv, QuitInv, DrainInv
<1>4. CASE SendSignal
  BY <1>4 DEF SendSignal, TypeOK, TimersInv, QuitInv, DrainInv
<1>5. QED
  BY <1>1, <1>2, <1>3, <1>4 DEF User

LEMMA TimeKeepsLife == ASSUME LifeInv, Elapse PROVE LifeInv'
<1> USE Intervals DEF LifeInv
<1>1. /\ UNCHANGED <<interactive, res, tui, key, should_quit, signal, server, open, main>>
      /\ tui \notin {"turn", "leaving"}
      /\ tui = "select" => renderDue > 0 /\ statsDue > 0 /\ wake # 0
      /\ tui \in {"render", "poll"} => busy # 0
      /\ interactive /\ server = "serving" => quitDue # 0
      /\ interactive /\ main = "waiting" => exitDue # 0
  BY DEF Elapse, Due, TypeOK
<1>2. /\ tui \in {"select", "render", "poll"} =>
            renderDue' = renderDue - 1 /\ statsDue' = statsDue - 1
      /\ tui \in {"off", "closed"} => renderDue' = renderDue /\ statsDue' = statsDue
      /\ wake' = IF tui = "select" THEN wake - 1 ELSE wake
      /\ busy' = IF tui \in {"render", "poll"} THEN busy - 1 ELSE busy
      /\ quitDue' = IF interactive /\ server = "serving" THEN quitDue - 1 ELSE quitDue
      /\ exitDue' = IF interactive /\ main = "waiting" THEN exitDue - 1 ELSE exitDue
  BY <1>1 DEF Elapse, Passed, Running
<1>3. TypeOK'
  BY <1>1, <1>2 DEF TypeOK, TimersInv
<1>4. TimersInv'
  BY <1>1, <1>2 DEF TypeOK, TimersInv
<1>5. QuitInv' /\ DrainInv'
  BY <1>1, <1>2 DEF TypeOK, QuitInv, DrainInv
<1>6. QED
  BY <1>3, <1>4, <1>5

LEMMA LifeInvariant == Spec => []LifeInv
<1>1. LifeInv /\ [Next]_vars => LifeInv'
  <2> SUFFICES ASSUME LifeInv, [Next]_vars PROVE LifeInv'
    OBVIOUS
  <2>1. CASE UNCHANGED vars
    BY <2>1 DEF LifeInv, TypeOK, TimersInv, QuitInv, DrainInv, vars, tuiVars,
       serverVars, mainVars
  <2>2. CASE main # "exited" /\ Exit
    BY <2>2, Intervals DEF Exit, LifeInv, TypeOK, TimersInv, QuitInv, DrainInv,
       tuiVars, serverVars
  <2>3. QED
    BY <2>1, <2>2, TuiKeepsLife, ServerKeepsLife, UserKeepsLife, TimeKeepsLife
       DEF Next
<1>2. QED
  BY <1>1, InitLife, PTL DEF Spec

-----------------------------------------------------------------------------
(* The theorems *)

\* The loop keeps up: no interval is late by more than one drawing and one
\* look for input.
THEOREM TimersAreKept == Spec => []TypeOK
<1>1. LifeInv => TypeOK
  BY DEF LifeInv
<1>2. QED
  BY <1>1, LifeInvariant, PTL

\* Once the UI has quit without an error, the server hears of it before main
\* has waited longer than one sleep of wait_for_quit.
THEOREM QuitIsHeard == Spec => []ServerHearsQuit
<1>1. LifeInv => ServerHearsQuit
  BY Intervals DEF LifeInv, TypeOK, QuitInv, ServerHearsQuit
<1>2. QED
  BY <1>1, LifeInvariant, PTL

\* In standard mode main ends only when nobody is being served any more.
THEOREM DrainsFirst == Spec => []StandardModeDrains
<1>1. LifeInv => StandardModeDrains
  BY DEF LifeInv, DrainInv, StandardModeDrains
<1>2. QED
  BY <1>1, LifeInvariant, PTL

\* As long as the UI does not fail, main never gives up on a server that has
\* not begun to shut down: the error path of tui.run is the only one on which
\* the comment at main.rs:148 is wrong.
THEOREM OnlyErrorsSkipTheServer ==
    ASSUME ExitTimeout > QuitPoll
    PROVE  Spec => [](res = "ok" => ServerToldBeforeExit)
<1> DEFINE Told == res = "ok" /\ main = "exited" => server # "serving"
<1>1. Init => Told
  BY DEF Init
<1>2. LifeInv /\ Told /\ [Next]_vars => Told'
  <2> SUFFICES ASSUME LifeInv, Told, [Next]_vars PROVE Told'
    OBVIOUS
  <2>1. CASE UNCHANGED vars
    BY <2>1 DEF vars, tuiVars, serverVars, mainVars
  <2>2. CASE main # "exited" /\ Exit
    BY <2>2, Intervals DEF Exit, LifeInv, TypeOK, QuitInv, tuiVars, serverVars
  <2>3. CASE main # "exited" /\ (Tui \/ Server \/ User \/ Elapse)
    <3>1. main' # "exited"
      BY <2>3 DEF Tui, Turn, StatsTick, RenderTick, Wakes, ReadKey, Ends, Fails,
         Leave, Server, Signalled, CheckQuit, Stop, User, Connect, Close, PressKey,
         SendSignal, Elapse, tuiVars, serverVars, mainVars
    <3>2. QED
      BY <3>1
  <2>4. QED
    BY <2>1, <2>2, <2>3 DEF Next
<1>3. Told => (res = "ok" => ServerToldBeforeExit)
  BY DEF ServerToldBeforeExit
<1>4. QED
  BY <1>1, <1>2, <1>3, LifeInvariant, PTL DEF Spec

=============================================================================
