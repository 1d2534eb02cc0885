------------------------------ MODULE Shutdown ------------------------------
(***************************************************************************)
(* The life of the process: the terminal UI's loop (src/src/tui.rs), the   *)
(* web server under its graceful-shutdown future, and main, which waits    *)
(* for both (src/src/main.rs).                                             *)
(*                                                                         *)
(* Time is counted in units of 10 ms, by timers that count down; one at    *)
(* zero is due.  Whatever is due happens before time passes again: the     *)
(* runtime polls what is ready.  select! picks any branch that is ready.   *)
(***************************************************************************)
EXTENDS Integers

CONSTANTS
    RenderInterval, \* LOG_UPDATE_INTERVAL
    StatsInterval,  \* STATS_UPDATE_INTERVAL
    SleepTime,      \* the sleep before input is looked for
    PollTime,       \* how long event::poll waits for input
    QuitPoll,       \* the sleep of wait_for_quit
    ExitTimeout,    \* how long main waits for the server
    MaxRender,      \* bound: the longest that drawing the screen may take
    MaxOpen         \* bound: the connections that are open at a time

ASSUME ShutdownAssumption ==
    /\ {RenderInterval, StatsInterval, SleepTime, QuitPoll, ExitTimeout}
          \subseteq Nat \ {0}
    /\ {PollTime, MaxRender, MaxOpen} \subseteq Nat
    /\ MaxRender + PollTime < RenderInterval

VARIABLES
    interactive,    \* there is a terminal, and no --no-tui
    tui,            \* where the UI's loop stands
    key,            \* the key event that waits to be read
    renderDue,      \* render_interval
    statsDue,       \* stats_interval
    wake,           \* the sleep of this turn of the loop
    busy,           \* how long drawing or polling still takes
    res,            \* what run_app returns
    should_quit,    \* TuiState.should_quit
    signal,         \* Ctrl+C or SIGTERM has been received
    server,         \* axum::serve with its graceful shutdown
    quitDue,        \* when wait_for_quit looks at should_quit next
    open,           \* how many connections are open
    main,           \* where run_server stands
    exitDue         \* when it stops waiting for the server

tuiVars    == <<tui, renderDue, statsDue, wake, busy, res>>
serverVars == <<server, quitDue, open>>
mainVars   == <<main, exitDue>>
vars == <<interactive, tuiVars, key, should_quit, signal, serverVars, mainVars>>

-----------------------------------------------------------------------------
(* Plausible mistakes: wrong versions of the operators that their comments   *)
(* name.  The model uses none of them; put in the place of the right one,    *)
(* each breaks the properties that PROJECT.json pairs it with.               *)

\* Turn: the sleep is as long as the interval of the rendering.
TurnSleepsLong ==
    /\ tui = "turn"
    /\ IF should_quit
       THEN tui' = "leaving" /\ UNCHANGED wake
       ELSE tui' = "select" /\ wake' = RenderInterval
    /\ UNCHANGED <<interactive, res, renderDue, statsDue, busy, key, should_quit,
                   signal, serverVars, mainVars>>

\* RenderTick: the interval is not advanced by its tick.
RenderTickAgain ==
    /\ tui = "select"
    /\ renderDue <= 0
    /\ tui' = "render"
    /\ wake' = 0
    /\ busy' \in 0 .. MaxRender
    /\ UNCHANGED <<interactive, res, renderDue, statsDue, key, should_quit,
                   signal, serverVars, mainVars>>

\* ReadKey: the quit key ends the loop, but sets no flag.
ReadKeyOnlyBreaks ==
    /\ tui = "poll"
    /\ key # "none"
    /\ key' = "none"
    /\ tui' = IF key = "quit" THEN "leaving" ELSE "turn"
    /\ busy' = 0
    /\ UNCHANGED <<interactive, res, renderDue, statsDue, wake, should_quit,
                   signal, serverVars, mainVars>>

\* Signalled: the server shuts down and does not tell the UI.
SignalledAlone ==
    /\ server = "serving"
    /\ signal
    /\ server' = "draining"
    /\ quitDue' = 0
    /\ UNCHANGED <<interactive, tuiVars, key, should_quit, signal, open, mainVars>>

\* Exit: the timeout is started in standard mode too.
ExitEither ==
    /\ main = "waiting"
    /\ server = "stopped" \/ exitDue = 0
    /\ main' = "exited"
    /\ UNCHANGED <<interactive, tuiVars, key, should_quit, signal, serverVars,
                   exitDue>>

-----------------------------------------------------------------------------
(* The terminal UI *)

\* The top of the loop; every turn starts a sleep of its own.
Turn ==
    /\ tui = "turn"
    /\ IF should_quit
       THEN tui' = "leaving" /\ UNCHANGED wake
       ELSE tui' = "select" /\ wake' = SleepTime
    /\ UNCHANGED <<interactive, res, renderDue, statsDue, busy, key, should_quit,
                   signal, serverVars, mainVars>>

\* An interval that is late catches up: its ticks are counted from its start.
\* The sleep is dropped with the branches that are not taken.
StatsTick ==
    /\ tui = "select"
    /\ statsDue <= 0
    /\ statsDue' = statsDue + StatsInterval
    /\ tui' = "turn"
    /\ wake' = 0
    /\ UNCHANGED <<interactive, res, renderDue, busy, key, should_quit, signal,
                   serverVars, mainVars>>

RenderTick ==
    /\ tui = "select"
    /\ renderDue <= 0
    /\ renderDue' = renderDue + RenderInterval
    /\ tui' = "render"
    /\ wake' = 0
    /\ busy' \in 0 .. MaxRender
    /\ UNCHANGED <<interactive, res, statsDue, key, should_quit, signal,
                   serverVars, mainVars>>

Wakes ==
    /\ tui = "select"
    /\ wake = 0
    /\ tui' = "poll"
    /\ busy' = PollTime
    /\ UNCHANGED <<interactive, res, renderDue, statsDue, wake, key, should_quit,
                   signal, serverVars, mainVars>>

ReadKey ==
    /\ tui = "poll"
    /\ key # "none"
    /\ key' = "none"
    /\ IF key = "quit"
       THEN tui' = "leaving" /\ should_quit' = TRUE
       ELSE tui' = "turn" /\ UNCHANGED should_quit
    /\ busy' = 0
    /\ UNCHANGED <<interactive, res, renderDue, statsDue, wake, signal,
                   serverVars, mainVars>>

\* The screen is drawn, or there was no input.
Ends ==
    /\ tui \in {"render", "poll"}
    /\ tui = "poll" => key = "none"
    /\ busy = 0
    /\ tui' = "turn"
    /\ UNCHANGED <<interactive, res, renderDue, statsDue, wake, busy, key, should_quit,
                   signal, serverVars, mainVars>>

\* render_ui, poll or read returns an error: the loop ends, flag or no flag.
Fails ==
    /\ tui \in {"render", "poll"}
    /\ tui' = "leaving"
    /\ res' = "error"
    /\ busy' = 0
    /\ UNCHANGED <<interactive, renderDue, statsDue, wake, key, should_quit,
                   signal, serverVars, mainVars>>

\* The terminal is restored, the timers of the loop are dropped, and main goes
\* on to wait for the server.
Leave ==
    /\ tui = "leaving"
    /\ tui' = "closed"
    /\ renderDue' = 0
    /\ statsDue' = 0
    /\ main' = "waiting"
    /\ exitDue' = ExitTimeout
    /\ UNCHANGED <<interactive, res, wake, busy, key, should_quit, signal, serverVars>>

-----------------------------------------------------------------------------
(* The server *)

\* shutdown_signal completes; in interactive mode it tells the UI to quit.
Signalled ==
    /\ server = "serving"
    /\ signal
    /\ server' = "draining"
    /\ quitDue' = 0
    /\ should_quit' = interactive
    /\ UNCHANGED <<interactive, tuiVars, key, signal, open, mainVars>>

\* wait_for_quit looks at the flag, and sleeps if it is not set.
CheckQuit ==
    /\ interactive
    /\ server = "serving"
    /\ quitDue = 0
    /\ IF should_quit
       THEN server' = "draining" /\ UNCHANGED quitDue
       ELSE quitDue' = QuitPoll /\ UNCHANGED server
    /\ UNCHANGED <<interactive, tuiVars, key, should_quit, signal, open, mainVars>>

Connect ==
    /\ server = "serving"
    /\ open < MaxOpen
    /\ open' = open + 1
    /\ UNCHANGED <<interactive, tuiVars, key, should_quit, signal, server,
                   quitDue, mainVars>>

Close ==
    /\ open > 0
    /\ open' = open - 1
    /\ UNCHANGED <<interactive, tuiVars, key, should_quit, signal, server,
                   quitDue, mainVars>>

\* A server that drains accepts nothing, and stops with its last connection.
Stop ==
    /\ server = "draining"
    /\ open = 0
    /\ server' = "stopped"
    /\ UNCHANGED <<interactive, tuiVars, key, should_quit, signal, quitDue, open,
                   mainVars>>

-----------------------------------------------------------------------------
(* main, the user and time *)

\* run_server returns and the process ends: only with the UI on is the wait
\* for the server limited.
Exit ==
    /\ main = "waiting"
    /\ server = "stopped" \/ (interactive /\ exitDue = 0)
    /\ main' = "exited"
    /\ UNCHANGED <<interactive, tuiVars, key, should_quit, signal, serverVars,
                   exitDue>>

PressKey ==
    /\ tui \notin {"off", "closed"}
    /\ key = "none"
    /\ key' \in {"quit", "other"}
    /\ UNCHANGED <<interactive, tuiVars, should_quit, signal, serverVars, mainVars>>

SendSignal ==
    /\ ~ signal
    /\ signal' = TRUE
    /\ UNCHANGED <<interactive, tuiVars, key, should_quit, serverVars, mainVars>>

Running == tui \notin {"off", "closed"}

\* Something is due, and time does not pass before it has happened.
Due ==
    \/ tui \in {"turn", "leaving"}
    \/ tui = "select" /\ (statsDue <= 0 \/ renderDue <= 0 \/ wake = 0)
    \/ tui \in {"render", "poll"} /\ busy = 0
    \/ tui = "poll" /\ key # "none"
    \/ server = "serving" /\ (signal \/ (interactive /\ quitDue = 0))
    \/ server = "draining" /\ open = 0
    \/ main = "waiting" /\ (server = "stopped" \/ (interactive /\ exitDue = 0))

Passed(timer) == timer' = timer - 1

Elapse ==
    /\ ~ Due
    /\ IF Running THEN Passed(renderDue) /\ Passed(statsDue)
                  ELSE UNCHANGED <<renderDue, statsDue>>
    /\ IF tui = "select" THEN Passed(wake) ELSE UNCHANGED wake
    /\ IF tui \in {"render", "poll"} THEN Passed(busy) ELSE UNCHANGED busy
    /\ IF interactive /\ server = "serving" THEN Passed(quitDue) ELSE UNCHANGED quitDue
    /\ IF interactive /\ main = "waiting" THEN Passed(exitDue) ELSE UNCHANGED exitDue
    /\ UNCHANGED <<interactive, res, tui, key, should_quit, signal, server, open, main>>

-----------------------------------------------------------------------------

Init ==
    /\ interactive \in BOOLEAN
    /\ tui = IF interactive THEN "turn" ELSE "off"
    /\ key = "none"
    /\ renderDue = 0
    /\ statsDue = 0
    /\ wake = 0
    /\ busy = 0
    /\ res = "ok"
    /\ should_quit = FALSE
    /\ signal = FALSE
    /\ server = "serving"
    /\ quitDue = 0
    /\ open = 0
    /\ main = IF interactive THEN "tui" ELSE "waiting"
    /\ exitDue = 0

Tui == Turn \/ StatsTick \/ RenderTick \/ Wakes \/ ReadKey \/ Ends \/ Fails \/ Leave

Server == Signalled \/ CheckQuit \/ Stop

User == Connect \/ Close \/ PressKey \/ SendSignal

Next == main # "exited" /\ (Tui \/ Server \/ Exit \/ User \/ Elapse)

Spec == Init /\ [][Next]_vars

\* The runtime polls what is ready and time passes; users owe nothing, and
\* neither does select!, should several branches be ready again and again.
FairSpec ==
    /\ Spec
    /\ WF_vars(main # "exited" /\ Tui)
    /\ WF_vars(main # "exited" /\ Server)
    /\ WF_vars(main # "exited" /\ Exit)
    /\ WF_vars(main # "exited" /\ Elapse)

=============================================================================
