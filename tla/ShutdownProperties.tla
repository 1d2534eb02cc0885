------------------------- MODULE ShutdownProperties -------------------------
(***************************************************************************)
(* What a user who quits, and a client who is being served, may expect.    *)
(***************************************************************************)
EXTENDS Shutdown

\* Every variable has its type; no timer is ever late by more than it takes
\* to draw the screen and look for input.
TypeOK ==
    /\ interactive \in BOOLEAN
    /\ tui \in {"off", "turn", "select", "render", "poll", "leaving", "closed"}
    /\ key \in {"none", "quit", "other"}
    /\ renderDue \in -(MaxRender + PollTime) .. RenderInterval
    /\ statsDue \in -(MaxRender + PollTime) .. StatsInterval
    /\ wake \in 0 .. SleepTime
    /\ busy \in 0 .. (MaxRender + PollTime)
    /\ res \in {"ok", "error"}
    /\ should_quit \in BOOLEAN
    /\ signal \in BOOLEAN
    /\ server \in {"serving", "draining", "stopped"}
    /\ quitDue \in 0 .. QuitPoll
    /\ open \in 0 .. MaxOpen
    /\ main \in {"tui", "waiting", "exited"}
    /\ exitDue \in 0 .. ExitTimeout

\* Once the user has quit the UI, the server hears of it within one sleep of
\* wait_for_quit: main does not wait its five seconds for nothing.
ServerHearsQuit ==
    interactive /\ main = "waiting" /\ server = "serving" /\ res = "ok" =>
        exitDue >= ExitTimeout - QuitPoll

\* In standard mode nobody who is being served is cut off: main ends only with
\* the last connection.
StandardModeDrains ==
    main = "exited" /\ ~ interactive => open = 0

\* A key that is pressed is read, though every drawing of the screen and every
\* tick of an interval starts the sleep before the next look anew.
KeysAreRead == key # "none" ~> key = "none" \/ tui = "closed"

\* A signal ends the program when the UI is on, whatever connections stay open.
SignalEndsProgram == signal /\ interactive ~> main = "exited"

\* main.rs:148: "Wait for server to finish graceful shutdown".  When main stops
\* waiting, the server has at least begun to.
ServerToldBeforeExit == main = "exited" => server # "serving"

=============================================================================
