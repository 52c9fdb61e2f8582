--------------------------- MODULE OperatorProcess ---------------------------
(***************************************************************************)
(* The operator's process (operator/cmd/main.go): it sets itself up,       *)
(* exiting at the first error, and then runs the manager beside workers    *)
(* until the manager stops (runUntilManagerStops).  All of them share one  *)
(* context, which is cancelled by errgroup at the first error, by the      *)
(* manager's goroutine when it returns, and by a signal.  Kubernetes       *)
(* starts a process again that exits by itself.                            *)
(***************************************************************************)
EXTENDS Naturals, Sequences

CONSTANTS
    Modes,      \* the discovery modes that server configurations name
    MaxProcessFaults   \* bound: errors, early returns and failed setups

ASSUME ProcessAssumption == MaxProcessFaults \in Nat

\* initializeClusterDiscovery knows these; "" is a mode left out.
SupportedModes == {"single", "milo"}

\* What initializeClusterDiscovery returns to be run, and the provider.
WorkersIn(m) ==
    {"downstream", "provider"} \cup (IF m = "milo" THEN {"discovery"} ELSE {})

\* The goroutines of the group.
Launched(m) == WorkersIn(m) \cup {"manager"}

Goroutines == {"downstream", "discovery", "provider", "manager"}

\* main, in the order in which it can exit: the server configuration and the
\* certificates, the clusters, discovery, the manager with its controller.
SetupSteps == <<"serverConfig", "clusters", "discovery", "manager">>

VARIABLES
    mode,      \* the discovery mode in the server configuration
    setup,     \* the setup step the process is at; past the last one it runs
    state,     \* state[g]: "off", "running", or what the goroutine returned
    signalled, \* a signal to terminate has arrived
    canceled,  \* the shared context is cancelled
    failed,    \* errgroup keeps an error
    exit,      \* "none" while the process lives, else its exit status
    processFaults     \* errors and early returns so far

processVars == <<mode, setup, state, signalled, canceled, failed, exit, processFaults>>

Started == setup > Len(SetupSteps)

ProcessTypeOK ==
    /\ mode \in Modes
    /\ setup \in 1..(Len(SetupSteps) + 1)
    /\ state \in [Goroutines -> {"off", "running", "nil", "canceled", "error"}]
    /\ signalled \in BOOLEAN
    /\ canceled \in BOOLEAN
    /\ failed \in BOOLEAN
    /\ exit \in {"none", "0", "1", "forced"}
    /\ processFaults \in 0..MaxProcessFaults
    /\ \A g \in Goroutines : state[g] # "off" <=> Started /\ g \in WorkersIn(mode) \cup {"manager"}

ProcessInit ==
    /\ mode \in Modes
    /\ setup = 1
    /\ state = [g \in Goroutines |-> "off"]
    /\ signalled = FALSE
    /\ canceled = FALSE
    /\ failed = FALSE
    /\ exit = "none"
    /\ processFaults = 0
-----------------------------------------------------------------------------
SetupSucceeds ==
    /\ exit = "none"
    /\ ~Started
    /\ SetupSteps[setup] = "discovery" => mode \in SupportedModes
    /\ setup' = setup + 1
    /\ state' = IF setup = Len(SetupSteps)
                THEN [g \in Goroutines |->
                        IF g \in Launched(mode) THEN "running" ELSE "off"]
                ELSE state
    /\ UNCHANGED <<mode, signalled, canceled, failed, exit, processFaults>>

\* os.Exit(1), because something is missing or unreachable ...
SetupFails ==
    /\ exit = "none"
    /\ ~Started
    /\ processFaults < MaxProcessFaults
    /\ processFaults' = processFaults + 1
    /\ exit' = "1"
    /\ UNCHANGED <<mode, setup, state, signalled, canceled, failed>>

\* ... or the mode is not supported.
ModeRefused ==
    /\ exit = "none"
    /\ ~Started
    /\ SetupSteps[setup] = "discovery"
    /\ mode \notin SupportedModes
    /\ exit' = "1"
    /\ UNCHANGED <<mode, setup, state, signalled, canceled, failed, processFaults>>

\* Mutant: context.Canceled is an error like any other.
ignoreCanceledNot(outcome) == outcome # "nil"

\* The errors that ignoreCanceled passes on.
ignoreCanceled(outcome) == outcome = "error"

\* Mutant: the manager's goroutine does not cancel.
CancelsOnErrorOnly(g, outcome) == ignoreCanceled(outcome)

Cancels(g, outcome) == g = "manager" \/ ignoreCanceled(outcome)

\* Goroutine g of the group returns.
Return(g, outcome) ==
    /\ exit = "none"
    /\ state[g] = "running"
    /\ state' = [state EXCEPT ![g] = outcome]
    /\ failed' = (failed \/ ignoreCanceled(outcome))
    /\ canceled' = (canceled \/ Cancels(g, outcome))
    /\ UNCHANGED <<mode, setup, signalled, exit>>

\* It obeys the context ...
Stop(g) ==
    /\ canceled
    /\ \E outcome \in {"nil", "canceled"} : Return(g, outcome)
    /\ UNCHANGED processFaults

\* ... or returns by itself.
Leave(g) ==
    /\ processFaults < MaxProcessFaults
    /\ processFaults' = processFaults + 1
    /\ \E outcome \in {"nil", "error"} : Return(g, outcome)

\* SetupSignalHandler cancels the context that runUntilManagerStops gets;
\* before, a signal kills the process.
Signal ==
    /\ exit = "none"
    /\ ~signalled
    /\ signalled' = TRUE
    /\ canceled' = Started
    /\ exit' = IF Started THEN "none" ELSE "1"
    /\ UNCHANGED <<mode, setup, state, failed, processFaults>>

\* A second signal ends the process at once: SetupSignalHandler calls os.Exit.
SignalAgain ==
    /\ exit = "none"
    /\ signalled
    /\ Started
    /\ exit' = "forced"
    /\ UNCHANGED <<mode, setup, state, signalled, canceled, failed, processFaults>>

\* g.Wait() returns.
Exit ==
    /\ exit = "none"
    /\ Started
    /\ \A g \in Goroutines : state[g] # "running"
    /\ exit' = IF failed THEN "1" ELSE "0"
    /\ UNCHANGED <<mode, setup, state, signalled, canceled, failed, processFaults>>

\* The pod's restartPolicy; a signal comes when the pod is to go.
RestartProcess ==
    /\ exit # "none"
    /\ ~signalled
    /\ setup' = 1
    /\ state' = [g \in Goroutines |-> "off"]
    /\ canceled' = FALSE
    /\ failed' = FALSE
    /\ exit' = "none"
    /\ UNCHANGED <<mode, signalled, processFaults>>

ProcessNext ==
    \/ SetupSucceeds
    \/ SetupFails
    \/ ModeRefused
    \/ \E g \in Goroutines : Stop(g) \/ Leave(g)
    \/ Signal
    \/ SignalAgain
    \/ Exit
    \/ RestartProcess

ProcessSpec == ProcessInit /\ [][ProcessNext]_processVars

\* Code runs on, goroutines obey a cancelled context, pods are restarted.
FairProcessSpec ==
    /\ ProcessSpec
    /\ WF_processVars(SetupSucceeds)
    /\ WF_processVars(ModeRefused)
    /\ \A g \in Goroutines : WF_processVars(Stop(g))
    /\ WF_processVars(Exit)
    /\ WF_processVars(RestartProcess)
-----------------------------------------------------------------------------
\* A process whose group returned exits with an error just when a goroutine of
\* the group did: "a shutdown signal should not be reported as an error"
\* (run_test.go), and no error of a worker is lost (main.go: ignoreCanceled).
ExitReportsError ==
    Started /\ exit \in {"0", "1"} =>
      (exit = "1" <=> \E g \in Goroutines : state[g] = "error")

\* Nothing runs on by itself: once the manager has returned, or a worker has
\* failed, or a signal has come, the process exits
\* (main.go: runUntilManagerStops).
StopsTogether ==
    (state["manager"] \in {"nil", "canceled", "error"}
       \/ (\E g \in Goroutines : state[g] = "error") \/ signalled)
      ~> exit # "none"

\* With a supported mode the manager runs in the end, whatever failed before,
\* unless the process was told to go (main.go: main, runUntilManagerStops).
Serves ==
    <>[](mode \in SupportedModes => signalled \/ state["manager"] = "running")

\* "Defaults to "single"" (config.go): a configuration that leaves the mode out
\* does not keep the process from running.
ModeDefaultsToSingle ==
    mode = "" /\ exit = "1" => processFaults > 0 \/ signalled
=============================================================================
