------------------------------- MODULE Session -------------------------------
(***************************************************************************)
(* A launch from its command line to its end, and the relaunch that        *)
(* follows once: the main thread (WinMain, RunRelay, the mode's Setup and  *)
(* Run, Teardown), the capture thread moving from NvFBC to WGC, the flip   *)
(* timing's callback, the display, the user and another relay.  The        *)
(* pictures in the ring are CaptureRing's, a turn of the copy engine is    *)
(* Output's: here a turn is paced or not.                                  *)
(***************************************************************************)
EXTENDS LaunchOptions, WgcSource

CONSTANTS
    CommandLines,    \* what the relay may be started with
    CalmLines,       \* and where nothing goes wrong and Windows paints without end
    PromptAnswers,   \* [mode, tokens]: what may be typed at the mode prompt
    FewFrames,       \* bound on the frames painted where things go wrong, for TLC
    StallTimeouts    \* kStallTimeouts

ASSUME SessionAssumption == CalmLines \subseteq CommandLines /\ StallTimeouts \in Nat \ {0}

VARIABLES
    calm,        \* nothing goes wrong
    lock,        \* the single-instance lock: nobody's, this relay's or another relay's
    step,        \* where the main thread is
    args,        \* the command line
    choice,      \* r.choice
    was,         \* the choice the relaunch is to repeat
    cfg,         \* what the mode runs with
    relaunch,    \* the run ends to relaunch
    sessions,    \* the NvFBC sessions held: the startup one, the ring's
    invalid,     \* NvFBC has invalidated them
    thread,      \* the capture thread: none, or the source it captures from
    stop,        \* m_stop
    offered,     \* m_wgcDevice
    trace,       \* the flip timing's trace: none, mine, or left by a run that crashed
    consumer,    \* its thread: none, between events or in the callback
    instance,    \* g_instance
    gaveUp,      \* Stop did not see the consumer end
    closed,      \* the output window is closed
    display,     \* live, taking no more frames, or its presentation manager lost
    buffers,     \* that a frozen display had given back before
    timeouts,    \* m_consecutiveWaitTimeouts
    painted      \* frames painted where things go wrong

launchVars == <<lock, args, choice, was, cfg, relaunch>>
captureVars == <<sessions, invalid, thread, stop, offered>>
traceVars == <<trace, consumer, instance, gaveUp>>
displayVars == <<closed, display, buffers, timeouts>>
worldVars == <<calm, painted>>
vars == <<step, launchVars, captureVars, traceVars, displayVars, worldVars, wgcVars>>

NoChoice == [source |-> -1, target |-> -1, mode |-> "", options |-> Defaults]
NoCfg == [temporal |-> FALSE]

Init ==
    /\ calm \in BOOLEAN
    /\ args \in IF calm THEN CalmLines ELSE CommandLines
    /\ lock \in IF calm THEN {"none"} ELSE {"none", "other"}
    /\ trace \in IF calm THEN {"none"} ELSE {"none", "stale"}
    /\ step = "start" /\ choice = NoChoice /\ was = NoChoice /\ cfg = NoCfg
    /\ relaunch = FALSE
    /\ sessions = {} /\ invalid = FALSE /\ thread = "none" /\ stop = TRUE /\ offered = FALSE
    /\ consumer = "none" /\ instance = FALSE /\ gaveUp = FALSE
    /\ closed = FALSE /\ display = "live" /\ buffers = 0 /\ timeouts = 0 /\ painted = 0
    /\ WgcInit

Goes(from, to) == step = from /\ step' = to
Fails == ~calm
Loop == {"wait", "compose", "check"}

-----------------------------------------------------------------------------
\* WinMain and RunRelay, up to the mode's Run.

\* TakeSingleInstanceLock
TakeLock ==
    /\ IF lock = "none" THEN Goes("start", "choose") /\ lock' = "mine"
       ELSE Goes("start", "exit") /\ UNCHANGED lock
    /\ UNCHANGED <<args, choice, was, cfg, relaunch, captureVars, traceVars, displayVars,
                   worldVars, wgcVars>>

\* ChooseLaunch: the command line where it can be used, otherwise the prompts,
FromCommandLine ==
    /\ Usable(args) /\ Goes("choose", "resolve")
    /\ LET c == ParseCommandLine(args)
       IN choice' = [source |-> c.source, target |-> c.target, mode |-> c.mode,
                     options |-> c.options]
    /\ UNCHANGED <<lock, args, was, cfg, relaunch, captureVars, traceVars, displayVars,
                   worldVars, wgcVars>>

FromPrompts ==
    /\ ~Usable(args) /\ Goes("choose", "resolve")
    /\ \E a, b \in Digits, answer \in PromptAnswers :
          LET c == PromptLine(answer.mode, answer.tokens)
          IN /\ DisplayAnswer(a, -1) /\ DisplayAnswer(b, NumberOf(a)) /\ ~c.refused
             /\ choice' = [source |-> NumberOf(a), target |-> NumberOf(b), mode |-> c.mode,
                           options |-> c.options]
    /\ UNCHANGED <<lock, args, was, cfg, relaunch, captureVars, traceVars, displayVars,
                   worldVars, wgcVars>>

\* unless there is no Direct3D, no second display or no NvFBC, or the console's input ends.
NoLaunch ==
    /\ Fails /\ Goes("choose", "teardown")
    /\ UNCHANGED <<launchVars, captureVars, traceVars, displayVars, worldVars, wgcVars>>

\* What gives way to other options.
Resolve ==
    /\ Goes("resolve", "status")
    /\ choice' = [choice EXCEPT !.options = Resolved(@, choice.mode)]
    /\ UNCHANGED <<lock, args, was, cfg, relaunch, captureVars, traceVars, displayVars,
                   worldVars, wgcVars>>

\* CreateCaptureMode and the mode's Setup: late-batch correction needs the comb lock too.
ModeRuns ==
    LET o == choice.options
        m == ParseMode(choice.mode)
        join == o.etw /\ ~o.noJoin
    IN IF m.kind # "Temporal" THEN NoCfg
       ELSE [temporal |-> TRUE, d3d11 |-> m.d3d11, wgc |-> o.wgc, own |-> o.wgcOpen,
             copyEngine |-> o.wgc /\ o.copyEngine, etw |-> o.etw, join |-> join, comb |-> o.lock,
             dejitter |-> o.dejitter /\ join /\ o.lock]

\* ReadCaptureStatus, the windows, the device, the startup session and the mode's Setup.
SetUp ==
    /\ Goes("status", IF ModeRuns.temporal THEN "etw" ELSE "solo")
    /\ cfg' = ModeRuns /\ choice' = NoChoice /\ was' = NoChoice /\ args' = <<>>
    /\ sessions' = {"startup"}
    /\ UNCHANGED <<lock, relaunch, invalid, thread, stop, offered, traceVars, displayVars,
                   worldVars, wgcVars>>

\* Any of them fails: there is no window or no device yet,
NotSetUp == Fails /\ Goes("status", "teardown")
DeviceFails ==
    /\ NotSetUp
    /\ UNCHANGED <<launchVars, captureVars, traceVars, displayVars, worldVars, wgcVars>>

\* the session is refused, or made and not set up,
StartupSessionFails ==
    /\ NotSetUp
    /\ sessions' \in {{}, {"startup"}}
    /\ UNCHANGED <<launchVars, invalid, thread, stop, offered, traceVars, displayVars, worldVars,
                   wgcVars>>

\* or the mode cannot start with it.
ModeFails ==
    /\ NotSetUp
    /\ sessions' = {"startup"} /\ cfg' = ModeRuns
    /\ UNCHANGED <<lock, args, choice, was, relaunch, invalid, thread, stop, offered, traceVars,
                   displayVars, worldVars, wgcVars>>

\* TurnOnCapture: NvFBC is off, and is turned on for a relaunch, or not: a relaunch never does,
\* nor one who may not or cannot.
TurnOnCapture ==
    /\ Fails /\ Goes("status", "teardown")
    /\ relaunch' \in {FALSE, ~IsRelaunch(args)}
    /\ UNCHANGED <<lock, args, choice, was, cfg, captureVars, traceVars, displayVars, worldVars,
                   wgcVars>>

\* The modes that grab into the back buffer run on the startup session until a grab finds it
\* invalidated,
SoloLost ==
    /\ invalid /\ Goes("solo", "teardown")
    /\ UNCHANGED <<launchVars, captureVars, traceVars, displayVars, worldVars, wgcVars>>

\* or the window is closed.
SoloClosed ==
    /\ closed /\ Goes("solo", "teardown")
    /\ UNCHANGED <<launchVars, captureVars, traceVars, displayVars, worldVars, wgcVars>>

-----------------------------------------------------------------------------
\* TemporalCaptureMode::Run

\* EtwFlipConsumer::Start, which stops a trace left behind first.
StartTrace ==
    /\ Goes("etw", "ring") /\ cfg.etw
    /\ trace' = "mine" /\ consumer' = "idle" /\ instance' = TRUE
    /\ UNCHANGED <<gaveUp, launchVars, captureVars, displayVars, worldVars, wgcVars>>

\* Mutant: late-batch correction stays on without flip timing.
StartTraceFailsUnheeded ==
    /\ Goes("etw", "ring") /\ cfg.etw /\ Fails
    /\ trace' \in {trace, "none"}
    /\ UNCHANGED <<cfg, lock, args, choice, was, relaunch, consumer, instance, gaveUp,
                   captureVars, displayVars, worldVars, wgcVars>>

\* It may fail before or after, and is only missed by late-batch correction.
StartTraceFails ==
    /\ Goes("etw", "ring") /\ cfg.etw /\ Fails
    /\ trace' \in {trace, "none"}
    /\ cfg' = [cfg EXCEPT !.dejitter = FALSE]
    /\ UNCHANGED <<lock, args, choice, was, relaunch, consumer, instance, gaveUp, captureVars,
                   displayVars, worldVars, wgcVars>>

NoTrace ==
    /\ Goes("etw", "ring") /\ ~cfg.etw
    /\ UNCHANGED <<launchVars, captureVars, traceVars, displayVars, worldVars, wgcVars>>

\* CaptureRing::Start: the startup session is let go before the ring's is made.
StartRing ==
    /\ Goes("ring", "present")
    /\ sessions' = {"ring"} /\ invalid' = FALSE
    /\ thread' = "nvfbc" /\ stop' = FALSE
    /\ UNCHANGED <<offered, launchVars, traceVars, displayVars, worldVars, wgcVars>>

\* It fails before the startup session is let go, at the ring's session, or after it is made.
StartRingFails ==
    /\ Fails /\ Goes("ring", "teardown")
    /\ sessions' \in {{"startup"}, {}, {"ring"}}
    /\ UNCHANGED <<invalid, thread, stop, offered, launchVars, traceVars, displayVars, worldVars,
                   wgcVars>>

\* The present path's Setup: its device is offered to the capture thread.
SetUpPresent ==
    /\ Goes("present", "wait")
    /\ offered' = cfg.wgc
    /\ UNCHANGED <<sessions, invalid, thread, stop, launchVars, traceVars, displayVars, worldVars,
                   wgcVars>>

\* Mutant: a present path that is refused leaves the ring capturing.
PresentRefusedUnstopped ==
    /\ Fails /\ Goes("present", "teardown")
    /\ UNCHANGED <<launchVars, captureVars, traceVars, displayVars, worldVars, wgcVars>>

\* It is refused, and the ring is stopped.
PresentRefused ==
    /\ Fails /\ Goes("present", "join") /\ stop' = TRUE
    /\ UNCHANGED <<sessions, invalid, thread, offered, launchVars, traceVars, displayVars,
                   worldVars, wgcVars>>

\* WaitForFrame: a buffer is back.  D3D9 waits in its present, and counts nothing.
Paced ==
    /\ Goes("wait", "compose")
    /\ display # "lost" /\ (display = "frozen" => buffers > 0)
    /\ buffers' = IF display = "frozen" THEN buffers - 1 ELSE buffers
    /\ timeouts' = 0
    /\ UNCHANGED <<closed, display, launchVars, captureVars, traceVars, worldVars, wgcVars>>

\* Mutant: every wait starts to count anew.
WaitTimesOutUncounted ==
    /\ Goes("wait", "compose") /\ cfg.d3d11 /\ Fails
    /\ display # "lost" /\ (display = "frozen" => buffers = 0)
    /\ timeouts' = 1
    /\ UNCHANGED <<closed, display, buffers, launchVars, captureVars, traceVars, worldVars,
                   wgcVars>>

\* None is for a quarter of a second.
WaitTimesOut ==
    /\ Goes("wait", "compose") /\ cfg.d3d11 /\ Fails
    /\ display # "lost" /\ (display = "frozen" => buffers = 0)
    /\ timeouts' = IF timeouts < StallTimeouts THEN timeouts + 1 ELSE timeouts
    /\ UNCHANGED <<closed, display, buffers, launchVars, captureVars, traceVars, worldVars,
                   wgcVars>>

\* The presentation manager is lost: m_copyEngineLost.
ManagerLost ==
    /\ display = "lost" /\ Goes("wait", "compose")
    /\ UNCHANGED <<launchVars, captureVars, traceVars, displayVars, worldVars, wgcVars>>

\* Compose and Present of some frame that is not about to be written over.
Compose ==
    /\ Goes("compose", "check")
    /\ \E back \in 1 .. Slots - 1 : read' = Reads(back)
    /\ UNCHANGED <<pool, free, arrived, hand, storing, frame, named, write, launchVars,
                   captureVars, traceVars, displayVars, worldVars>>

\* The turn ends the run when the window is closed, the capture thread has stopped or the display
\* takes no frames; then the ring is stopped.
Stalled == display = "lost" \/ timeouts >= StallTimeouts
Check ==
    /\ step = "check"
    /\ IF closed \/ stop \/ Stalled
       THEN step' = "join" /\ stop' = TRUE /\ read' = Unread
       ELSE step' = "wait" /\ UNCHANGED <<stop, read>>
    /\ UNCHANGED <<pool, free, arrived, hand, storing, frame, named, write, sessions, invalid,
                   thread, offered, launchVars, traceVars, displayVars, worldVars>>

\* CaptureRing::Stop waits for the capture thread.
Join ==
    /\ thread = "none" /\ Goes("join", "teardown")
    /\ UNCHANGED <<launchVars, captureVars, traceVars, displayVars, worldVars, wgcVars>>

-----------------------------------------------------------------------------
\* Teardown

\* The startup session goes first, then the mode: its trace is stopped,
ReleaseStartup ==
    /\ Goes("teardown", IF instance THEN "etwWait" ELSE "dispose")
    /\ sessions' = sessions \ {"startup"}
    /\ trace' = IF instance THEN "none" ELSE trace
    /\ UNCHANGED <<invalid, thread, stop, offered, consumer, instance, gaveUp, launchVars,
                   displayVars, worldVars, wgcVars>>

\* and its consumer waited for, three seconds at most,
EtwStopped ==
    /\ Goes("etwWait", "dispose")
    /\ consumer = "none" \/ Fails
    /\ instance' = FALSE /\ gaveUp' = (consumer # "none")
    /\ UNCHANGED <<trace, consumer, launchVars, captureVars, displayVars, worldVars, wgcVars>>

\* the present path is deleted, and the ring with its session.
Dispose ==
    /\ thread = "none" /\ Goes("dispose", "end")
    /\ sessions' = sessions \ {"ring"} /\ stop' = TRUE /\ offered' = FALSE /\ invalid' = FALSE
    /\ closed' = FALSE /\ UNCHANGED <<display, buffers, timeouts>>
    /\ UNCHANGED <<thread, launchVars, traceVars, worldVars, wgcVars>>

Ended ==
    /\ ~relaunch /\ Goes("end", "exit")
    /\ lock' = "none"
    /\ UNCHANGED <<args, choice, was, cfg, relaunch, captureVars, traceVars, displayVars,
                   worldVars, wgcVars>>

\* Relaunch: the lock is let go before the new process is made, which takes it as it starts.
LetGo ==
    /\ relaunch /\ Goes("end", "relaunch")
    /\ lock' = "none"
    /\ UNCHANGED <<args, choice, was, cfg, relaunch, captureVars, traceVars, displayVars,
                   worldVars, wgcVars>>

Relaunched ==
    /\ Goes("relaunch", "start")
    /\ args' = RelaunchArguments(choice.source, choice.target, choice.mode, choice.options)
    /\ was' = [choice EXCEPT !.mode = IF @ = "" THEN "b:vsync" ELSE @]
    /\ choice' = NoChoice /\ cfg' = NoCfg /\ relaunch' = FALSE
    /\ UNCHANGED <<lock, captureVars, traceVars, displayVars, worldVars, wgcVars>>

NotRelaunched ==
    /\ Fails /\ Goes("relaunch", "exit")
    /\ UNCHANGED <<launchVars, captureVars, traceVars, displayVars, worldVars, wgcVars>>

Launch ==
    \/ TakeLock \/ FromCommandLine \/ FromPrompts \/ NoLaunch \/ Resolve \/ SetUp
    \/ DeviceFails \/ StartupSessionFails \/ ModeFails \/ TurnOnCapture \/ LetGo \/ Relaunched \/ NotRelaunched

Run ==
    \/ SoloLost \/ SoloClosed \/ StartTrace \/ StartTraceFails \/ NoTrace \/ StartRing \/ StartRingFails
    \/ SetUpPresent \/ PresentRefused
    \/ Paced \/ WaitTimesOut \/ ManagerLost \/ Compose \/ Check \/ Join
    \/ ReleaseStartup \/ EtwStopped \/ Dispose \/ Ended

-----------------------------------------------------------------------------
\* CaptureLoop, on the capture thread.
NotMain == UNCHANGED <<step, launchVars, traceVars, displayVars>>

\* Mutant: NvFBC is let go before WGC is open.
TryWgcUncovered ==
    /\ thread = "nvfbc" /\ ~stop /\ offered
    /\ OpenFirst(cfg.own) \/ (Fails /\ OpenFirstFails(cfg.own))
    /\ sessions' = {}
    /\ UNCHANGED <<invalid, thread, stop, offered, worldVars>> /\ NotMain

\* Open starts once the present's device is offered,
TryWgc ==
    /\ thread = "nvfbc" /\ ~stop /\ offered
    /\ OpenFirst(cfg.own) \/ (Fails /\ OpenFirstFails(cfg.own))
    /\ UNCHANGED <<captureVars, worldVars>> /\ NotMain

\* and goes on, whatever else happens, until WGC is open or refused.
GoOnOpening ==
    /\ thread = "nvfbc"
    /\ \/ OpensFirstFrame \/ OpenOnPresent
       \/ Fails /\ (NotOpened \/ OpenOnPresentFails)
    /\ UNCHANGED <<captureVars, worldVars>> /\ NotMain

\* Only then is NvFBC let go.
TakeOver ==
    /\ thread = "nvfbc" /\ InUse
    /\ thread' = "wgc" /\ sessions' = {} /\ invalid' = FALSE
    /\ UNCHANGED <<stop, offered, worldVars, wgcVars>> /\ NotMain

Opening == pool \in {"untried", "fallback", "own", "present"}

\* The grab finds the session invalidated: the thread stops itself.
CaptureLost ==
    /\ thread = "nvfbc" /\ ~Opening /\ invalid
    /\ thread' = "none" /\ stop' = TRUE
    /\ UNCHANGED <<sessions, invalid, offered, worldVars, wgcVars>> /\ NotMain

\* A stop is seen between frames, and WGC is closed as the thread ends.
ThreadEnds ==
    /\ stop
    /\ \/ thread = "nvfbc" /\ ~Opening /\ UNCHANGED wgcVars
       \/ thread = "wgc" /\ hand = None /\ pool' = "none" /\ Close
    /\ thread' = "none"
    /\ UNCHANGED <<sessions, invalid, stop, offered, worldVars>> /\ NotMain

\* Frames are taken until then.
TakeFrame ==
    /\ thread = "wgc" /\ ~stop
    /\ Take \/ LeaveOut
    /\ UNCHANGED <<captureVars, worldVars>> /\ NotMain

StoreFrame ==
    /\ thread = "wgc"
    /\ Name(TRUE) \/ (Fails /\ Name(FALSE)) \/ GiveBack
    /\ UNCHANGED <<captureVars, worldVars>> /\ NotMain

Painted ==
    /\ Paint
    /\ IF calm THEN UNCHANGED painted ELSE painted < FewFrames /\ painted' = painted + 1
    /\ UNCHANGED <<calm, captureVars>> /\ NotMain

CaptureThread == TryWgc \/ GoOnOpening \/ TakeOver \/ CaptureLost \/ ThreadEnds \/ TakeFrame
    \/ StoreFrame

-----------------------------------------------------------------------------
\* OnEventThunk does nothing without g_instance; events come until the trace has ended.
EventComes ==
    /\ consumer = "idle" /\ instance /\ consumer' = "in"
    /\ UNCHANGED <<trace, instance, gaveUp>>

EventDone == consumer = "in" /\ consumer' = "idle" /\ UNCHANGED <<trace, instance, gaveUp>>

\* ProcessTrace returns once the trace is stopped.
ConsumerEnds ==
    /\ consumer = "idle" /\ trace # "mine" /\ consumer' = "none"
    /\ UNCHANGED <<trace, instance, gaveUp>>

Consumer ==
    /\ EventComes \/ EventDone \/ ConsumerEnds
    /\ UNCHANGED <<step, launchVars, captureVars, displayVars, worldVars, wgcVars>>

-----------------------------------------------------------------------------
\* What comes from outside.
Running == step \in Loop \union {"ring", "present", "solo"}

CloseWindow ==
    /\ Running /\ ~closed /\ closed' = TRUE
    /\ UNCHANGED <<display, buffers, timeouts, captureVars>>

Invalidate ==
    /\ Running /\ sessions # {} /\ ~invalid /\ invalid' = TRUE
    /\ UNCHANGED <<sessions, thread, stop, offered, displayVars>>

Freeze ==
    /\ step \in Loop /\ cfg.d3d11 /\ display = "live"
    /\ \/ display' = "frozen" /\ buffers' \in {0, 1}
       \/ cfg.copyEngine /\ display' = "lost" /\ UNCHANGED buffers
    /\ UNCHANGED <<closed, timeouts, captureVars>>

Outside ==
    /\ Fails /\ (CloseWindow \/ Invalidate \/ Freeze)
    /\ UNCHANGED <<step, launchVars, traceVars, worldVars, wgcVars>>

\* Another relay starts and ends.
OtherRelay ==
    /\ Fails
    /\ \/ lock = "none" /\ step \in {"start", "relaunch"} /\ lock' = "other"
       \/ lock = "other" /\ lock' = "none"
    /\ UNCHANGED <<step, args, choice, was, cfg, relaunch, captureVars, traceVars, displayVars,
                   worldVars, wgcVars>>

Next == Launch \/ Run \/ CaptureThread \/ Painted \/ Consumer \/ Outside \/ OtherRelay

\* No wait of the main thread is without end, nor of the capture thread, whose waits and openings
\* run out.  Nothing is asked of Windows, the user or the flip timing.
Spec ==
    /\ Init /\ [][Next]_vars
    /\ WF_vars(Run)
    /\ WF_vars(GoOnOpening \/ TakeOver \/ CaptureLost \/ ThreadEnds)
    /\ WF_vars(StoreFrame)

-----------------------------------------------------------------------------
\* The texture the present reads from stays as it is until its slot is given another frame.
SourceStays == read.texture # None => read.texture \notin free \union ToSet(arrived)

\* Windows always has a buffer to paint, or one it has painted waits: the picture goes on.
PoolHasRoom == InUse => free # {} \/ arrived # <<>>

\* A thread that captures holds what it captures from, one session at a time and under the lock,
\* and WGC is only opened on a device the present has offered.
OneCapture ==
    /\ thread = "nvfbc" => "ring" \in sessions
    /\ thread = "wgc" => InUse /\ sessions = {}
    /\ Cardinality(sessions) <= 1
    /\ sessions # {} \/ thread # "none" => lock = "mine"
    /\ InUse => offered

\* Teardown starts once nothing captures, and the process leaves or is relaunched with nothing held
\* and no callback running, but where three seconds were not enough for one.
LeavesNothing ==
    /\ step \in {"teardown", "etwWait", "dispose"} => thread = "none" /\ ~InUse
    /\ step \in {"dispose", "end", "relaunch", "exit", "start"} =>
           trace # "mine" /\ (consumer = "none" \/ gaveUp)
    /\ step \in {"end", "relaunch", "exit", "start"} => sessions = {}

\* A process a launch has relaunched carries the mark of one, is not itself relaunched, and runs
\* with the displays, the mode and every option of the launch it repeats.
RelaunchSame ==
    was # NoChoice =>
        /\ IsRelaunch(args) /\ ~relaunch
        /\ step = "status" =>
               /\ choice.source = was.source /\ choice.target = was.target
               /\ choice.options = was.options /\ ParseMode(choice.mode) = ParseMode(was.mode)

\* Late-batch correction only runs with flip timing, the flip join and the comb lock.
DejitterBacked ==
    step \in Loop /\ cfg.dejitter => trace = "mine" /\ consumer # "none" /\ cfg.join /\ cfg.comb

\* A run whose window is closed, whose capture is lost or whose display takes no more frames ends.
Faulted ==
    \/ closed \/ display # "live"
    \/ step \in Loop /\ thread = "none"
    \/ step = "solo" /\ invalid
FaultEnds == Running /\ Faulted ~> step = "exit"
==============================================================================
