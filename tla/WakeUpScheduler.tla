--------------------------- MODULE WakeUpScheduler ---------------------------
(***************************************************************************)
(* The scheduler that marks an account online once a day                   *)
(* (src/src/whatsmeow/whatsmeow_wakeup_scheduler.go).  Time is a number of *)
(* steps since midnight of the day the scheduler starts; the code's values *)
(* are Day = 24 h, Period = 5 min, Window = 10 min, and Hour a full hour.  *)
(* A tick of the ticker is handled at most Lag after it is due.            *)
(***************************************************************************)
EXTENDS Integers

CONSTANTS
    Day,        \* 24 hours
    Hour,       \* the configured hour, as a time of the first day
    Window,     \* how long after the hour a check still wakes up
    Period,     \* between two ticks
    Lag,        \* how late the goroutine may handle a tick
    Duration,   \* how long the account stays online
    MaxTime     \* bound: no tick is handled after it

ASSUME TimeAssumption ==
    /\ Period \in Nat \ {0} /\ Lag \in Nat /\ Lag < Period
    /\ Window \in Nat /\ Period + Lag <= Window
    /\ Hour \in Nat
    /\ Day \in Nat /\ Hour + Window < Day /\ Period < Day
    /\ Duration \in Nat \ {0}
    /\ MaxTime \in Nat

VARIABLES
    now,
    start,      \* when the scheduler was created
    wakeUpTime,
    nextTick,   \* when the ticker fires next
    loop,       \* of run: "running", "cancelled" or "done"
    timers,     \* deadlines of the time.AfterFunc that end a wake-up
    client,     \* the push name is still "unnamed", "ready", or "gone"
    link,       \* the client is connected
    configured, \* the presence of the options, sent at some events
    presence,   \* what WhatsApp shows
    lastWake    \* when a wake-up was executed last, -1 if never

schedVars == <<wakeUpTime, nextTick, loop, timers, lastWake>>
clientVars == <<client, link>>
given == <<start, configured>>
vars == <<now, given, schedVars, clientVars, presence>>

TypeOK ==
    /\ now \in Nat /\ start \in 0..(Day - 1)
    /\ wakeUpTime \in Nat /\ nextTick \in Nat
    /\ loop \in {"running", "cancelled", "done"}
    /\ timers \subseteq Nat
    /\ client \in {"unnamed", "ready", "gone"} /\ link \in BOOLEAN
    /\ configured \in {"offline", "online"}
    /\ presence \in {"offline", "online"}
    /\ lastWake \in Nat \cup {-1}

-----------------------------------------------------------------------------
\* as if the hour were always taken to be still to come today
FirstWakeUp_Today(t) == Hour

\* as if a start before the hour still belonged to yesterday's wake-up
FirstWakeUp_Yesterday(t) == IF t < Hour THEN Hour - Day ELSE Hour + Day

\* parseWakeUpHour: today, unless the window is over
FirstWakeUp(t) == IF t > Hour + Window THEN Hour + Day ELSE Hour

Init ==
    /\ start \in 0..(Day - 1) /\ now = start
    /\ wakeUpTime = FirstWakeUp(start)
    /\ nextTick = start + Period
    /\ loop = "running"
    /\ timers = {}
    /\ client \in {"unnamed", "ready"} /\ link \in BOOLEAN
    /\ configured \in {"offline", "online"} /\ presence = "offline"
    /\ lastWake = -1

\* an error, or a client that is not ready, is only logged
SendPresence(p) ==
    presence' = IF client = "ready" /\ link THEN p ELSE presence

InWindow == now - wakeUpTime \in 0..(Window - 1)

\* as if wakeUpTime were not moved to tomorrow
WakeUp_NotAdvanced ==
    /\ loop # "done" /\ nextTick <= now
    /\ InWindow
    /\ SendPresence("online")
    /\ timers' = timers \cup {now + Duration}
    /\ lastWake' = now
    /\ nextTick' = nextTick + Period
    /\ UNCHANGED <<now, given, wakeUpTime, loop, clientVars>>

\* as if the presence were taken back at an offset from the full hour
WakeUp_TimedFromHour ==
    /\ loop # "done" /\ nextTick <= now
    /\ InWindow
    /\ SendPresence("online")
    /\ timers' = timers \cup {wakeUpTime + Duration}
    /\ wakeUpTime' = wakeUpTime + Day
    /\ lastWake' = now
    /\ nextTick' = nextTick + Period
    /\ UNCHANGED <<now, given, loop, clientVars>>

\* a tick, in the window: executeWakeUp, and then wakeUpTime moves on - also
\* when the presence could not be sent
WakeUp ==
    /\ loop # "done" /\ nextTick <= now
    /\ InWindow
    /\ SendPresence("online")
    /\ timers' = timers \cup {now + Duration}
    /\ wakeUpTime' = wakeUpTime + Day
    /\ lastWake' = now
    /\ nextTick' = nextTick + Period
    /\ UNCHANGED <<now, given, loop, clientVars>>

\* a tick outside of the window changes nothing, however old wakeUpTime is
TickOutside ==
    /\ loop # "done" /\ nextTick <= now
    /\ ~InWindow
    /\ nextTick' = nextTick + Period
    /\ UNCHANGED <<now, given, wakeUpTime, loop, timers, lastWake, clientVars,
                   presence>>

\* as if only a scheduler that still runs took the presence back
GoOffline_OnlyRunning(t) ==
    /\ t \in timers /\ t <= now
    /\ IF loop = "running" THEN SendPresence("offline")
                           ELSE UNCHANGED presence
    /\ timers' = timers \ {t}
    /\ UNCHANGED <<now, given, wakeUpTime, nextTick, loop, lastWake,
                   clientVars>>

\* the AfterFunc of executeWakeUp; Stop does not cancel it
GoOffline(t) ==
    /\ t \in timers /\ t <= now
    /\ SendPresence("offline")
    /\ timers' = timers \ {t}
    /\ UNCHANGED <<now, given, wakeUpTime, nextTick, loop, lastWake,
                   clientVars>>

\* Stop cancels the context ...
Stop ==
    /\ loop = "running"
    /\ loop' = "cancelled"
    /\ UNCHANGED <<now, given, wakeUpTime, nextTick, timers, lastWake,
                   clientVars, presence>>

\* ... and run sees it, unless the select prefers a tick that is due
LoopEnds ==
    /\ loop = "cancelled"
    /\ loop' = "done"
    /\ UNCHANGED <<now, given, wakeUpTime, nextTick, timers, lastWake,
                   clientVars, presence>>

\* the rest of WhatsmeowConnection.Dispose: Client = nil, and disconnected
ClientDisposed ==
    /\ loop # "running" /\ client # "gone"
    /\ client' = "gone" /\ link' = FALSE
    /\ presence' = "offline"
    /\ UNCHANGED <<now, given, schedVars>>

\* the events Connected, PushNameSetting and AppStateSyncComplete send the
\* configured presence, in the middle of a wake-up as at any time
PresenceEvent ==
    /\ client # "gone"
    /\ SendPresence(configured)
    /\ UNCHANGED <<now, given, schedVars, clientVars>>

\* the push name arrives with the app state
PushNameSet ==
    /\ client = "unnamed"
    /\ client' = "ready"
    /\ UNCHANGED <<now, given, schedVars, link, presence>>

\* an account that is not connected is not shown online
LinkLost ==
    /\ link /\ link' = FALSE
    /\ presence' = "offline"
    /\ UNCHANGED <<now, given, schedVars, client>>

LinkRestored ==
    /\ ~link /\ client # "gone"
    /\ link' = TRUE
    /\ UNCHANGED <<now, given, schedVars, client, presence>>

\* time waits for a tick that is Lag late and for a timer that is due
Pass ==
    /\ now < MaxTime \/ timers # {}
    /\ loop # "done" => now < nextTick + Lag
    /\ \A t \in timers : now < t
    /\ now' = now + 1
    /\ UNCHANGED <<given, schedVars, clientVars, presence>>

EndOfWakeUp == \E t \in timers : GoOffline(t)

Next ==
    \/ Pass
    \/ WakeUp \/ TickOutside \/ EndOfWakeUp
    \/ Stop \/ LoopEnds \/ ClientDisposed
    \/ PresenceEvent \/ PushNameSet \/ LinkLost \/ LinkRestored

Spec == Init /\ [][Next]_vars

\* the runtime runs the loop, fires the timers, and time goes on; nobody has
\* to stop the scheduler, and a link may stay down
FairSpec ==
    /\ Spec
    /\ WF_vars(Pass) /\ WF_vars(WakeUp \/ TickOutside)
    /\ WF_vars(EndOfWakeUp) /\ WF_vars(LoopEnds)

-----------------------------------------------------------------------------
\* the first tick may come after the window of the day of the start
StartsLate == start \in (Hour + Window - Period - Lag)..(Hour + Window)

(***************************************************************************)
(* Unless the scheduler was started in the last Period + Lag of the        *)
(* window, checkAndExecuteWakeUp never lets a window pass: wakeUpTime is   *)
(* never more than Window old while run is running.                        *)
(***************************************************************************)
NoWindowPasses ==
    ~StartsLate /\ loop # "done" => now < wakeUpTime + Window

(***************************************************************************)
(* Two wake-ups are never executed in the same window, nor in consecutive  *)
(* ticks: they are almost a day apart.                                     *)
(***************************************************************************)
OnceADay ==
    [][lastWake' # lastWake =>
          lastWake = -1 \/ lastWake' - lastWake > Day - Window]_vars

(***************************************************************************)
(* An account that is not configured to be online never is without the     *)
(* timer of its last wake-up, which will take it offline: whichever timer  *)
(* of an earlier wake-up still runs, whatever events and broken links come *)
(* in between, and although Stop or Dispose came before the timer.         *)
(***************************************************************************)
OnlineIsTimed ==
    presence = "online" /\ configured = "offline" =>
        lastWake + Duration \in timers

(***************************************************************************)
(* WAKEUP_DURATION is the "Duration in seconds to keep presence online     *)
(* during scheduled wake-up" (environment/README.md:66): nothing but the   *)
(* loss of the link takes the account offline before.                      *)
(***************************************************************************)
OnlineLasts ==
    [][presence = "online" /\ presence' = "offline" /\ link' =>
          now >= lastWake + Duration]_vars

(***************************************************************************)
(* A wake-up ends: an account that is not configured to be online does not *)
(* stay so, also when the scheduler is stopped while it is.                *)
(***************************************************************************)
WakeUpEnds ==
    presence = "online" /\ configured = "offline" ~> presence = "offline"

(***************************************************************************)
(* whatsmeow_wakeup_scheduler.go:152: "Since we check every 5 minutes,     *)
(* 10-minute window ensures we don't miss it": the first check after       *)
(* wakeUpTime wakes the account up.                                        *)
(***************************************************************************)
WindowIsNeverMissed ==
    [][nextTick' # nextTick /\ now >= wakeUpTime => lastWake' = now]_vars

=============================================================================
