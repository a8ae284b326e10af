------------------------------- MODULE Session -------------------------------
(***************************************************************************)
(* The ECL Watch session manager (esp/src/src/Session.ts) in several       *)
(* browser tabs that share the cookies of one login and one ESP session.   *)
(*                                                                         *)
(* Each tab evaluates Session.ts once per page load: that sets _prevReset  *)
(* to the load time and sends GetBuildInfo.  initSession() registers the   *)
(* "active" and "idle" handlers of an IdleWatcher and starts it; every     *)
(* "active" event runs resetESPTime(), which posts                         *)
(* esp/reset_session_timeout when the Status cookie says "Unlocked" and    *)
(* more than SESSION_RESET_FREQ has passed since _prevReset.  lock() and   *)
(* unlock() write the shared Status cookie and stop / start the watcher.   *)
(*                                                                         *)
(* Time is discrete: one Tick is one unit of wall-clock time.  Every clock *)
(* is kept as an age (time since an event) that saturates at a named cap,  *)
(* so the state space is finite without cutting behaviours off.  Requests  *)
(* settle before the next Tick (HTTP latency is far below one unit); a     *)
(* request may be lost, at most MaxLost times.                             *)
(***************************************************************************)
EXTENDS Integers, FiniteSets

CONSTANTS
    Tabs,          \* browser tabs (pages) of one logged-in user
    IdleTimeout,   \* espTimeoutSeconds: IDLE_TIMEOUT and the ESP session timeout
    ResetFreq,     \* SESSION_RESET_FREQ
    MaxLost,       \* bound on requests the network may lose
    MaxInFlight,   \* bound on requests in flight within one time unit
    ClockBackBy,   \* units the wall clock is set back by in one step
    MaxClockSteps, \* bound on such steps in a behaviour
    Containerized, \* the platform's build info has CONTAINERIZED = "ON"
    PlatformCurrency \* the platform's build info currencyCode, "" if none

ASSUME /\ IdleTimeout \in Nat /\ ResetFreq \in Nat /\ ResetFreq + 1 < IdleTimeout
       /\ MaxLost \in Nat /\ MaxInFlight \in Nat \ {0}
       /\ ClockBackBy \in Nat /\ MaxClockSteps \in Nat
       /\ Containerized \in BOOLEAN

VARIABLES
    page,        \* page[t]: "closed", "loaded" (module evaluated), "app"
                 \*   (initSession ran, handlers registered) or "login"
    watching,    \* watching[t]: the tab's IdleWatcher is started
    idleAge,     \* idleAge[t]: time since the watcher's idle timer was (re)armed
    idleNotice,  \* idleNotice[t]: "hpcc/session_management_status" Idle published
    sinceReset,  \* sinceReset[t]: Date.now() - _prevReset
    status,      \* the shared Status cookie
    timeoutOn,   \* sessionIsActive > -1 (ESPSessionTimeoutSeconds cookie)
    inflight,    \* requests sent and not yet answered
    touchAge,    \* time since the ESP server last saw a request of the session
    expired,     \* the ESP server has expired the session
    lost,        \* requests lost so far
    lastOutcome, \* fate of the most recently settled request
    activeAge,   \* history: time since tab t handled an "active" event while
                 \*   the Status cookie was "Unlocked"
    clockSteps,  \* times the wall clock has been set back
    buildInfo,   \* buildInfo[t]: fate of the page's GetBuildInfo: "none"
                 \*   (page closed), "pending", "answered" or "failed"
    dojoConfig   \* dojoConfig[t]: the page's isContainer and currencyCode

vars == <<page, watching, idleAge, idleNotice, sinceReset, status, timeoutOn,
          inflight, touchAge, expired, lost, lastOutcome, activeAge,
          clockSteps, buildInfo, dojoConfig>>

\* An age grows by one per Tick and stays at its cap: beyond the cap the
\* model never tells two ages apart.
Grow(age, cap) == IF age + 1 > cap THEN cap ELSE age + 1

\* A keepalive sent within Grace units after an "active" event keeps the
\* ESP session alive past that event by IdleTimeout units.
Grace == IdleTimeout - ResetFreq - 1

\* Cap of sinceReset: above it no setback the run allows brings
\* Date.now() - _prevReset back to SESSION_RESET_FREQ, so a saturated value
\* still posts after any setback, as the real one would.
ResetCap == ResetFreq + 1 + MaxClockSteps * ClockBackBy

\* dojoConfig as module evaluation leaves it (isContainer = false,
\* currencyCode = ""), and as the .then of an answered GetBuildInfo sets it.
DefaultConfig == [isContainer |-> FALSE, currencyCode |-> ""]
PlatformConfig == [isContainer |-> Containerized, currencyCode |-> PlatformCurrency]

\* Pages whose GetBuildInfo is in flight; the other requests in flight are
\* keepalives, or GetBuildInfo of a page closed since.
InfoPending == {t \in Tabs : buildInfo[t] = "pending"}

TypeOK ==
    /\ page \in [Tabs -> {"closed", "loaded", "app", "login"}]
    /\ watching \in [Tabs -> BOOLEAN]
    /\ idleAge \in [Tabs -> 0..IdleTimeout]
    /\ idleNotice \in [Tabs -> BOOLEAN]
    /\ sinceReset \in [Tabs -> -(MaxClockSteps * ClockBackBy)..ResetCap]
    /\ status \in {"Unlocked", "Locked"}
    /\ timeoutOn \in BOOLEAN
    /\ inflight \in 0..MaxInFlight
    /\ touchAge \in 0..IdleTimeout
    /\ expired \in BOOLEAN
    /\ lost \in 0..MaxLost
    /\ lastOutcome \in {"none", "delivered", "lost"}
    /\ activeAge \in [Tabs -> 0..Grace]
    /\ clockSteps \in 0..MaxClockSteps
    /\ buildInfo \in [Tabs -> {"none", "pending", "answered", "failed"}]
    /\ dojoConfig \in [Tabs -> {DefaultConfig, PlatformConfig}]
    /\ Cardinality(InfoPending) <= inflight
    /\ \A t \in Tabs : watching[t] => page[t] = "app"

(***************************************************************************)
(* The user has just logged in: no tab is open, the server saw the login.  *)
(* The login leaves the Status cookie set; a cookie left "Locked" by an    *)
(* earlier page survives a new login, so both values are possible, as is  *)
(* either value of the ESPSessionTimeoutSeconds cookie.                    *)
(***************************************************************************)
Init ==
    /\ page = [t \in Tabs |-> "closed"]
    /\ watching = [t \in Tabs |-> FALSE]
    /\ idleAge = [t \in Tabs |-> 0]
    /\ idleNotice = [t \in Tabs |-> FALSE]
    /\ sinceReset = [t \in Tabs |-> 0]
    /\ status \in {"Unlocked", "Locked"}
    /\ timeoutOn \in BOOLEAN
    /\ inflight = 0
    /\ touchAge = 0
    /\ expired = FALSE
    /\ lost = 0
    /\ lastOutcome = "none"
    /\ activeAge = [t \in Tabs |-> Grace]
    /\ clockSteps = 0
    /\ buildInfo = [t \in Tabs |-> "none"]
    /\ dojoConfig = [t \in Tabs |-> DefaultConfig]

\* Module evaluation on page load: _prevReset = Date.now(), dojoConfig's
\* isContainer and currencyCode set to their defaults, and the module-level
\* getBuildInfo() sends GetBuildInfo to ESP.
Load(t) ==
    /\ page[t] = "closed"
    /\ inflight < MaxInFlight
    /\ page' = [page EXCEPT ![t] = "loaded"]
    /\ sinceReset' = [sinceReset EXCEPT ![t] = 0]
    /\ inflight' = inflight + 1
    /\ buildInfo' = [buildInfo EXCEPT ![t] = "pending"]
    /\ dojoConfig' = [dojoConfig EXCEPT ![t] = DefaultConfig]
    /\ UNCHANGED <<watching, idleAge, idleNotice, status, timeoutOn, touchAge,
                   expired, lost, lastOutcome, activeAge, clockSteps>>

\* Mutant of InitSession: idleWatcher.start() moved out of the if.
InitSessionStartAlways(t) ==
    /\ page[t] = "loaded"
    /\ watching' = [watching EXCEPT ![t] = TRUE]
    /\ idleAge' = [idleAge EXCEPT ![t] = 0]
    /\ page' = [page EXCEPT ![t] = IF timeoutOn THEN "app" ELSE "login"]
    /\ UNCHANGED <<idleNotice, sinceReset, status, timeoutOn, inflight,
                   touchAge, expired, lost, lastOutcome, activeAge,
                   clockSteps, buildInfo, dojoConfig>>

\* initSession(): with a session timeout, register the handlers and start
\* the watcher; without one, a logged-in user is sent to Login.html.
InitSession(t) ==
    /\ page[t] = "loaded"
    /\ IF timeoutOn
          THEN /\ page' = [page EXCEPT ![t] = "app"]
               /\ watching' = [watching EXCEPT ![t] = TRUE]
               /\ idleAge' = [idleAge EXCEPT ![t] = 0]
          ELSE /\ page' = [page EXCEPT ![t] = "login"]
               /\ UNCHANGED <<watching, idleAge>>
    /\ UNCHANGED <<idleNotice, sinceReset, status, timeoutOn, inflight,
                   touchAge, expired, lost, lastOutcome, activeAge,
                   clockSteps, buildInfo, dojoConfig>>

\* The posting branch: _prevReset = Date.now() and the POST to
\* esp/reset_session_timeout.
PostKeepalive(t) ==
    /\ sinceReset' = [sinceReset EXCEPT ![t] = 0]
    /\ inflight' = inflight + 1

NoPost == UNCHANGED <<sinceReset, inflight>>

\* Mutant of ResetESPTime: the userSession["Status"] === "Locked" early
\* return dropped.
ResetESPTimeIgnoreLock(t) ==
    /\ activeAge' = [activeAge EXCEPT ![t] = 0]
    /\ IF sinceReset[t] > ResetFreq THEN PostKeepalive(t) ELSE NoPost

\* Mutant of ResetESPTime: _prevReset = Date.now() taken out of the
\* posting branch, so every "active" event restarts the 30 s window.
ResetESPTimeStampAlways(t) ==
    IF status = "Unlocked"
       THEN /\ activeAge' = [activeAge EXCEPT ![t] = 0]
            /\ IF sinceReset[t] > ResetFreq
                  THEN PostKeepalive(t)
                  ELSE /\ sinceReset' = [sinceReset EXCEPT ![t] = 0]
                       /\ UNCHANGED inflight
       ELSE UNCHANGED activeAge /\ NoPost

\* resetESPTime(): return early unless the Status cookie is set and not
\* "Locked"; post the keepalive only if more than SESSION_RESET_FREQ has
\* passed since _prevReset by Date.now(), and only then move _prevReset.
ResetESPTime(t) ==
    IF status = "Unlocked"
       THEN /\ activeAge' = [activeAge EXCEPT ![t] = 0]
            /\ IF sinceReset[t] > ResetFreq THEN PostKeepalive(t) ELSE NoPost
       ELSE UNCHANGED activeAge /\ NoPost

\* A keydown or mousedown while the watcher runs: the watcher re-arms its
\* idle timer and emits "active", whose handler calls resetESPTime().
UserActivity(t) ==
    /\ page[t] = "app"
    /\ watching[t]
    /\ inflight < MaxInFlight
    /\ idleAge' = [idleAge EXCEPT ![t] = 0]
    /\ ResetESPTime(t)
    /\ UNCHANGED <<page, watching, idleNotice, status, timeoutOn, touchAge,
                   expired, lost, lastOutcome, clockSteps, buildInfo, dojoConfig>>

\* The "idle" handler: stop the watcher, publish the Idle status.
OnIdle(t) ==
    /\ watching' = [watching EXCEPT ![t] = FALSE]
    /\ idleNotice' = [idleNotice EXCEPT ![t] = TRUE]

\* Variables no tab-local UI step touches.
timeVars == <<sinceReset, timeoutOn, inflight, touchAge, expired, lost,
              lastOutcome, activeAge, clockSteps,
              buildInfo, dojoConfig>>

\* The watcher's idle timer fires.  A browser may run a timer late (e.g.
\* a throttled background tab), so time may pass before it does.
IdleTimerFires(t) ==
    /\ page[t] = "app"
    /\ watching[t]
    /\ idleAge[t] >= IdleTimeout
    /\ OnIdle(t)
    /\ UNCHANGED <<page, idleAge, status>> /\ UNCHANGED timeVars

\* fireIdle(): the watcher emits "idle" at once.
FireIdle(t) ==
    /\ page[t] = "app"
    /\ OnIdle(t)
    /\ UNCHANGED <<page, idleAge, status>> /\ UNCHANGED timeVars

\* lock(): Status cookie "Locked", stop this tab's watcher.
Lock(t) ==
    /\ page[t] = "app"
    /\ status' = "Locked"
    /\ watching' = [watching EXCEPT ![t] = FALSE]
    /\ UNCHANGED <<page, idleAge, idleNotice>> /\ UNCHANGED timeVars

\* unlock(): Status cookie "Unlocked", (re)start this tab's watcher.
Unlock(t) ==
    /\ page[t] = "app"
    /\ status' = "Unlocked"
    /\ watching' = [watching EXCEPT ![t] = TRUE]
    /\ idleAge' = [idleAge EXCEPT ![t] = 0]
    /\ idleNotice' = [idleNotice EXCEPT ![t] = FALSE]
    /\ UNCHANGED page /\ UNCHANGED timeVars

\* The tab is closed or reloaded: its module state and timers are gone,
\* the cookies and the server session are not.
Close(t) ==
    /\ page[t] # "closed"
    /\ page' = [page EXCEPT ![t] = "closed"]
    /\ watching' = [watching EXCEPT ![t] = FALSE]
    /\ idleAge' = [idleAge EXCEPT ![t] = 0]
    /\ idleNotice' = [idleNotice EXCEPT ![t] = FALSE]
    /\ sinceReset' = [sinceReset EXCEPT ![t] = 0]
    /\ buildInfo' = [buildInfo EXCEPT ![t] = "none"]
    /\ dojoConfig' = [dojoConfig EXCEPT ![t] = DefaultConfig]
    /\ UNCHANGED <<status, timeoutOn, inflight, touchAge, expired, lost,
                   lastOutcome, activeAge, clockSteps>>

\* Page and watcher variables, untouched by the network and the clock.
uiVars == <<page, watching, idleAge, idleNotice, status, timeoutOn,
            buildInfo, dojoConfig>>

\* A request reaches ESP.  A live session is refreshed; an expired one
\* stays expired.  The code ignores the answer (an empty .then()).
Deliver ==
    /\ inflight > Cardinality(InfoPending)
    /\ inflight' = inflight - 1
    /\ touchAge' = IF expired THEN touchAge ELSE 0
    /\ lastOutcome' = "delivered"
    /\ UNCHANGED uiVars
    /\ UNCHANGED <<sinceReset, expired, lost, activeAge, clockSteps>>

\* A request is lost.  Nothing in the code notices or retries it.
Lose ==
    /\ inflight > Cardinality(InfoPending)
    /\ lost < MaxLost
    /\ inflight' = inflight - 1
    /\ lost' = lost + 1
    /\ lastOutcome' = "lost"
    /\ UNCHANGED uiVars
    /\ UNCHANGED <<sinceReset, touchAge, expired, activeAge, clockSteps>>

\* Page t's GetBuildInfo is answered; ESP sees a request of the session.
\* The .then copies the NamedValue rows into buildInfo and sets
\* isContainer = (CONTAINERIZED === "ON") and currencyCode = currencyCode ?? "".
\* An answer without BuildInfo (an ESP exception, e.g. no access to SMC)
\* leaves buildInfo = {}, which sets the defaults again.
BuildInfoAnswered(t) ==
    /\ buildInfo[t] = "pending"
    /\ inflight' = inflight - 1
    /\ touchAge' = IF expired THEN touchAge ELSE 0
    /\ lastOutcome' = "delivered"
    /\ buildInfo' = [buildInfo EXCEPT ![t] = "answered"]
    /\ \E config \in {PlatformConfig, DefaultConfig} :
          dojoConfig' = [dojoConfig EXCEPT ![t] = config]
    /\ UNCHANGED <<page, watching, idleAge, idleNotice, status, timeoutOn>>
    /\ UNCHANGED <<sinceReset, expired, lost, activeAge, clockSteps>>

\* Page t's GetBuildInfo is lost: the .catch logs it and returns {}, so the
\* .then sets the defaults.  Nothing asks again before the page reloads.
BuildInfoFailed(t) ==
    /\ buildInfo[t] = "pending"
    /\ lost < MaxLost
    /\ inflight' = inflight - 1
    /\ lost' = lost + 1
    /\ lastOutcome' = "lost"
    /\ buildInfo' = [buildInfo EXCEPT ![t] = "failed"]
    /\ dojoConfig' = [dojoConfig EXCEPT ![t] = DefaultConfig]
    /\ UNCHANGED <<page, watching, idleAge, idleNotice, status, timeoutOn>>
    /\ UNCHANGED <<sinceReset, touchAge, expired, activeAge, clockSteps>>

\* One unit of time passes; ESP expires a session unseen for IdleTimeout.
Tick ==
    /\ inflight = 0
    /\ idleAge' = [t \in Tabs |-> IF watching[t]
                                     THEN Grow(idleAge[t], IdleTimeout)
                                     ELSE idleAge[t]]
    /\ sinceReset' = [t \in Tabs |-> IF page[t] = "closed"
                                        THEN sinceReset[t]
                                        ELSE Grow(sinceReset[t], ResetCap)]
    /\ activeAge' = [t \in Tabs |-> Grow(activeAge[t], Grace)]
    /\ touchAge' = Grow(touchAge, IdleTimeout)
    /\ expired' = (expired \/ touchAge + 1 >= IdleTimeout)
    /\ UNCHANGED <<page, watching, idleNotice, status, timeoutOn, inflight,
                   lost, lastOutcome, clockSteps, buildInfo, dojoConfig>>

(***************************************************************************)
(* The wall clock is set back by ClockBackBy (NTP correction, a user      *)
(* changing the time).  Only Date.now() reads it: every open page's        *)
(* Date.now() - _prevReset drops by that much, while timers, real time and *)
(* ESP's session timer are unaffected.  An age at its cap stands for any   *)
(* value from the cap up, so its new value is any one the drop allows.     *)
(***************************************************************************)
ClockSetBack ==
    /\ clockSteps < MaxClockSteps
    /\ clockSteps' = clockSteps + 1
    /\ \E back \in [Tabs -> ResetCap - ClockBackBy .. ResetCap] :
          sinceReset' = [t \in Tabs |->
                            CASE page[t] = "closed"        -> sinceReset[t]
                              [] sinceReset[t] = ResetCap -> back[t]
                              [] OTHER -> sinceReset[t] - ClockBackBy]
    /\ UNCHANGED uiVars
    /\ UNCHANGED <<inflight, touchAge, expired, lost, lastOutcome, activeAge>>

Next ==
    \/ \E t \in Tabs :
          \/ Load(t) \/ InitSession(t) \/ UserActivity(t)
          \/ IdleTimerFires(t) \/ FireIdle(t) \/ Lock(t) \/ Unlock(t)
          \/ Close(t) \/ BuildInfoAnswered(t) \/ BuildInfoFailed(t)
    \/ Deliver \/ Lose \/ Tick \/ ClockSetBack

Spec == Init /\ [][Next]_vars

-----------------------------------------------------------------------------
(* Properties                                                              *)

\* The Tick on which ESP expires the session.
Expiring == ~expired /\ expired'

(***************************************************************************)
(* Session.ts arms the idle watcher with the server's own timeout          *)
(* (IDLE_TIMEOUT = espTimeoutSeconds * 1000) to tell the user before ESP   *)
(* drops the session: when ESP expires it, every unlocked tab whose        *)
(* watcher runs has reached its idle deadline too.                         *)
(***************************************************************************)
IdleBeforeServerExpiry ==
    [][Expiring => \A t \in Tabs :
                      (page[t] = "app" /\ watching[t] /\ status = "Unlocked")
                          => idleAge'[t] >= IdleTimeout]_vars

-----------------------------------------------------------------------------
(* Refinement of the abstract keepalive promise                            *)

\* The time since the user last worked unlocked, in any tab.
LastWork == CHOOSE a \in {activeAge[t] : t \in Tabs} :
                \A t \in Tabs : a <= activeAge[t]

Keepalive == INSTANCE SessionKeepalive
                 WITH Grace <- Grace, quiet <- LastWork, alive <- ~expired,
                      locked <- (status = "Locked"),
                      unheard <- (lastOutcome = "lost")

(***************************************************************************)
(* The tabs together implement SessionKeepalive: only an "active" event    *)
(* handled while the Status cookie says "Unlocked" counts as work, ESP     *)
(* never expires the session within Grace of such an event unless the      *)
(* latest request was lost (the code never retries one), and an expired    *)
(* session is never revived by a later keepalive.  Broken if _prevReset    *)
(* moves without a post, or keepalives are spaced by more than             *)
(* SESSION_RESET_FREQ of real time.                                        *)
(***************************************************************************)
KeepaliveRefined == Keepalive!Spec

-----------------------------------------------------------------------------
(* The promise under wall-clock setbacks                                   *)

\* Grace less the most the wall clock is set back in a run.
ClockGrace == Grace - MaxClockSteps * ClockBackBy

KeepaliveClock == INSTANCE SessionKeepalive
                      WITH Grace <- ClockGrace,
                           quiet <- IF LastWork < ClockGrace
                                       THEN LastWork ELSE ClockGrace,
                           alive <- ~expired,
                           locked <- (status = "Locked"),
                           unheard <- (lastOutcome = "lost")

(***************************************************************************)
(* A wall-clock setback makes Date.now() - _prevReset understate the real *)
(* time since the last keepalive, so "active" events skip posts they      *)
(* should send (Session.ts, resetESPTime), but never more than the setback *)
(* allows: the tabs still implement SessionKeepalive with Grace shortened *)
(* by the total setback.  Broken if _prevReset moves without a post, or a *)
(* setback delays a keepalive by more than its own size.                  *)
(***************************************************************************)
KeepaliveRefinedClockBack == KeepaliveClock!Spec

=============================================================================
