# TLA+ models of the ECL Watch front-end excerpt

This directory holds the model-checking project for the ECL Watch sources in
`src/`. ECL Watch is the browser console of the HPCC platform. The parts in
this excerpt are glue between the UI and ESP, the platform's web-service
server. Their state is small, but several of them race against a server,
other tabs, or their own requests. The models cover those races.

## 1. Inventory

| Component | Source | State | Operations | Interacts with |
|---|---|---|---|---|
| Session manager | `src/esp/src/src/Session.ts` | `_prevReset` (per page), the IdleWatcher (started or not, idle timer), the shared cookies `Status`, `ECLWatchUser` and `ESPSessionTimeoutSeconds` | module load (sets `_prevReset`, sends `GetBuildInfo`), `initSession`, the `active` handler, which calls `resetESPTime`, the `idle` handler, `lock`, `unlock`, `fireIdle`, `formatCost`, `fetchModernMode` | ESP over HTTP (keepalive POST, GetBuildInfo). Other tabs through the cookies. The rest of the app through the topic `hpcc/session_management_status`. |
| IdleWatcher (`ESPUtil`, not in the excerpt) | from the spec | listeners and idle timer | `start`, `stop`, `fireIdle`; emits `active` on user input and `idle` after the timeout | the two handlers above |
| JSON import form | `.../forms/landing-zone/JsonImportForm.tsx` | `showForm` (prop), form values (`namePrefix`, `selectedFiles[]`, flags), requests in flight | selection effect (`reset`), field edits, validation, Import (one `SprayVariable` per file), `Promise.all` then/catch, `closeForm` | FileSpray service on ESP. Landing-zone page (selection, showForm). |
| Exceptions grid | `.../components/InfoGrid.tsx` | four checkbox states, `exceptions`, `data`, `filterCounts` | checkbox `onChange`, exception list update, effect (count, filter, sort) | `useWorkunitExceptions` (ESP) |
| Dali delete tool | `.../components/DaliDelete.tsx` | `path`, `columns`, `items`, confirm dialog | edit path, submit, confirm, `Delete` answer parsed from CSV | Dali service on ESP |
| Spanish strings | `src/esp/src/eclwatch/nls/es/hpcc.js` | constant table | none | none |

All code runs on one browser event loop per tab. A handler is atomic, and an
`await` or a promise callback is where other events interleave. Concurrency
comes from four sources:

* several tabs share cookies and the one ESP session;
* several HTTP requests are in flight at once;
* timers (the idle timer) race with user input and server-side expiry;
* reloads drop a page's memory (`_prevReset`, the watcher) and keep the
  cookies.

### What must hold

* **Session**:
  * The keepalive keeps a user who is working unlocked logged in.
  * The client's idle notice comes no later than ESP's expiry.
  * Locking, reloading and lost requests must not break either.
  * A wall-clock setback weakens the keepalive by no more than its size.
* **Import**:
  * Close the form only on full success.
  * Report every workunit and every error.
  * Spray each selected file once.
  * Build well-formed logical names.
* **Grid**:
  * Show exactly the checked categories.
  * Order the rows Error > Alert > Warning > others alphabetically, stably.
  * Count all exceptions.
* **Dali delete**: the grid shows the answer for the path last submitted,
  and only ever the parse of an answered request.

`PROJECT.json` "hazards" lists the code lines where these can go wrong.

## 2. Plan

1. `Session` is the only long-running, timed, multi-tab behaviour, so it comes
   first (done).
2. `JsonImportForm` has concurrent requests and partial failure (done).
3. `InfoGrid` is a pure algorithm checked against the spec's order (done).
4. `DaliDelete`, with Delete answers arriving out of order (done).
5. The import form's other validated fields: group, queue, format,
   NumParts and expireDays (done).
6. An abstract `SessionKeepalive` spec, with `Session` checked to refine it
   through `INSTANCE ... WITH` (done).
7. Clock steps: the wall clock behind `Date.now()` set back (done), and
   the keepalive rate per page and across tabs (done).
8. The build info: `GetBuildInfo` answered, answered without `BuildInfo`, or
   lost, and the `dojoConfig` values each leaves (done). The stale-callback
   question for the Dali Delete (done). Four rows for the grid (done).
9. What is left cannot be decided from this repository. Whether
   `ESPSessionTimeoutSeconds = "0"` is handled right depends on what ESP
   does with a zero timeout. What a stale `isContainer` leads to depends on
   `useBuildInfo`, which is outside the excerpt. Both stay listed as
   hazards with a note.

## 3. Modules

### Session.tla (`Session.ts`)

| Model | Code |
|---|---|
| `page[t]` | closed, `loaded` (module evaluated), `app` (`initSession` ran) or `login` (redirected) |
| `sinceReset[t]` | `Date.now() - _prevReset` |
| `watching[t]`, `idleAge[t]` | the IdleWatcher |
| `status` | the `Status` cookie |
| `inflight`, `touchAge`, `expired` | the requests and ESP's session timer |
| `clockSteps` | how many times the wall clock was set back |
| `buildInfo[t]`, `dojoConfig[t]` | the fate of the page's `GetBuildInfo`, and the `isContainer` and `currencyCode` it left |

Each action is a code path:

* `Load`: module evaluation, which also resets `dojoConfig` to its
  defaults and sends `GetBuildInfo`.
* `BuildInfoAnswered` and `BuildInfoFailed`: that request's `.then` and
  `.catch`. An answer without `BuildInfo` (an ESP exception) and a lost
  request both leave the defaults: `isContainer = false` and
  `currencyCode = ""`. Nothing asks again before a reload.
* `InitSession`: both branches of `initSession`.
* `UserActivity`: the `active` event and `resetESPTime`.
* `IdleTimerFires` and `FireIdle`: the `idle` handler.
* `Lock` and `Unlock`: `lock()` and `unlock()`.
* `Deliver` and `Lose`: the fate of a keepalive POST, or of the
  `GetBuildInfo` of a page closed since it was sent.
* `Close`: the page is closed or reloaded.
* `Tick`: time passes.
* `ClockSetBack`: the wall clock is set back by `ClockBackBy`. Every open
  page's `Date.now() - _prevReset` drops by that much, and it can go below
  zero. A value at its cap stands for any larger one, so it becomes any
  value from cap − `ClockBackBy` up to the cap.

Ages saturate at their caps, so the state space is finite and behaviours
still go on forever. A request settles before the next tick, because HTTP
latency is far below the 10 s unit. A timer may fire late, as in throttled
background tabs. `activeAge` is a history variable: the age of the last
`active` event handled while the cookie said "Unlocked".

### SessionKeepalive.tla (the promise `Session` keeps)

* `quiet` is the time since the user last worked unlocked. `alive` says
  whether the ESP session is alive, `locked` whether the session is
  locked, and `unheard` whether the latest request was lost.
* There are four actions:
  * `Work` is allowed only when unlocked.
  * `SetLock` sets or clears the lock.
  * `Network` delivers or loses a request.
  * `Pass` lets time pass. ESP may drop the session only when `quiet` has
    reached Grace or the latest request was lost, and never revives it.
* `Session` maps onto it with `Keepalive == INSTANCE SessionKeepalive
  WITH ...`:
  * `quiet` is the smallest `activeAge` over the tabs;
  * `alive` is `~expired`;
  * `locked` is `status = "Locked"`;
  * `unheard` is `lastOutcome = "lost"`.
* `KeepaliveRefined == Keepalive!Spec` is checked as a property.

### JsonImportForm.tla

* Strings are sequences over `{"a", ":"}`, enough to express the `::`
  separator logic. The validation regexes are translated over that alphabet.
* `batches` records each Import: files, logical names, per-request answer,
  settled, closed.
* `otherFields` summarises the validated fields other than the names:
  * destGroup and DFUServerQueue are required and default to "";
  * sourceFormat is required;
  * NumParts must match `/^[0-9]+$/`;
  * expireDays must be at least 1.

  Its values are "unset" (after every reset, since no group or queue has
  been picked), "valid" and "invalid". A picked Dropdown cannot be cleared.
* A spray answers in one of four ways: a workunit, an ESP exception, a
  resolved response with neither `Exceptions` nor `SprayResponse.wuid`
  ("empty"), or a transport failure. An empty answer matches no branch of
  the handler: nothing is logged or opened for it.
* `SprayAnswered` and `SprayFailed` run the `Promise.all` handler atomically,
  in the microtask after the answer that settles it.
* `SelectionChanged` fires for every selection array the page passes,
  including a new array with the same files: the effect depends on the
  array's identity, and it resets the form values each time.
* An invalid Import is not modelled as an action. The button's
  `handleSubmit(onSubmit)` validates first and does not call `onSubmit`
  when a field is invalid. So the inner error callback (`logger.error`)
  cannot run, and the user only sees the field errors, which change no
  modelled state.

### DaliDelete.tla

* `path` is the field. `confirming` says whether the confirm dialog is open.
* `requests` holds each Delete sent, with its path and state.
* `shown` is the index of the request whose parsed answer the grid shows.
  `setColumns` and `setItems` always come from the same answer, so one
  index stands for both.
* `DeleteAnswered` is the `.then`. `DeleteFailed` is the `.catch`, which
  also catches a `csvParse` of a missing `Result`.
* Nothing disables Submit while a Delete is in flight, so requests overlap.

### InfoGrid.tla

* The effect is `UpdateData`.
* `Array.prototype.sort`, which is stable since ES2019, is an insertion sort
  with the code's comparator.
* `GridMatchesExceptions` compares the result with a reference order written
  from the spec (`SpecRank`).

## 4. Runs

| Run | Expect | What it shows |
|---|---|---|
| `session` (`MCSession.cfg`) | pass | Two tabs, with reloads, lock/unlock in either tab and one lost request. `KeepaliveRefined`: the tabs implement `SessionKeepalive`. ESP expires the session only if no tab handled unlocked activity in the last Grace units, or the latest request was lost; the code never retries one. Activity while the Status cookie says "Locked" never counts as work. |
| `session_idle_late` (`MCSessionIdle.cfg`) | violation | `IdleBeforeServerExpiry` fails even with no loss. ESP counts from its last request, but the idle timer starts later: at `initSession`, or at activity that the 30 s rate limit kept from posting. The user sees the idle notice up to `SESSION_RESET_FREQ` after the session is already gone. |
| `import` (`MCJsonImportForm.cfg`) | pass | `TypeOK` with two files, two overlapping Imports, selection resets, and all four answer kinds in any order. It exercises every action of the form; the questions about batches are the violation runs below. |
| `import_duplicate` | violation | `OneSprayPerFile`: pressing Import twice sprays each file twice. Nothing guards a batch in flight. |
| `import_scope` | violation | `ScopeSeparatedOnce`: prefix `a::` gives `a::::aa`, because `substring(-2)` is the whole string. |
| `import_errors` | violation | `EachErrorLogged`: the first transport failure rejects `Promise.all`. Its `.catch` logs only that error. The batch's ESP exceptions and other failures are never logged, whether they arrived before or after it. |
| `import_empty` (`MCImportEmpty.cfg`) | violation | `FulfilledBatchReported`: one file answers with a workunit and the other with an empty response. Nothing is logged for the empty one, so `errors` stays empty and the form closes as if the batch had fully succeeded. |
| `session_rate` (`MCSessionRate.cfg`) | pass | `KeepaliveRefinedClockBack`: the wall clock is set back once by one unit, and one request may be lost. The tabs still implement `SessionKeepalive`, with Grace shortened by that unit. A setback delays a keepalive by at most its own size. It does shorten the protection: even one unit breaks `KeepaliveRefined`. |
| `session_clock_back` (`MCSessionClock.cfg`) | violation | `KeepaliveRefined` with no request lost. Once the wall clock is set back 3 units, an "active" event does not post, and ESP expires a working user's session. The timeout is scaled to 6 units, so 3 units exceed the model's Grace of 2. With the 600 s default, Grace is about 570 s, and only a setback of that order logs out a working user. Smaller setbacks just shorten the margin by their size. |
| `dali` (`MCDaliDelete.cfg`) | pass | `TypeOK` with three overlapping Deletes answered or failing in any order. Its last conjunct says the grid only ever shows the parse of an answered request. |
| `dali_order` (`MCDaliOrder.cfg`) | violation | `NewestAnswerShown`: two Deletes answered in reverse order leave the grid showing the older answer. |
| `info_grid` (`MCInfoGrid.cfg`) | pass | `GridMatchesExceptions` for all lists of up to 4 exceptions over 5 severities and all 16 checkbox settings. |

Each passing property has a mutant in `PROJECT.json` that TLC catches:

* the `Status === "Locked"` early return dropped, for the refinement;
* `_prevReset` stamped on every unlocked "active" event, even one that does
  not post, for `KeepaliveRefinedClockBack`;
* `initSession` always starting the watcher, for the session's `TypeOK`;
* the grid updated in a `finally`, for Dali's `TypeOK`;
* the selection effect writing rows without clearing the old ones, for the
  import's `TypeOK`;
* the comparator's `r.Severity === "Alert"` branch dropped, for the grid.

### Bounds

* **Session**: one unit is 10 s. `SESSION_RESET_FREQ` is 3 units. The 600 s
  timeout is scaled to 6 units, which keeps `ResetFreq + 1 < IdleTimeout` and
  leaves Grace = 2. Every case of the argument needs only that gap: activity
  just before or after the 30 s window, and expiry during or after a lock.
  There are two tabs, the fewest that show the shared cookie. One loss is
  enough to show the property's exception, and `MaxInFlight = 2` covers two
  tabs posting in the same unit. In `session_clock_back` the clock is set
  back once by `ClockBackBy = 3` units (30 s), the full rate-limit window.
  In `session_rate` it is set back by one unit, the smallest setback.
  `sinceReset` saturates at `ResetFreq + 1` plus the total setback, so a
  saturated value still posts after any setback, as the real one would.
  One step already breaks the refinement, and `MaxClockSteps = 0` elsewhere keeps
  those runs to the question they ask. The platform is containerised, with
  currency `"EUR"`, so an answered `GetBuildInfo` differs from the
  defaults. No guard or property of the session runs reads `dojoConfig`,
  or whether a settled `GetBuildInfo` was answered or failed. Their `VIEW
  SessionView` therefore explores states that differ only there once,
  which keeps each pass run near one minute.
* **Import**: two files, the fewest for the several-answers branch and for
  mixed answers. Two batches and two showings. Four prefixes and two target
  names cover valid, invalid and `::`-ending values.
* **Import**: the `import` and `import_empty` runs take two prefixes, the
  empty one (valid) and `:` (invalid), because names do not bear on batch
  reporting. The `import_scope` run keeps all four. `import_empty` needs
  only one batch and one showing.
* **Dali delete**: two paths besides the empty one, and three Deletes. That
  is enough for two requests in flight answered in either order, plus a
  later one.
* **Grid**: four rows. That allows two pairs of rows of equal severity, or
  two equal rows around two others, which tests the comparator's
  consistency and the sort's stability together.

### Fairness

No module states fairness. Every property checked is a safety property
(an invariant, or the refinement of `SessionKeepalive`, whose own
specification has no fairness). User actions are never assumed to happen.

## 5. Not modelled

* `formatCost` and `fetchModernMode`: formatting and store reads.
* `extractGraphInfo` and the column formatters: rendering only.
* The localisation table: data only.
* The subscribers of `hpcc/session_management_status` and
  `MonitorLockClick`: outside the excerpt.
* Cookie parsing of the timeout (`"0"` and unparsable values): listed as a
  hazard. The model takes the timeout as the constant `IdleTimeout`.
* The wall clock set forward: the rate limit then posts sooner than 30 s
  of real time. That cannot delay a keepalive, so it cannot break the
  refinement; the extra keepalives only reset ESP's timer early.
* Several tabs each keep their own `_prevReset`, so ESP may get one
  keepalive per tab within 30 s. That is harmless, and no property
  checks it.
* The unvalidated import checkboxes (overwrite, replicate, compress, ...):
  their values are copied into every request unchanged.
* `useBuildInfo`, `useConfirm`, `FileSpray.SprayVariable` and
  `DaliService`: outside the excerpt. The confirm dialog is taken to be
  modal.
