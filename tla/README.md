# A TLA+ model of osu-tracker

osu-tracker polls the servers of the game osu! for the stats of one player,
remembers the values of the first poll of a *session* as its baseline, and
shows current values and changes in a window, in text files, and to overlays
that connect to a web server in the same process. Its code is small (about
2,700 lines of C++ under `src/osu-tracker-bin`), but five kinds of threads share
global variables, only one lock guards any of the stats, and sessions are
started and ended from four places. This directory models those parts in TLA+,
checks them with TLC, and proves their safety with TLAPS.

Paths below are relative to `src/osu-tracker-bin` unless they start with `src/`.

## 1. Inventory

| Component | State | Operations | Interacts with | What is hard, and what makes it correct |
|---|---|---|---|---|
| Fetch thread lifecycle: `Core/Session.h`, `main.cpp` | `fetch`, `fetchThread`, the static `restarting` | `startFetchThread`, `stopFetchThread`, `restartFetch`, the loop `fetchApiData` | called by main, by detached threads of the web page, by detached threads of the window | no lock over flag and handle: two stops at once, a start over a running thread, a join that waits for ever, a tracker that no longer polls |
| Polling: `Api/Api.h`, `Api/Bancho.h`, `Api/PrivateServer/Titanic.h` | `init_api_failed`, `auth_token`, endpoint statuses | a login and three requests for Bancho, two requests for Titanic, recovery of a failed first poll | reads `Config::application` at several moments, writes `Config::data::arr` | any request may fail or be slow; the user may switch in the middle; a baseline must belong to the session and stay |
| Differences: `Api/Helpers.h` | `init`, `current`, `change` of each entry | `setField`, `calcDifference` | three threads of a poll at once, without a lock | read, compute, store over all entries while others write |
| Data: `Core/Config.h`, namespace `data` | `arr`, `arrFormatted`, `defaults`, `dataMutex` | everything that reads or writes them | fetch thread, API threads, window, web worker, restart thread | which access holds which mode of the lock |
| Settings: `AppConfig`, `Config::write`, `read`, `remove` | `application`, `config.json` | `#saveSettings`, `#resetSettings`, combo boxes, boot | web worker, window, main | concurrent and cut writes, saves that throw midway, sessions that do not follow |
| Formatting and text files: `Core/Formatter.h`, `Config::writeStats` | `arrFormatted`, `Txt/*` | `updateFormat`, `writeStats`, `createTemplateExample` | under the lock, by the fetch thread and the web worker | two vectors in different orders |
| Web server: `Web/*`, `Web/Routes/*` | `clients`, `counter`, `shutdown_webServer`, `uiThread` | messages `#restart #shutdown #open_ui #count #update #resetSession #resetSettings #saveSettings`; pages; overlay data | starts and stops everything | a message handler races main's shutdown and the window |
| Window: `View/ui.h`, `View/ui_debug.h` | combo boxes, `pendingSwitch`, `sawReset`, the avatar texture | draw a frame, switch server or mode, close | writes settings, calls `restartFetch`, reads the data under the shared lock | handshakes by polling flags set by other threads |
| Pages and templates: `Web/Layout.h`, `TemplateRegister.h`, `Routes/Pages/*` | `registry` | render, scan at start | read the data and the settings | unlocked reads |
| Helpers: `Core/Helpers.h` | none | level from score, string functions | | bounds of a binary search |
| Update check and updater: `Api/Update.h`, `src/osu-tracker-updater/update.cpp` | `update.zip` | compare versions, download, extract | shuts the process down | version order, partial extraction |
| Simulation: `Api/Simulate.h`; console: `Core/Console.h` | | | | debugging aids |
| `src/includes`, `src/lib` | | | | third-party; what the program relies on is modelled as external |

`PROJECT.json` lists the same components with what is and is not modelled, and
every hazard at its line.

## 2. The modules

Each module models one interaction; state that belongs to several is repeated in
the form that module needs. Modules named `MC...` only give constants values.
ChangeRace and TxtExport name their specifications `RaceSpec` and `ExportSpec` (and
so on), since one module of proofs extends both.

### FetchLifecycle: who starts and stops the fetch thread
`Ops` are the threads that do: main, slots for the detached threads of
`#resetSession` and `#saveSettings` (`Resetters`), and of `restartFetch`
(`Switchers`). `phase[p]` is where such a thread is: `stop` (`fetch = false`),
`join` (the `joinable()` test), `call` and `wait` (entering and leaving
`join()`), `clear`, `arm` (`fetch = true`), `spawn` (assigning the handle),
`release` (`restarting = false`). `loop` is the fetch thread, from `check` (the
`while (fetch)`) over `fetch`, `publish` and `sleep`; `none` means the handle is
not joinable. `status = "terminated"` stands for `std::terminate`: a join of a
handle that is not joinable or is being joined, an assignment over a joinable
handle, and a joinable handle destroyed at exit. `webUp`, `goingDown` and `ui` are
the web server, `shutdown_webServer` and the window, which is `deaf` when it was asked
to close before it was there: then only its user can close it. `worker` is the
web server's worker in the middle of a message: a `#saveSettings` is compared
(`SaveCompare`), set (`SaveSet`, or `SaveThrows` midway) and followed by a reset or
not (`SaveEnd`). `selected` is what the settings select, `session` what the baseline
was fetched for: nothing yet, a selection, or `Failed`, when the first poll left none
or a part of one. A poll (`LoopFetch`) fails or answers as `Api.h` has it: only a
first poll sets a baseline, except that Titanic sets it again when a later poll finds
`init_api_failed` up. `overlapped` and `missed` are history: two operations met, and
the selection changed in this session with no reset.

Abstractions: the creation of a `std::thread` and its assignment are one step; a
switch of the window writes `config.json` and calls `restartFetch` in one step
(SettingsStore takes it apart); a request to close is heard at once by a window that
is there (UiThread takes it apart); time is left out, so a sleep or a poll may take
any time.

### FetchService: what the lifecycle amounts to
The abstract specification: a service that is `stopped`, in its `first` poll,
`polling` or `ended`; a baseline that the first poll sets to what is selected, or
fails to set, that a later poll replaces only when it lowers a failure, and that is
emptied only while nothing polls. FetchLifecycle implements it under the mapping at its
end (`Service`, `Abstract`): a loop that is gone or has ended is `stopped`, one that
still holds its `init` argument is `first`, `init_api_failed` is `failed`, and once two
operations overlapped the service is `void` and promises nothing. `FetchService`'s
fairness says that a start is followed by a poll or a stop and a stop by a start or
the end, and is implied by the fairness of FetchLifecycle's threads.

### UiThread: the window's thread
The caller (main, and for `#open_ui` the worker of the web server: they never run
these functions at once, because crow has one worker and `run()` waits for it) goes
through `stopUiThread` and `startUiThread`: `test` (`joinable()`), `close`
(`CloseWindow`), `join`, `spawn`. The thread goes through `ui_main`: `init`,
`create`, `loop`, `destroy`, `terminate`, `end`. `window` is the global pointer,
which is `null`, `live` or `dangling`, and `glfw` whether the library is initialised.
GLFW is external: a request is ignored before `glfwInit` and after
`glfwTerminate`, works on a live window, and on another pointer it may have no
effect or end the process. `userClosed` and `premature` are history.

### Frames: what the window polls
A frame of the window step by step: the test of `avatarDirty`, the upload under
`avatarMutex`, `avatarDirty = false`, the `updating` mark's look at `fetchCount`, the
combo boxes. Against it the fetch thread (`check`, `ask`, `download`, `count`) and
the thread of `restartFetch`. `url` is stored before the download, `bytes` and
`dirty` after it, inside the lock, which the window holds at `lower`. A
window may be closed and opened: the mark's two variables are static and survive.
Abstractions: resets by the web page, which touch none of these variables but the
fetch thread, are left out; bytes always decode; `fetchCount` stops at 2.

### LevelSearch: getLevelFromScore
The loop of the binary search, one turn a step, and the value returned: the level and
the way to the next one, rounded to thousandths together, so that a score just
below a level is shown as that level (`Thousandths`). `Needed` stands for `scoreNeeded`:
any table that grows with the level, of whole numbers of some unit, so that the
comparison and the quotient of floating-point numbers are those of integers. Rounding
errors of `long double` itself are left out.

### Update: replacing the program
The check of the release tag, the download and the start of the updater, by main at
boot or by the web worker for `#update`, and updaters that overwrite one file after
the other. The tag without its dots is the number `Signed`. A file is `old`, `new`
or `cut` (opened, so empty); the program's own file cannot be opened while it
runs. Every request, write and open may fail, `update.zip` may be written in part,
and every process may be killed at any step. `overlapped` is history: a second
updater ran, or the archive was opened under one. One release is out during a
behaviour; one instance of the program is followed.

### SessionBaseline: what the stats are about
A value is reduced to whose it is: the server it came from, the server whose
player id was asked for, and the mode. `init` and `current` are kept per group of
entries that are written together. A poll is `PollBegin`, the steps of its
threads (`Auth`, `Request`, answers and failures for Bancho; the request, answer,
failure and recovery for Titanic), and `PollEnd`. The selection may change at any
moment, with a reset or without: `Save` sets it, and whether a `WebReset` comes is
another step, since a save may throw before it or may have been compared before a
switch; `Switch` asks for a restart only while `restarting` is down. `changed` records
a change since the session began. A reset is one step between two polls, because it
joins the fetch thread first; `Release` is the end of `restartFetch`, after the new
thread was started. What happens when resets overlap is FetchLifecycle's subject.

### ChangeRace: calcDifference by three threads
The program counters of the three threads of a poll of Bancho over the entries of
`arr`; setting `current`, setting `init`, reading the one, reading the other and storing
`change` are a step each, and an exception may end a walk at any entry. An access that
races in the sense of C++ is read as seeing the old or the new value. Between polls the
loop may go on (`NextPoll`), be restarted with the stats kept (`StopStart`:
`#resetSession`, a save, main) or with the stats cleared (`RestartFetch`). A poll of
Titanic is one thread that owns every entry; the second round of its recovery is left
out.

### DataLock: the accesses of the data
Every access of `arr` and `arrFormatted` in the program is a record of the lock
mode it holds and the vectors it reads and writes; a thread wants, enters and
finishes an access; `MayEnter` is `std::shared_mutex`. The order of poll, publish,
join, clear and start is kept, since `ClearIsAlone` rests on it: the two
`Restarters` are `restartFetch` of the window and a reset by the web page, which
restarts the fetch thread without touching the data. When the two meet, the page's
fetch thread may run while `restartFetch` clears; `overlapped` records that.
Stops that throw or a start over a joinable handle end the process and are not
steps here (FetchLifecycle has them).

### SettingsStore: settings, config.json, session
The worker, the window and main as processes. `Config::write` is three steps:
the document is built, the file is opened and truncated, the document is written; it may
fail to open or to be written to its end, and nobody is told. A file
removed while open loses what is written to it; it may also fail to be removed, which
ends the handler. `application.set` is one step per field, in any order (the handler
walks an `unordered_map`), and throws on a blank number. `restart` is the detached
thread of `restartFetch`: a switch that comes before `restarting = false` is ignored.
`Crash` may happen in any state. `Torn` is a file that holds the end of another,
longer document, or half of one. `unsaved`, `missed`, `cut` and `mixed` are history: why
memory and disk may differ (a write failed, met another, or never came), that a
selection came into force with no reset, that a crash or a full disk hit a write, that
writes overlapped. A write of what is in force that meets no other clears `unsaved`, a
first poll clears `missed`.

### TxtExport: sorting and pairing
`arr` as a sequence of keys with a sort value and the poll each value is from;
`updateFormat` may pick any order `std::sort` may produce; `writeStats` pairs the
two vectors by index.

### Operators named Mut...
Each module also defines a few operators `Mut<Action>`, marked `Mutant` in a
comment. No specification uses them. Each is the action before it with one
plausible mistake (a missing guard, a value that is not reset, a step in the
wrong order); put in the place of the action it makes one of the properties fail,
which shows that the property depends on the code.

## 3. The runs

| Run | Bounds | Shows |
|---|---|---|
| `FetchLifecycle_all` | 1 resetter, 2 switchers, main, 2 selections, one of them Titanic's; after an overlap, `MeetingsInShort` | The process dies on the handle only if two operations overlapped (`CrashNeedsOverlap`); switches of the window never do (`SwitchesExclusive`); a serving tracker at rest polls (`QuiescentPolling`); all of it is one fetch thread and one baseline at a time (`ImplementsService`, `ServiceProgress`); every reset ends (`ResetCompletes`), shutdown and restart get through (`StopCompletes`), the session comes to be about the selection (`SelectionTakesEffect`) |
| `SessionBaseline_safety` | Bancho in one mode, Titanic in another; one group | `OneIdentity`, `BaselineKeptUnlessCarried`, `TitanicHasBaseline` |
| `ChangeRace_stale` | 2 entries of different owners, a third thread, values 0 and 1 | Each side of a change is the value shown or the one this poll replaced (`StaleByOneAtMost`) |
| `DataLock_safety` | 2 API threads, the four others, a reset by the page | `FormattedNeverTorn`, `ClearIsAlone` |
| `DataLock_comment` (violated) | the same | finding 1 |
| `SettingsStore_safety` | 2 users, 2 modes, blank fields, a disk that may fail | `Durable`, `ReadableUnlessCut`, `SessionFollows` |
| `TxtExport_safety` | 3 entries, all orders with ties, 1 poll | `ListInOrder`, `DefaultOrderExports` |
| `TxtExport_reordered` (violated) | the same | finding 2 |
| `UiThread_close` | none | An old window is gone before a new one (`WindowJoined`), only a request that meets no window ends the process (`CrashNeedsMissingWindow`), no request reaches the next window (`NoStaleClose`), the wait ends unless the request came too early (`StopReturns`) |
| `Frames_handshakes` | 2 pictures | No picture is lost (`TextureFresh`, `PictureShown`); the mark of a switch goes away (`MarkEnds`), and not before a poll of a thread started since (`MarkTruthful`) |
| `LevelSearch_levels` | levels 1 to 58 with the code's formula, in units of 5000 points, scores at each edge | `Narrowed`, `LevelCorrect`, `SearchEnds` |
| `Update_replace` | 3 files, 2 updaters, 8 tags | The program is started over a whole release (`StartedWhole`), its file is never new before those that precede it (`NewProgramNewBefore`), versions with as many digits are compared right (`CheckRight`) |

Why the bounds are enough. *Threads*: the handle can be misused by two threads
that meet; a resetter against main or a switch is such a pair, and two switchers
are needed to see that the guard excludes them; the safety of any number is proved.
*Selections*: the properties compare the session with the one selection now in
force, so one other is enough. *Configurations*: two that differ in
server and in mode: every change then shows in the server, the player and the mode of
what is written, also between a request of Titanic and its answer. *Groups*: no step looks at two of them. *Entries*:
a race is about one entry of a thread and another thread passing by. *Files*:
two settings are needed for a save to stop between them; an archive has a file
before and one after the program. *Pictures*: the one shown and the one to come.
*Levels*: those whose scores TLC's integers hold; the theorem covers the rest.
*Tags*: older, equal, later in each component, and with two digits. The models have no
other bound; they run for any number of polls, saves, frames and restarts.

`FetchLifecycle_all` has a CONSTRAINT, `MeetingsInShort` (MCFetchLifecycle): where two
operations have met, most properties ask for nothing more, and the run follows
what becomes of the fetch thread (a join that throws, a start over a joinable
handle, an exit with one, a join that waits for ever) with one selection and no failure
of a poll. Before a meeting nothing is cut off, and the theorems have no such bound.

`Update_replace` and no other run turns deadlock checking off: a program whose file
was cut and whose updater is gone cannot be started again.

Fairness: weak fairness of the fetch loop, of each thread that operates on it, of
main, of the worker in the middle of a message, of the window's thread while it opens or
closes, of the caller of the window, of the frames and of the search's loop.
These are threads of the operating system that are runnable, or wait in `join()` or
for a lock held for a few statements; every request they make has a timeout
(`Api/Status.h:6`). Nothing is assumed of the user, of messages or of answers: main may wait for ever in
`stopUiThread` for a window that no request reaches (`WaitsForUser`, `premature`).

`overlapped` in FetchLifecycle is no excuse for the ordinary case: it is
raised only when an operation begins while another one is in flight. The models
show that such a meeting can end the process, by two clicks on *Reset Session*, or
leave a join waiting for ever, by a start that raises `fetch` before the loop saw it
down; the properties do not catch these meetings, for which the code has no guard,
they say that nothing else goes wrong. So it is with `cut` and `mixed` of
SettingsStore and `overlapped` of Update (a second updater). In the same way `premature` marks a close
request that comes before the window, `early` a first poll that the switch
interrupts, and `Missed` a restart whose first poll ended between two frames: these are
what the code does, and the properties say that nothing else goes wrong.

### Findings
1. The API threads of a poll write `arr` without the lock that the comment at
   `Core/Config.h:170` promises, so that a reader which does hold it is not protected
   (`ReadersProtected`, `DataLock_comment`). Pages and `Config::write` read without it
   too, as the module's records say.
2. With an order of the user's own, text files show other entries' formatted
   values (`Core/Config.h:286` against `help.html:38`; `TxtExport_reordered`).

### Observed
Behaviours met while modelling, which the models have and whose cause a history
variable or the exception in a property names:

- A save that changes the mode keeps the stats; if the first poll then fails, the
  baseline is the old mode's (`MainWsRoute.h:87`, `StopStart` of SessionBaseline).
  `restartFetch` does clear them, which is why `OneIdentity` is stated for sessions
  the window began. The settings page says that a change of mode resets the
  session (`settings.html:9`).
- A change may be computed from a value that has been replaced since
  (`Api/Helpers.h:17`), or from the baseline of the session before;
  `StaleByOneAtMost` bounds by how much.
- A save with an empty number field stops midway (`MainWsRoute.h:70`): some settings
  are in force, nothing is written and nothing is reset (`missed`, `changed`,
  `unsaved`). The running session then polls another server or player over its old
  baseline, until the next reset.
- `restartFetch` ignores a switch that comes between the start of the new thread and
  `restarting = false` (`Core/Session.h:72`), though the new first poll may be past
  reading the selection (`missed`, `changed`); `init_api_failed` of an earlier session
  makes a later one replace its baseline (`carried`); `#resetSettings` keeps the stats
  its dialog says it clears.
- A failed first poll of Bancho leaves a session with no baseline, or a part of one,
  for good (`Failed`); on Titanic a later poll recovers it.
- A `config.json` that cannot be opened, or a full disk, loses a save with no sign of it
  (`Core/Config.h:245`).
- One string of the inspector's API that is no number ends the walk of `calcDifference`
  in all three threads: the entries behind it keep an old change
  (`Api/Helpers.h:23`, `EntryThrows`).
- A score just below a level is shown as that level (`Core/Helpers.h:91`).
- A stop that comes before the window exists waits for the user to close it; the
  worker then holds `ws_mutex` and serves no message (`premature`). A window whose creation
  failed leaves GLFW initialised, and the next stop asks a null window to close.
- The `updating` mark stays when a first poll ends between two frames, and ends too
  early when a first poll was under way at the switch.
- `0.5.10` counts as later than `0.6.0`, and `1.10.0` and `11.0.0` are the same
  (`Api/Update.h:50`): `CheckRight` holds only while the second and third components
  have as many digits.
- A file that is cut stays so: the updater keeps no copy, and one that stops at
  the program's own file leaves no program to start. The page is told "No updates
  found." after `#update` whether or not one was (`MainWsRoute.h:41`).

## 4. The proofs

Eight modules: `XProofs` for module `X`, the refinement of FetchService with
FetchLifecycle, and EntriesProofs for the three small ones about entries
(ChangeRace, TxtExport, LevelSearch). Every invariant of every run is a theorem, for
every value of the constants the assumptions of its module allow. Each proof
has one lemma for an action, or a few that are alike, and ends with the same three
facts: the initial states satisfy the inductive invariant, every step keeps it, it
implies the property.

| Module | Theorems | State `Spec =>` |
|---|---|---|
| FetchLifecycleProofs | `TypeCorrect`, `CrashSafety`, `SwitchExclusion`, `PollingSafety`, `ServiceImplemented` (and `JoinSafety`) | `[]TypeOK`, `[]CrashNeedsOverlap`, `[]SwitchesExclusive`, `[]QuiescentPolling`, `ImplementsService` |
| SessionBaselineProofs | `BaselineTypes`, `IdentitySafety`, `BaselineSafety`, `RecoverySafety` (and `BaselineFixed`) | `[]TypeOK`, `[]OneIdentity`, `[]BaselineKeptUnlessCarried`, `[]TitanicHasBaseline` |
| DataLockProofs | `DataLockTypes`, `FormattedSafety`, `ClearSafety` | `[]TypeOK`, `[]FormattedNeverTorn`, `[]ClearIsAlone` |
| SettingsStoreProofs | `SettingsTypes`, `ReadableSafety`, `DurableSafety`, `SessionSafety` | `[]TypeOK`, `[]ReadableUnlessCut`, `[]Durable`, `[]SessionFollows` |
| UiThreadProofs | `UiThreadTypes`, `JoinSafety`, `CrashSafety`, `CloseSafety` (and `HeardSafety`) | `[]TypeOK`, `[]WindowJoined`, `[]CrashNeedsMissingWindow`, `[]NoStaleClose` |
| FramesProofs | `FramesTypes`, `TextureSafety`, `MarkSafety` (and `PictureSafety`) | `[]TypeOK`, `[]TextureFresh`, `MarkTruthful` |
| EntriesProofs, ChangeRace | `RaceTypes`, `StaleSafety` | `RaceSpec => []RaceTypeOK`, `[]StaleByOneAtMost` |
| EntriesProofs, TxtExport | `ExportTypes`, `ListSafety`, `DefaultOrderSafety` | `ExportSpec => []ExportTypeOK`, `[]ListInOrder`, `[]DefaultOrderExports` |
| EntriesProofs, LevelSearch | `SearchTypes`, `SearchNarrows`, `LevelSafety` (and `SearchShrinks`) | `[]TypeOK`, `[]Narrowed`, `[]LevelCorrect` |
| UpdateProofs | `UpdateTypes`, `ComparisonSafety`, `StartSafety`, `OrderSafety` (and `SameWidthOrder`) | `[]TypeOK`, `[]CheckRight`, `[]StartedWhole`, `[]NewProgramNewBefore` |

**FetchLifecycle.** Assumed are `ThreadsAssumption` (slots of the two kinds and main
are distinct) and `SelectionsAssumption` (the default is a selection, "none" is
not). Whether a join finds the handle it expects depends on all earlier steps,
so `Inductive` adds `Handle` (without overlap a thread in its stopping phases faces
a joinable handle, one in its starting phases a handle that is not, and at `spawn`
the flag is up), `Solo` (without overlap there is one such thread at most),
`Guarded` and `Roles` (a switch that is not over holds `restarting`, and only
switches release it) and `Served` (the web server is up and its worker at work only while main serves, and a
window there only until main has joined it). There is a lemma for the loop, the steps
of an operating thread, main, messages, the worker and the window.

`JoinSafety` is the safe part of `ResetCompletes`: with `Lowered` (the flag stays down
from the thread that lowered it to its join) a thread in `join()` waits for a loop
that is there and was told to end, and no step of anybody takes the loop further from
its end.

**FetchService.** The initial states map to `stopped` with no session; then, with
`Inductive`, each step of the loop, of a thread, of main, of the web page and of the
window is a step of the abstract service or a stutter: a first poll of either server
is `FirstPoll` (`FirstService`), a later one, Titanic's recovery among them, is
`LaterPoll` (`LaterService`), and a `spawn` finds the service `stopped` because `Handle`
says that the loop is gone.

**SessionBaseline.** The properties speak of a tracker at rest; the invariant says what
leads there in the middle of a poll. `Staged`: where the three threads may be on the
server the poll branched on. The rest speaks of a session whose selection has not
changed (`~changed`), for nothing in the code resets one that has. `OneServer` and
`AsksSelected`: what is asked for is what is selected. `Identity`: then the values are of
what is selected too. `Kept`: in a session that did not begin with `init_api_failed` up,
that flag means on Titanic that there is no baseline yet. `Recovered`: the first poll
of Titanic leaves a baseline or the flag. That a new session may begin with anything
in the entries is where `cleared`, `based` and `carried` come in. `BaselineFixed` is a
property of steps: past the first poll of a session that did not begin with the flag up
and got its baseline, no step of it changes a baseline. `ConfigsAssumption` names the two servers and that a fresh `AppConfig`
is on Bancho; `GroupsAssumption` asks only that the last entries a poll sets are
tracked.

**DataLock.** `FormattedSafety` needs only the lock (`Locked`): every access of
`arrFormatted` in the program holds it, every write holds it alone
(`AccessesProper`), and two threads are inside together only to read (`Exclusive`).
`ClearSafety` needs nothing of the lock (`Ordered`): an API thread is at its fields only
during a poll it is not through with, the fetch thread only while it publishes, and
a restart that meets no other one clears or starts only when the handle is not
joinable. `ApiThreadsAssumption` keeps the names of the threads apart.

**SettingsStore.** `TakesTurns` says who may be at work at once (the worker only while
main serves, the window until main joined it), `Orphans` that only the window can
be writing to a removed file, and that main then waits for it. `Untouched`: without
an overlap a writer finds the file as it emptied it; `ResetComing`: a session that
lags has a first poll or a thread that will ask for one on its way, or `missed` says
why not; `WriteComing`: while `unsaved` is down, a file that lags has a write of what
is in force on its way, and every document built is of what is in force. Each yields one of the properties. `FilesAssumption`: an
emptied or torn file is no document.

**UiThread.** `LiveWindow` ties the pointer to where the thread is, `CallerKnows`
the handle to where the caller is, `LeavesForAReason` says that a window is left
because its user or a waiting caller asked, and `LeftInitialised` that only a failed
creation leaves GLFW initialised: so a request that misses the window meets one of
the three cases `CrashNeedsMissingWindow` names.

`HeardSafety` is the safe part of `StopReturns`: a request that found the window is not
lost, so that its thread is on its way out.

**Frames.** `TextureSafety` rests on who may change `bytes`, `dirty` and
`texture` at each point of a frame and on the lock; `MarkSafety` on an invariant that
relates `sawReset` and `fetchCount` to whether a thread started after the switch has
ended a poll. `PictureSafety` adds `Delivered` (the bytes are those of the url, but for
a download under way or failed) and is the safe part of `PictureShown`.

**ChangeRace.** By the place of an entry in `arr`, and for the thread that owns it:
`Baselines` (an entry with a baseline has a value, for `setField` sets that first),
`Computed` (what a thread has read and not stored is the value shown or the one the
owner replaced in this poll; while the owner has yet to replace it, the value shown; and
the same of the baseline), `Idle` (no other thread holds anything) and `Stored` (the
difference of every entry the owner's walk has passed is of such values). The one value
of slack is needed: another thread may hold a value across the owner's `setField`, and
not across two of them, because polls are joined, and a reset begins between polls. `EntriesAssumption`: a key is in
`arr` once.

**TxtExport.** `SortedOnce` says that whatever order `std::sort` picks has every key
once. While the user has no order of his own the sort values are the positions, so
every sorted order is an increasing map of 1..n onto itself, and `GrowingIsIdentity`
shows that such a map is the identity; as induction over data is out of the prover's
reach, by counting the positions below and above a place. `KeysAssumption`: the keys
are a sequence without repetition.

**LevelSearch.** `Narrowed` is inductive: what is below the range is reached, what is
above is not; with an empty range it says that the level kept is the last one reached.
`RoundedFraction` is arithmetic: rounding a part of a whole to thousandths gives 0 to
1000, and 1000 only when a 2000th or less is missing; so `LevelCorrect` follows, the
rounding up into the next level included. `NeededAssumption` (the scores grow) is all
that is asked of `scoreNeeded`, and `FirstLevelAssumption` (level 1 starts close to 0)
is for the scores below level 1. `SearchShrinks` gives the measure that ends the
search.

**Update.** `SameWidthOrder` is arithmetic on digits: the front of a tag decides first,
since what follows it is below the power of ten it is shifted by. `Ordered` says, as long as nothing
overlapped, that there is one updater, that it has written the entries before the one
it is at, that the program's file is new only if it is past it, and that a program
which is about to start an updater is an old one: a new program is not replaced
again, since no release is newer than itself.

Only model-checked: liveness (`ServiceProgress`, `ResetCompletes`, `StopCompletes`,
`SelectionTakesEffect`, `StopReturns`, `MarkEnds`, `PictureShown`, `SearchEnds`), which
is beyond the prover. Of `ResetCompletes`, `StopReturns`, `PictureShown` and
`SearchEnds` the part that is safety is proved (`JoinSafety`, `HeardSafety`,
`PictureSafety`, `SearchShrinks`); what is left to TLC is that fair threads then take
their steps.

## 5. Plan

Done, in this order: FetchLifecycle (the core), SessionBaseline, ChangeRace,
DataLock, SettingsStore, TxtExport, with the first proofs; then FetchService and
the refinement, UiThread, Frames, LevelSearch, Update, and their proofs; then the
proofs of SessionBaseline, ChangeRace and TxtExport, and the safe parts of the liveness
properties; then failed first polls, changes of the selection with no reset, resets
that keep the stats, failures of the disk and the rounding of levels, in the models
and their proofs.

Left: resets by the web page in Frames; main, window and fetch thread in one
composed module, so that the stop of the window before the stop of the fetch thread
(`main.cpp:86`) is seen to matter; the safe part of `MarkEnds` and
`SelectionTakesEffect`; the grouping of digits in `formatNumber` and in
`Core/Formatter.h`.

## 6. Not modelled

Number formats and HTML (layout); the contents of answers; the `Display` part of
`config.json`; `debug.env`, debug builds only; the registry of web socket
connections, which nothing reads; `#count`; logging; simulation mode; the console;
third-party code; the errors of floating-point arithmetic in a level; which entries of an archive the updater skips, and
whether the archive of a release holds the updater itself or a folder of its own.
Undefined behaviour of unlocked accesses is modelled where it
decides a value (ChangeRace) and reported where it does not (DataLock); torn
strings are not modelled.

## 7. Running

    tlc -workers 2 -config FetchLifecycle_all.cfg MCFetchLifecycle
    tlapm FetchLifecycleProofs.tla

The module of a run `X_y` is `MCX`, its configuration `X_y.cfg`.
