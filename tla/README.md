# Nidara: TLA+ models, model checks and proofs

These modules model the parts of the Nidara desktop whose correctness hangs on the order in
which things happen: the session lock of the compositor Hyalo, the lock before sleep, its preview
of output layouts, the notification server with the shell's mirror of it, the joining of Wi-Fi
networks with the secret agent, and the installer. TLC checks them on small instances; for
each of them TLAPS proves the main safety properties for every instance.

Everything is translated from the sources under `src/`; `PROJECT.json` ("map") names the lines
of every definition. What is outside (logind, systemd, NetworkManager, archinstall, the kernel's
vblanks, lock clients, the message bus) is modelled from how the code uses it and marked external.

## 1. Inventory

### Hyalo, the compositor (`src/hyalo/compositor/src`)

One thread runs a calloop event loop; a handler runs to its end before the next. Other threads
(logind, the screen saver service, the display store) reach it through channels.

| Component | State | Operations | Interacts with |
|---|---|---|---|
| Outputs and the redraw loop: `backend/tty.rs`, `outputs.rs`, `state.rs` `queue_redraw` | per output: connected, powered, `Redraw` (Idle, Queued, waiting for a flip's vblank or an estimated one, each with or without a redraw asked meanwhile), the frame in flight, the frame on the panel; the active VT | queue_redraw, render_surface, on_vblank, estimated_vblank, set_power, connector_connected / disconnected, Pause/ActivateSession | lock (which frame to draw, what a vblank shows), idle (power) |
| Session lock: `lock.rs` | `Mode` (Unlocked, Pending, Locked, Guard), its client, `waiting` outputs, the hold, the generation and each output's mark, asks and their timers, relaunches | lock_session, lock, new_surface, commit, unlock, guard_session, lock_frame_shown, relaunch_lock, watch_lock, focus restrictions | redraw loop, logind, idle, lock clients |
| Lock before sleep: `logind.rs` | the delay inhibitor, `sleep_pending`, two timers | PrepareForSleep both ways, lock_confirmed_for_sleep, release_sleep_delay, take_delay (another thread) | logind, lock |
| Idle: `idle.rs` and the screen saver service of `logind.rs` | last activity, the suspend clock, steps fired, inhibitors | note_activity, idle_check, inhibition, source and config changes | lock, outputs, logind |
| Display1: `display/` | layout, preview lease (owner, token, deadline), the commit being saved, profiles, lid, a recovery for later | preview, confirm, cancel, expire, hot-plug, lid, owner lost, reload, store answer | outputs, lock, VT, a disk worker |
| Window management and focus: `wm/`, `focus.rs`, `input.rs`, `handlers.rs`, `xwayland.rs` | workspaces, stacks, focus, grabs | map, unmap, focus, move, grabs | clients, lock (input) |
| Protocols, IPC, rendering, capture, configuration | per client objects; GPU state | request handlers; drawing | clients |

### nidara-sessiond (`src/session/daemon/src`)

A multi-threaded tokio process serving D-Bus; each service has one mutex around its state.

| Component | State | Operations | Interacts with |
|---|---|---|---|
| Notification server: `main.rs`, `model.rs`, `store.rs` | roster, next id, expiry tasks and their handles, the queued write, `state.json` | notify, close_notification, dismiss, invoke_action, list, expiry, debounced write, restore | senders, shell, systemd |
| Config1: `config/` | values, announced revision, followers | get, set, apply, announce | shell, file watchers |
| Bluetooth and its consent broker, network and its secret agent, power and brightness, audio, media, tray, applications | mirrors of the system's services; one pending consent request; a keyring queue | proxied operations with consent | BlueZ, NetworkManager, UPower, PipeWire, MPRIS |

### The shell (`src/ui/shell`)

| Component | State | Operations | Interacts with |
|---|---|---|---|
| Mirror of the notifications: `core/notifd.ts` | the rows, the generation, signals kept until List answers | subscribe, List, signals, the bus name's owner | nidara-sessiond, the surfaces |
| Wi-Fi secret agent: `core/NetworkAgent.ts`, `core/NetworkCancels.ts`, `common/WifiSecretsAgent.ts` | the question asked and its dialog, a timer, one record of dismissed dialogs per profile | GetSecrets, keyring lookup, type, dismiss, time out, CancelGetSecrets, NetworkManager's end | NetworkManager, the keyring, the user |
| Joining a network: `core/NetworkService.ts` `connectAp`, `common/WifiSecretsDialog.ts` | per join: its activation, whether it made the profile, what the promise says | activate, state changes, ask to delete a profile that never worked, tell cancelled from failed by the shell's record | NetworkManager, the agent, Settings |

### The installer (`src/ui/installer`)

| Component | State | Operations | Interacts with |
|---|---|---|---|
| Flow and frame: `lib/flow.ts`, `widget/InstallerWindow.ts` | the page, the furthest page, the dialog shown, busy, the footer | next, back, jump, confirm, close, quit, rebuild in another language | the pages, the compositor's close |
| Answers: `lib/answers.ts`, `steps/disk.ts`, `steps/account.ts` ... | one set of answers; GParted | edits, GParted's end, GPU detection | the plan, the summary |
| The run: `steps/run.ts` | the stage, the child, credential files, five timers, phases | network check, reflector, archinstall, its lines, stop, end, retry | a root process, the frame |

### The rest

`toolkit`, the other parts of `ui`, `bin`, `lib`, `crates`, packaging and scripts are user
interface, tools and data; `PROJECT.json` ("components") says of each why it is not modelled.

### What is hard here

* **The lock.** A client must not hear `locked` before the session has left every screen,
  though frames are drawn, queued and shown at different times, several outputs run their own
  cycle, clients die and are replaced, and timers of old asks go off later. Input must be cut
  at once in every case.
* **Sleep.** Three parties (logind, a thread, the event loop) share one inhibitor; the machine
  must not sleep open and must not be kept from sleeping.
* **Previews.** A layout that may have left the user without a picture must be taken back by
  itself, though its outputs may be unplugged, the VT elsewhere, the backend refuse the old
  layout too, the client gone, or the confirmation on its way to the disk.
* **Notifications.** Ids are reused by their senders; expiry, replacement and closing race; a
  reply races signals; both sides restart.
* **Wi-Fi.** Three clocks (the agent's two minutes, NetworkManager's own, a record's 30 s), two
  processes that join, and one slot for a dialog; a dismissal must be told from a failure, and
  nothing is left behind by a join that did not work.
* **The installer.** A root process rewrites the disk under a window with many ways out, while
  dialogs, timers and the child's last lines fire in any order; what is installed must be what
  was confirmed, and the credentials must not stay.

`PROJECT.json` ("hazards") lists each at its line with the property that watches it, and those
no property covers yet with the reason.

## 2. Modules

| Module | Models | Composition |
|---|---|---|
| `Screens` | redraw, flip and vblank cycle, power, hot-plug, VT | extended by SessionLock |
| `LockContract` | what the lock promises, with no machinery: open, closing, closed | abstract specification |
| `SessionLock` | `lock.rs` | extends Screens, implements LockContract (`KeepsContract`) |
| `SleepLock` | `logind.rs`, logind itself and the machine | extends SessionLock; its steps are LockStep |
| `SleepProofs` | theorems about SleepLock | extends SleepLock, TLAPS |
| `SessionLockProofs` | theorems about SessionLock | extends SessionLock, TLAPS |
| `Notifications` | the notification server and its store | on its own, and extended by NotificationMirror |
| `NotificationsProofs` | theorems about Notifications | extends Notifications, TLAPS |
| `NotificationMirror` | `notifd.ts` and the bus between | extends Notifications |
| `MirrorProofs` | theorems about NotificationMirror | extends NotificationMirror, NotificationsProofs |
| `Display` | `display/mod.rs`, its disk worker | on its own |
| `DisplayProofs` | theorems about Display | extends Display, TLAPS |
| `WifiSecrets` | the secret agent, its dialog and its records | on its own |
| `WifiJoin` | `connectAp`, NetworkManager, the keyring and the user | extends WifiSecrets |
| `WifiProofs` | theorems about WifiJoin | extends WifiJoin, TLAPS |
| `InstallRun` | `run.ts`: the run page and its child | on its own |
| `Installer` | the window, its flow, dialogs and answers | extends InstallRun |
| `InstallerProofs` | theorems about Installer | extends Installer, TLAPS |
| `MCSessionLock`, `MCSleepLock`, `MCDisplay`, `MCNotifications`, `MCMirror`, `MCWifiJoin`, `MCInstaller` | values for TLC | |

### How state and actions correspond

**Screens.** `redraw` is `Surface.redraw`, with the six states of `enum Redraw` (`Estimated` is
WaitingForEstimatedVBlank). A frame is an integer: 0 shows the session, g > 0 is a locked frame
of generation g. `flip` is what the kernel was handed, `screen` what the panel shows.
`RenderSurface` is the tail of render_surface with its three endings: queued to the kernel,
nothing new (an estimated vblank follows), failed (the output goes Idle with its old content).
Two frames may end as "nothing new" only if both show the session or both hide it.

**SessionLock.** One action per handler: `LockSession`, `GuardTimer`, `LockRequest` (refuse or
take), `NewSurface`, `CommitBuffer`, `Unlock`, `Render`, `VBlank`, `EstimatedVBlank` (these three
with `Draw`, which does what render_surface calls: draws_locked, note_rendered, lock_frame_shown),
`HoldTimer`, `WatchLock`, `KeyPress` and so on. Time is what may happen next: a timer that is set
may fire at any moment. HOLD_SESSION is a state of its own (`hold`), since draws_locked compares
the clock with it while its timer may be late. An output that is unplugged and plugged again is a
new object: what the old one carried is `Unplugged` in `waiting`. `unseen` and `answered` are
history variables that only properties read.

**SleepLock.** `signals` is what logind said and the thread has not read, `events` the channel to
the event loop. A step of the lock that confirms it, or shows the guard, calls
lock_confirmed_for_sleep in the same step (`LockConfirmedForSleep`). Nothing of the session runs
while the machine is asleep. logind waits for the inhibitor only to a cap of its own: `Overtake`
is the sleep that comes before the event loop has answered, which `LateSleeps` bounds. `excuse` is
history: a sleep announced while no inhibitor was held, a timer of an earlier sleep, a client that
unlocked meanwhile, and a late loop are what a sleep of an open session is put down to.

**Display.** `hyalo` is `state: &mut Hyalo` as far as Display1 reads it, one record that a handler
takes through its calls; a call that may fail gives the set of records it may end in, so a handler
is still one step. A setting keeps whether the output is on and which preview set it (0: none), and
a layout of an older topology is `Stale`, since its connection ids name nothing. `shown` is what the
backend drives, `config` is `state.config.outputs`, after which a monitor comes up. A deadline is a
flag that time raises (`DeadlinePasses`); the timer's callback comes later. `gap` is history: a
change of topology that nobody reconciled, or a safe layout that failed, and nothing tidied up
since. LidSays leaves the sequence numbers out (the power policy sends in order), explicit
overrides are empty, and every layout on offer is valid.

**Notifications.** Every handler holds the state's mutex from its first line to its last signal,
so it is one step. A notification's content is the number of the Notify call that brought it.
The roster and the store are sets of entries, one for an id: their order, which the code keeps,
is read by nobody (the notification center sorts by time). `timers` is the map of handles, `tasks` the expiry tasks that sleep; replacing or removing a
notification aborts the task of the handle. `flush` is the queued write.

**NotificationMirror.** The bus keeps what one connection sends in order: signals, replies and
changes of the name form one queue, `inbox`. Calls reach the daemon in any order, and the reply
to List leaves some time after the roster was taken. `told` is the set of ids the surfaces were
notified of and not yet told resolved. The shell subscribes before it learns the owner of the
name, so its start is one step.

**WifiSecrets and WifiJoin.** A D-Bus callback with the promise reactions it sets off is one step,
as in the shell's main loop. A call of NetworkManager is a number; `pending` is the call whose
question is open (0: none), and the search of the keyring that comes before is a state of its own,
since it may wait for an unlock prompt. The keyring answers with any key or with none.
NetworkManager keeps one activation at a time per adapter, its CancelGetSecrets is in transit for a
while, and one connection's messages keep their order. A profile's UUID is made up once.
A join that failed reads the record (`JoinHears`; a joiner in Settings asks the shell for it, which
answers, `SettingsConsumes`, or fails or stays silent for 5 s, `RequestFails`, read as "not
dismissed"), and only then `Done` looks at the profile it made: libnm may have dropped the
connection by now, or its deletion is asked for and the promise rejects at once. `deletions` is what
NetworkManager has still to hear of; it deletes the profile, with whoever uses it by then, refuses
(`NMDeletes`), or dies first. A record of a dismissal ends (`RecordExpires`) only after NetworkManager
has reacted and the join has asked, for which 30 s is long, unless a request for it was lost: the
shell may then have spent it. NetworkManager restarts only while no join is followed (what libnm does
then is not in this code). `letGo`, `overdue`, `dismissed`, `refused`, `joined`, `unheard` (a request
in vain) and `left` (a deletion that came to nothing) are history.

**InstallRun and Installer.** `stage` is how far startInstall has come, from the page that is not
built to the outcome; each callback of `run.ts` is an action, with all ends of startInstall. The
phases are numbered as in RUN_PHASES. Lines of archinstall are read one by one, and go on being read
after its end (`Prints`). The line that starts the base phase may so be in the pipe (`baseLine` is
"unread") when wait_async has ended the run, and is then read on the finished page (`BaseBegins`),
which enters the phase and polls for the desktop's log; assumed is that a run which succeeds has had
the line read, minutes before. `files` is what is in /tmp: the plan and the credentials, whole or in
part; a write that fails leaves any of these (`FilesRefused`), and `unwritten` is the history of it.
`index` and `maxReached` are flow.ts's; of the answers a model keeps what readiness, the summary and the plan tell apart.
Readiness of the welcome and the region page is anything at any time. The mode of GParted's caller
is read when the page is built, as the closure does, and one GParted runs at a time. `confirmed`
and `installed` are history: what the dialog named and what the child was given.

## 3. Runs

| Run | Shows | Bounds |
|---|---|---|
| `lock_one_output` | `TypeOK`, `LockedIsUnreachable`, `SessionIsCovered`, `OnlyItsClientUnlocks`, `GuardOnlyUnanswered`, `KeepsContract`; `AskedIsLocked`, `LockedIsHidden`, `DeadIsReplaced` | 1 output, 2 clients, 2 locks, 1 ask; power, hot-plug, VT, dropped surfaces |
| `lock_two_outputs` | `ToldMeansShown` | 2 outputs (symmetric), 1 client, 2 locks, 1 ask; power, VT, failing frames |
| `lock_unplugged` | refutes `ShownIsTold` | 1 output, 1 lock |
| `sleep` | `SleepTypeOK`, `ComesBackLocked`, `InhibitorBack`, `SleepsLocked`, `SleepGoesAhead` | 2 sleeps, in both of which the loop may be late, 1 client lock, 2 asks |
| `sleep_stale_timer` | refutes `LetGoOnlyLocked` | 2 sleeps, none late |
| `display` | `DisplayTypeOK`, `NoStrayPreview`, `PreviewEnds` | 1 preview, 1 refusal of the backend; any number of everything else |
| `notification_server` | `ServerTypeOK`, `StoreFollows`, `NoStolenId`, `ExpiresOnlyItself`, `TimedGoes` | 3 ids, 3 notifications, 2 lives, failing writes |
| `notification_mirror` | `MirrorTypeOK`, `MirrorIsHistory`, `NoGhosts` | 2 ids, 2 notifications, 2 lives of each side, 2 messages under way |
| `wifi` | `JoinTypeOK`, `DialogIsAsked`, `CancelIsTold`, `CancelledByUser`, `SavedWorks`, `AgentIsFreed`, `JoinSettles` | 2 joins, 2 secret calls, a saved profile and a new one |
| `wifi_late_dialog` | refutes `DialogHasCall` | the same |
| `installer` | `InstallerTypeOK`, `FooterTells`, `CredentialsGo`, `NobodyLeftAlone`, `InstalledAsConfirmed`, `PhasesForward`, `RunEnds` | a stall window of one tick; any number of clicks, edits, rebuilds and GParted sessions |
| `installer_refused` | refutes `NeverConfirmsRefused` | the same |

Why the bounds are enough. A second lock request is a relock after a death, or a lock after an
unlock; a timer of the one ask fires before, during and after both. Two outputs are what `waiting`
needs to be partly empty; outputs otherwise do not interact, and the proofs hold for any number.
Two sleeps are what it takes for a timer of one to fire in the next. One preview meets every
ending of a lease, and the restart after a save makes what it left a profile; two previews with a
refusal pass `NoStrayPreview` as well (1.5 million states, three minutes). Three ids with the ceiling
at three let `next` go around onto a live id with three notifications; replacing id 0, each id and
one above the ceiling covers every branch of allocate. Two joins are what replaces an activation
and shares a record, two calls what queues behind one dialog; with three calls the run passes too,
in five minutes. The installer has no counters but the stall window, whose length only delays.
Every bound is a named constant and marked `bound` where it is a guard. SYMMETRY is used in
`lock_two_outputs` only, over outputs, which no definition tells apart; no liveness is checked there.

`CHECK_DEADLOCK FALSE` is set where the system may stop: when the notification bounds are used up
and the daemon is down, when the joins and calls are, and when the installer's window is closed.

`lock_two_outputs` has no dropped surfaces because `ToldMeansShown` fails with them: a frame is
marked locked before it is drawn, and if it is lost (a failed draw, a power cycle) and the lock
surface goes, a session frame is counted in its place. `lock_one_output` has no failing frames:
after a failure tty.rs leaves the output Idle with its old content until something asks for a
redraw, so `SessionIsCovered` cannot hold; `KeepsContract` does, and is proved with every
disturbance.

**Fairness.** Only weak fairness is used, and never of a user, a client or a peer's good will.

* `lock_one_output`: the kernel answers a flip and the loop runs its queued draws and timers
  (calloop does, unless a handler blocks); a refused client exits (the lock client does).
* `sleep`: the thread, the event loop's channel and timers, and logind's own suspend go on;
  frames and clients need not, which is the point.
* `display`: time passes, the timer's source and the worker's answer are dispatched, the worker
  ends its write. The queued reconciliation need not run: the lease's timer is enough.
* `notification_server`: tokio's expiry tasks run (tokio's mutex is fair).
* `wifi`: the agent's timer, the keyring's answer, the bus, and NetworkManager: it starts or
  refuses an activation, hears the agent, and does not try for ever (its own timeouts). A request of
  Settings is answered or fails (`settingsShellRequest` has a timeout of 5 s). That a deletion is ever
  carried out is not assumed: no promise waits for it.
* `installer`: what the run waits for comes: idles, the connectivity answer, the reflector's
  deadline, and wait_async once the child is gone. Nothing makes archinstall end: `RunEnds` says
  that a run ends unless its child lives on.

## 4. What the code does otherwise than it says

Four runs end in a counterexample; "findings" quotes the sentence each refutes.

* `lock_unplugged`: an output unplugged while waited for is waited for ever; the client is never
  told and so may never unlock.
* `sleep_stale_timer`: a timer set for one sleep lets go of the next.
* `installer_refused`: a disk layout the disk page refuses is confirmed and installed, since the
  summary asks only whether there is one; a page once reached is not asked again.
* `wifi_late_dialog`: a secret call that NetworkManager let go of while the keyring was searched
  opens its dialog afterwards.

Met on the way, and kept out of the way of the properties that hold, each at its line in "hazards":
the miscounted frame above; a lock only asked for that lets sleep go; a change of topology that a
rollback or an apply notices, or that is noticed on an inactive VT, which is never reconciled,
though `hyalo/DISPLAY1.md` says "Topology changes reconcile profiles or safe defaults" (`gap`).
In each of the following the property states the exception, by a history variable of its own, and
holds of everything else:

* Credentials that stay (`CredentialsGo`, `unwritten`): when the plan or the credentials cannot be
  written to the end, `startInstall` returns at `run.ts:555-559`, before `cleanup()` exists. What was
  written of the password hash, or all of it when `close()` is what failed, stays in /tmp, though
  `run.ts:526-527` says "It is mode 0600 and it is deleted afterwards".
* A finished page that moves (`PhasesForward`): the line reader goes on after `wait_async`, and
  `awaitingBasePhase` is never reset. The base phase's line of a run that failed, read late, lights
  that phase and starts the desktop's poll again, which nothing stops; `run.ts:391-392` says of the
  end "what is left is the outcome, in the heading, and the row of steps saying how far it got".
* A dismissal told as a failure (`CancelIsTold`, `unheard`): a request of Settings that fails or times
  out answers false (`NetworkCancels.ts:33-34`) and may leave the record for another attempt at the
  profile, though lines 13-14 say "so cancelling a password prompt does not become a spurious
  connection failure".
* A profile that stays (`SavedWorks`, `left`): after the await `ac.get_connection()` may be null, and
  a deletion that NetworkManager refuses is not heard of (`NetworkService.ts:493-498`), though line
  477 says "A profile this call CREATED is deleted again if the attempt fails".

## 5. What is proved

In `SessionLockProofs`, for any set of outputs and clients, any bounds and every disturbance; in
`SleepProofs`, for these and any number of sleeps, all of which may find the event loop late;
in `NotificationsProofs`, for any ceiling of the ids, any shapes and any bounds; in
`InstallerProofs`, for any stall window; in `WifiProofs`, for any profiles, joins and calls; in
`DisplayProofs`, for any number of previews and of refusals of the backend; in `MirrorProofs`, for
any ids and notifications, any number of restarts of either side and of messages on the way:

| Theorem | States |
|---|---|
| `TypeCorrect` | `Spec => []TypeOK` |
| `Unreachable` | `Spec => []LockedIsUnreachable` |
| `OnlyClientUnlocks` | `Spec => OnlyItsClientUnlocks` |
| `GuardUnanswered` | `Spec => GuardOnlyUnanswered` |
| `Refinement` | `Spec => KeepsContract`: SessionLock implements LockContract |
| `SessionStaysCovered` | `Spec => []SessionIsCovered`, if no draw fails (`"render" \notin Disturbances`) |
| `ToldIsShown` | `Spec => []ToldMeansShown`, if no lock surface is taken back (`"surface" \notin Disturbances`) |
| `NothingWaitsUntimed` | an ask, a hold and a locked session have their timers |
| `SleepIsTyped` | `SleepSpec => []SleepTypeOK`, what is under way bounded by the sleeps included |
| `SleepComesBackLocked` | `SleepSpec => []ComesBackLocked` |
| `SleepInhibitorBack` | `SleepSpec => []InhibitorBack` |
| `SleepFindsLocked` | `SleepSpec => SleepsLocked` |
| `HeldSleepHasAnEnd` | a sleep the inhibitor holds up is on its way to the event loop, or has a timer |
| `ServerTypeCorrect` | `Spec => []ServerTypeOK`, one entry per id included |
| `StoreNeverForgotten` | `Spec => []StoreFollows` |
| `NobodysId` | `Spec => NoStolenId` |
| `OnlyItself` | `Spec => ExpiresOnlyItself` |
| `TimedKeepsItsTask` | a timed notification that is no restored one has its own task asleep |
| `MirrorIsTyped` | `MirrorSpec => []MirrorTypeOK` |
| `MirrorLeavesNoGhost` | `MirrorSpec => []NoGhosts` |
| `MirrorFollows` | `MirrorSpec => []MirrorIsHistory` |
| `InstallerIsTyped` | `InstallerSpec => []InstallerTypeOK`, the cursor within the pages reached included |
| `FooterIsTrue` | `InstallerSpec => []FooterTells` |
| `CredentialsAreDeleted` | `InstallerSpec => []CredentialsGo` |
| `RunIsWatched` | `InstallerSpec => []NobodyLeftAlone` |
| `ConfirmedIsInstalled` | `InstallerSpec => []InstalledAsConfirmed` |
| `PhasesGoForward` | `InstallerSpec => PhasesForward` |
| `RunIsSettled` | who waits for archinstall has a child and the stall check; a run that is over has an outcome and no child or stall check, and a poll only after a line read late |
| `JoinIsTyped` | `JoinSpec => []JoinTypeOK` |
| `DialogHasItsCall` | `JoinSpec => []DialogIsAsked` |
| `CancelWasOne` | `JoinSpec => []CancelledByUser` |
| `NoBrokenProfiles` | `JoinSpec => []SavedWorks` |
| `DismissalIsTold` | `JoinSpec => []CancelIsTold` |
| `CallsAreAnsweredOnce` | a call NetworkManager waits for is answered once |
| `PromisesSettleOnce` | a join's promise settles once |
| `NoJoinWaitsForNothing` | a promise that is followed, and a question that is asked, have something that ends them |
| `DisplayIsTyped` | `Spec => []DisplayTypeOK`, a save under way exactly while its preview waits included |
| `DisplayLeavesNothing` | `Spec => []NoStrayPreview` |
| `PreviewHasItsTimer` | a preview that no confirmation waits for has its timer |

Assumed are only the named ASSUMEs on constants (the special values are not outputs or clients;
the bounds are naturals), which TLC evaluates on every run, and for two theorems of the lock that
one kind of disturbance is left out, without which TLC refutes what they say (section 3).

The argument for the lock. None of these is inductive as it stands. `IInv` adds to `TypeOK`: the
asks and their timers are bounded by the number of asks, and the awaited ask is the newest,
unanswered, made of an open session with an attempt left for its guard (`AskInv`, which
`GuardUnanswered` needs); a client that was told is the holder of a confirmed lock, and only a live
one holds (`HolderInv`); the mode, the hold, the waiting set and the generation agree (`ModeInv`: in
particular a locked session has a generation other than 0, so a locked frame is never taken for a
session frame). Each step has its lemma; Boolean parts and arithmetic parts are proved apart
(`SwitchesStep`, `DataStep`), because each suits one prover only. The refinement uses two more
facts: a step that starts hidden draws nothing but locked frames (`DrawCovers`, `StepCovers`), and
the hold is opened by a new lock only (`HoldOnlyOnce`). For `SessionIsCovered`, `CoverInv` adds that
an open hold has its timer and that a flip in flight keeps its output in a state that waits for a
vblank, whose redraw is due; what `queue_redraw` does to one output is then enough (`QueueKeeps`).
For `ToldMeansShown`, `ShownInv` says that while a client or a guard is accountable for the lock, an
output marked with the lock's own number draws locked frames and has none but a frame of this lock
in flight, so that what a vblank strikes from `waiting` was seen.

The argument for the lock before sleep. Of the lock it needs no invariant, only what a step may
do: change nothing of the sleep, or let a pending one go with the session locked (`Guards`).
`BackInv` says that awake the last signal under way is that of the way back, so the queue cannot
run empty but by its handler, whose floor locks. `InTurn` says that, unless a sleep was announced
without the inhibitor or overtook the event loop, one sleep is dealt with before the next: its
announcement is the last of the queue, every earlier entry tells of a way back, and once the
inhibitor is let go nothing of the sleep is left to happen, so the thread's new inhibitor is not
taken away by an old answer. A machine that was overtaken once may be announced again before the
queue is empty; the excuse then stays, as `InhibitorBack` needs (`Announce`), which three sleeps
in a row show and two do not. A held sleep needs no more: its announcement is the last of what the
thread and the loop have still to hear, and when it is heard a timer is set, which hands on to the
next one or lets go (`OnItsWay`, `PendingIsTimed`).

The argument for the notifications. Here `IInv` adds that every expiry task that sleeps is the one
its id's handle aborts and belongs to the entry that has the id now (`TaskInv`): so a replacement
leaves no task of the id behind, and an expiry, which names only the id, finds its own notification.
`TimedHasTask` is its converse, a task for each timed notification: a removal aborts the task of its
own id only, and an id is picked among those nobody has. `StoreInv` says that the store holds a
roster without transient entries, so that a start begins with one. That `Fresh` is free, and
`NextOf` an id, needs the least element of a set of naturals to exist (`LeastExists`, from the
well-foundedness of `<`): the search of allocate is a CHOOSE of that element. Assumed is that not
every id is live when the server has to pick one (2^31 - 1 live notifications do not fit in memory;
allocate would search for ever).

The argument for the mirror. `MirrorInv` adds to the server's `IInv` what is on the way. `Latest`
says that of a serving daemon the newest signal of an id on its way tells what the roster has;
an id without one is `Silent`. A shell that knows this daemon and has its List has every silent id
right (`UpToDate`), so nothing is left to be wrong when the queue is empty. While it waits for its
List, the roster that comes (`IsDue`: taken, or on its way) is up to date once the buffer is
replayed on it, and replaying the buffer on what is right already takes nothing from it
(`Replayable`), which is what a roster taken now needs. Hearing a signal moves it from the queue to
the mirror or to the buffer and keeps all three. A new owner bumps the generation past every List
asked before (`GenInv`), has sent nothing yet (`LifeInv`), and is heard of only by a shell whose
old owner is gone and whose mirror is empty (`ChainInv`, `EmptyInv`), so that no surface keeps a
banner. The fold of the community module is a recursive function with a CHOOSE: `ReplayedIs` shows,
by the least prefix that would differ, that it gives every id what the last event of the buffer
tells of it.

The argument for the installer. `IInv` says that the window is busy exactly in the stages that
work (`StageInv`), that the footer was painted after the last change of what it shows
(`Repainted`), that the run page is shown exactly once its page is built and no quit dialog lies
over it (`FrameInv`), that a window that is gone left no work behind (`Watched`), and that the disk
answer is the confirmed one from the dialog on, unless GParted was running (`ConfirmInv`). The
window's exits ask busy, and the answers cannot change on the run page: so nothing is left alone,
and what was confirmed is installed. Credentials are on disk only in the stage of the child, whose every
end takes them away, or after the write that failed. The phases go forward because what moves one
lives in its own stage, or comes after a failure and moves the page to a later phase: while the base
phase's line is unread the phase is the one before it and no success was heard of (`StageInv`,
`PhaseInv`), so a line read on a finished page finds a failure; the poll it starts finds no log of a
desktop that never began. `finishRun` is called from no stage after its own.

The argument for Wi-Fi. `CallInv` says that the open question has its timer and its call
(`PendingAsked`), and that a search of the keyring is for a call somebody waits for or has let go
of (`LookupHeld`), from which its dialog, when it opens, is one of those `DialogIsAsked` allows.
`JoinInv` says that a join without an activation has not come far, that a record is made only by a
dialog that was dismissed or could not be built, and that a saved profile that never worked has the
join that made it, not yet ended, which asks for its deletion or hears that it works, or is to be
deleted, or was left (`MakerPending`).
`JoinTypeOK` carries that an activation waits for a call exactly while it asks. `AskInv` follows a
dismissed question: it is nobody's promise (an automatic activation), or its record was spent on
another attempt at the profile, which says so, or asked for in vain by Settings, or the record is
there and the activation has ended or is about to hear the refusal, so that the join finds it.
What a join's end does is said once, for the three steps that end one (`DoneSays`, `DoneDeletes`,
`DoneKeepsJoins` and the lemmas beside them). `GoesOn` says how far a step may take a
call and a join: answered and settled are ends. With it `WaitInv` keeps that a join which is
followed has a live activation or a state change still to hear, and that a question is searched
for, answered or shown with its two minutes running.

The argument for the layouts. `DisplayInv` holds between handlers; its parts `Shape`, `Kept` and
`On` hold of every record a handler passes through as well, so each helper on `hyalo` has a lemma
of its own and reconcile is their composition. `Shape` says that a layout kept for later fits the
inventory unless it is stale, and that it is kept by a lease, or for the lid or an inactive
session, never by both: that is why a rollback on an inactive VT cannot overwrite a recovery.
`Kept` and `On` say whose settings the kept layouts and the screens hold; `On` gives a state away
while a new topology or a recovery is still to be dealt with, and `Dealt` that a reconciliation
leaves neither. What a backend that refuses may have left is bounded by `Moved`: everything but
the screens, and a refresh that is remembered as a gap (`Lit`). A confirmation on its way to the disk
holds its own preview besides, which is confirmed by the time the worker says so. The timer of a
preview follows from where it is set: every handler that may leave a preview ends with
`arm_lease_timer`, and the others (a legacy layout, a reload, a crash) leave none (`EndsTimed`).

Model-checked only: the nine liveness properties, since fairness is beyond the prover. For each of
the six components that have one the theorems above state the safety half: whoever waits has, in every
state, something scheduled that ends the wait. That the timer, the loop or the peer then goes on
is the fairness of section 3, and that the wait ends is TLC's. The properties that
`lock_unplugged`, `sleep_stale_timer`, `installer_refused` and `wifi_late_dialog` refute have no
theorem.

## 6. What is left out of the models

* Screens: GPUs, modes, planes, VRR, gamma and cursor; estimated-vblank timers that outlive a
  power-off or a VT switch, and vblanks of flips that were dropped.
* SleepLock: the outputs do not change during it (the runs of SessionLock cover that);
  `note_activity` and the screen's power on the way back are one step with the guard, as in the
  handler.
* Display: positions, modes, scales and their validation, mirror groups, the primary, explicit
  overrides, Identify, the revision and the published snapshot, a second external output, a
  connector whose set-up fails when it is plugged in.
* Notifications: contents, the image cache, signals to senders, a failing bus (the daemon is of no
  use then); a second write by a task that was aborted too late, which writes the same roster; an
  expiry task that another thread preempts between its sleep and its lock for the length of a whole
  notify(). A power cut between rename and sync. A store that is there and cannot be read, which is
  restored as an empty one (`Start` always reads what was written).
* NotificationMirror: the order of rows (the mirror is compared as a map), and the error a call
  gets when the daemon dies, which the code ignores by its generation.
* Wi-Fi: saving and clearing keys in the keyring, scanning, lists, disconnecting, forgetting;
  NetworkManager's restart while a join is followed, and Settings closed during one (its promise and
  its deletion go with it); secrets other than a Wi-Fi key. A request to add and activate that
  NetworkManager refuses is taken to leave no profile (`NMRefuses`).
* Installer: a deletion by `cleanup()` that itself fails (a file in /tmp that was just written); that
  Restart runs `systemctl reboot` and the window lives until it takes effect, or for good when it is
  refused (`Restart` closes at once); the log, the fractions of the progress bars, the narrowing of lists on the region
  page, the disk tools' own output, what archinstall does with its configuration.

The other components are listed in `PROJECT.json` with the reason: pixels and GPU state, parsing
and formatting, user interface without a protocol, or wrappers of one call each.

## 7. Plan

1. Proofs: the mirror's catching up (that what a shell waits for is on its way); an abstract
   specification of the notification server, and of a join, with the refinement proved step by step.
2. Idle (`idle.rs`, the screen saver service), composed with SessionLock's ask: no step in an
   inhibited stretch, each step once per stretch, suspend measured by its own clock, inhibitors
   while locked; the order of the service's reports.
3. The consent broker (`bluetooth/agent.rs`) and the daemon's own network agent: an answer reaches
   the request it was given for; every request ends; the loss of the UI.
4. Config1's revisions and followers; brightness; the tray's and media's owners.
5. The lock screen's PAM flow; the greeter.
6. Notifications: stale dismissals as a run, a late abort.
7. Screens refined with timers and flips as objects, so that what they outlive is modelled.
