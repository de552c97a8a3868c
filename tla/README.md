# Verification of the Bluetti HMI screen

TLA+ models of the touch panel firmware in `src/src` (ESP32-S3, a BLE client of a
Bluetti Elite 300 power station) and of the protocol side of the simulated station in
`src/tools/bluetti_sim`, with TLC configurations and TLAPS proofs. File names without a
directory are those of `src/src`.

## 1. The system

Two threads of control on two cores, one radio, one storage card:

- the **BLE task** (`bluettiTask()`, core 0) sleeps on the semaphore `g_wake`, and each
  time round runs `poll()`: test the release window, connect if needed, send the queued
  writes, read the telemetry registers, publish `power`;
- the **main loop** (`loop()` of `main.cpp`, core 1) reads the touch controller, runs the
  UI handlers, persists a learned address, captures history samples and ticks the UI;
- the **NimBLE host** calls `notifyCB()`, which puts notifications in the queue `g_q`;
- the **station** answers encrypted Modbus frames. `src/tools/bluetti_sim` is the copy of
  it the repository has.

They share `g_writeQ` and `g_q` (FreeRTOS queues), `g_wake` (binary semaphore), and plain
volatile variables without a lock: `g_forceFull`, `g_releaseUntil`, `g_state`, `power`,
`settings`, and the diagnostics ring.

### Components

| component | state | operations | what makes it correct |
|---|---|---|---|
| BLE polling task (`bluetti.cpp`) | position in `poll()`, `g_client`, `g_slow`, `g_slowTick`, `g_forceFull`, `g_writeQ`, `g_wake`, `g_releaseUntil`, `g_state`, `power` | `poll`, `bluetti_write_reg`, `bluetti_release` | no lost wakeup; writes in tap order; a confirmed change is read back and shown; the slow tier is never older than promised; the release window is respected; the display converges |
| register transactions (`bluetti.cpp`, `include/logic/modbus.h`) | `g_q`, attempt counters, frames in the air | `readRegs`, `writeReg`, `drainQueue`, `notifyCB` | a result speaks of the register asked for and of a moment in the call; every call returns |
| key exchange (`bluetti_crypt.cpp`, `connectAndHandshake`; `protocol.py`, `ble_server.py`) | keys and phase on both sides, `g_q`, pending coroutines | `handle`, `reset`; `start`, `handle`, `_subscribed`, `_written` | both sides hold the same key; nothing of an earlier link gets in; a bad attempt is followed by a good one |
| power history (`powerlog.cpp`, `sdcard.cpp`) | ring, `head`, `count`, `total`, `g_logf`, the file | `powerlog_tick`, `powerlog_init`, `powerlog_at` | the chart shows the latest samples in order and survives a reboot |
| simulated registers (`registers.py`) | registers, delayed writes, energy counters | `read`, `write`, `commit_due`, `tick` | delayed writes commit in order |
| settings and address learning (`settings.cpp`, `resolveAddr`, `main.cpp`) | saved MAC, learned MAC, `g_connFails` | save, learn, fall back to a scan | a typed MAC is not lost; a stale one does not wedge the panel |
| diagnostics sweep (`bluetti.cpp`) | baseline, ring of changes, flags | `diagScan`, `diagNote`, `bluetti_diag_reset` | a reset re-baselines; the list is the newest changes |
| user interface (`ui.cpp`) | screen, confirmation, gear hold, spinner | touch, drag, release, tick | a tap does one thing; no write without its confirmation; every screen can be left |
| keyboard (`keyboard.cpp`) | buffer, layout, committed | open, touch | the buffer stays in its bound; cancel changes nothing |
| touch (`touch.cpp`, `include/logic/touch_map.h`), main loop latch (`main.cpp`) | press latch, release count | `touch_get`, `loop` | one press, one action; coordinates on the screen |
| display, theme, fonts, logo | pixels | drawing | not a matter for a model |
| simulator window (`bluetti_sim.py`) | controls, event queue | `_poll`, the controls' callbacks | the window shows what was committed |
| build, CI, documents | - | - | not a matter for a model |

### What is hard to test

Listed one by one under `hazards` in `PROJECT.json`, at their lines. In short: the main
loop stores a flag while the task is about to overwrite it; a poll already under way
publishes after a tap; one read of ten fails; a reply comes after its timeout and carries
no address; a coroutine of an older connection meets a newer one; power fails while a row
is being written; a ring index that is negative until the ring has wrapped; a queue that
drops when full; absolute comparisons of a 32-bit clock; handlers that test the data again
at the tap, when the glass still shows what held a round earlier; pages that remember what
they drew last in statics no other draw updates; an output that changes under its open
confirmation; a reset of the sweep's baseline and ring under the sweep; two threads of the
simulator that commit the same writes.

## 2. The modules

| module | lines it models | role |
|---|---|---|
| `PollTask` | `bluetti.cpp` 66-103, 124-132, 194-279, 476-652; `ui.cpp` 1041-1114, 1294-1300, 1403-1459 | the BLE task and the main loop, interleaved |
| `MCPollTask` | | register blocks for TLC |
| `PollTask_proofs` | | theorems about `PollTask` |
| `RegService` | | what `poll()` relies on of a register read or write |
| `RegLink` | `bluetti.cpp` 105-122, 301-366; `modbus.h`; `protocol.py` 200-235; `registers.py` 123-144 | `readRegs()`/`writeReg()` over the notification queue |
| `MCRegLink` | | register sizes for TLC |
| `RegLink_proofs` | | theorems about `RegLink`, and that it implements `RegService` |
| `Handshake` | `bluetti.cpp` 194-279; `bluetti_crypt.cpp` 78-309; `protocol.py` 122-208; `ble_server.py` 140-214 | key exchange over successive connections |
| `Handshake_proofs` | | theorems about `Handshake` |
| `SampleHistory` | | what the chart relies on |
| `PowerLog` | `powerlog.cpp`, `sdcard.cpp`, `ui.cpp` 575-640, 1213-1222 | ring, file, boot, power failure, chart |
| `MCPowerLog` | | the chart's windows for TLC |
| `PowerLog_proofs` | | theorems about `PowerLog`, and that it implements `SampleHistory` |
| `SetInduction` | | induction over numbers, intervals and sequences, and what a recursive function over an interval computes |
| `PanelLayout` | the rectangles of `ui.cpp`; `geom.h`; `touch.cpp`, `touch_map.h` | what each page draws and tests where, and where a touch report says the finger is |
| `PanelKeyboard` | `keyboard.cpp` | layouts, keys, buffer |
| `Panel` | `main.cpp`, `settings.cpp`, `ui.cpp`; `bluetti.cpp` 124-279, 598-652 | the main loop with every page, and what the BLE task does to it |
| `MCPanel` | | ten kinds of user, their spots and budgets |
| `Panel_proofs` | | theorems about `Panel` |
| `SimRegisters` | `registers.py`, `bluetti_sim.py` | the simulated unit's registers and window, two threads |
| `DiagSweep` | `bluetti.cpp` 368-474 | sweep, baseline and ring of changes |
| `Station` | `protocol.py` 210-235; `bluetti.cpp` 414-421, 620-621 | composition of the last two |
| `MCStation` | | registers, windows and scenarios for TLC |
| `Station_proofs` | | theorems about `Station`: the unit, the sweep, and both together |

`RegLink` implements `RegService`, and `PowerLog` implements `SampleHistory`; both are
checked as properties. `PollTask` takes one read or one confirmed write as one step: that
is `RegService`'s promise, and the run `link_stragglers` shows where the code does not keep
it. `Handshake` justifies `ConnectSucceeds` and `ConnectFails` of `PollTask` and `Relink`
of `RegLink` (a fresh link has a fresh key, so frames of the old one no longer decrypt).

### PollTask

`pc` is the place in `poll()`: `sleep` (`xSemaphoreTake`), `start` (release test and
`ensureConnected()`), `connect`, `writes`, `write`, `soc`, `fast`, `slow`, `publish`. One
step is one BLE transaction or one test. A register block is one Modbus reply, so it is
read atomically; two blocks are not. `client` is `null` (no `g_client`), `up` or `lost` (the
link is gone but the task has not noticed; every transaction then fails). `ui` is the
place in a call the main loop makes: `bluetti_write_reg()` is three statements (queue, flag,
semaphore) and `notePendingWrite()` the fourth, and the task may run between any two. Time
is abstracted: the release window ends at any moment after it began, the poll period and
the spinner's six seconds likewise. `landed` stands for `power.fetchedMs !=
g_pendingFetch`. A register's contents are a small value; 0 is also what `PowerData tmp =
{}` leaves in a field no read filled.

A write given up on may have reached the unit all the same, which commits it when it likes:
`late` holds, register by register, the writes the unit took and has yet to commit, in the
order they came (`Takes`, `UnitCommits`). They may be committed while later writes are queued, in
hand or confirmed: `writeReg()` is also content with a register that happens to hold the value
already. That the unit commits in order is an assumption; the simulated one does while its delay
is not shortened (`WritesLandInOrder` of `Station`).

Abstracted: which field of `PowerData` comes from which register (a block is the set of
its registers), scaling, statistics counters, the derived fields `charging` and
`whRemaining`. Not in it: typing a new MAC (which sets `power.status` from the UI), the
diagnostics sweep after a poll, and the state of the screens, which are the matter of
`Panel` and `DiagSweep`.

### RegLink

The request is a write with response: it reaches the unit, or the call knows that it did
not. The reply is a notification: it can be lost, dropped by a full `g_q`, or overtaken by
the caller's timeout. A frame carries its function, its length and its value, and no
address, as FC3 replies do. The unit serves requests in order; a write is echoed first and
committed later, and the registers also change from the front panel. The constant
`MaxStragglers` is the number of requests that may be sent while something of an older one
is still under way; 0 is the assumption "a reply comes within its attempt or never".

### Handshake

Keys are symbolic: what is drawn for connection n is called n, and a shared key is the
pair of both sides' numbers. AES-CBC has no authentication, so a frame under a wrong key
of the same phase decrypts to garbage (handled as a Modbus frame with a bad checksum),
while one of the other phase has a length that does not decrypt. The server's
`_written()` and `_subscribed()` are coroutines that await between two notifications:
`writes` and `notes` hold what is still to run, in any order between coroutines, and they
may run after the next connection has subscribed.

The server learns that a subscriber has gone by an event of its own (`Unsubscribed`). A panel
that is back before it is taken for the client the server tracks: `_subscribed()` returns at
`ble_server.py` 153, the session of the earlier connection is kept as it is, and no challenge is
sent. The handshake then times out, unless the old session still has its challenge to send, in
which case it ends with a key of that session's number and this connection's. `Tracked` is the
server's `_gatt`, set together with `_session`. An attempt is `clean` only if it began with
nothing of an earlier one left in the unit (`NoneLeft`). Only a slow unit has anything left by
the next attempt, so `Connects` spends from the budget of slowness then; numbers are reused once
nothing of a connection can be left.

### PowerLog

The ring is modelled as in the code (cells, `head`, `count`, C's signed remainder in
`powerlog_at()`). A line of the file is the list of the fragments between two newlines, so
a row cut short is continued by the next one. `logf = "dead"` is a handle whose card was
pulled: `File` still tests true, and nothing is written any more. A failed PSRAM
allocation (history disabled) is left out. The plot is a sequence of columns, each the
sample `Column` scales to it; the chart's page is reduced to the chart being on the glass,
its window, and the columns last drawn (`painted`).

### Panel

A round of `loop()` is three steps: `ReadTouch` or `ReadEmpty` (the controller, the latch,
the handler), `TakeLearned` (an address found by a scan is saved; skipped when there is
none), `Tick` (`powerlog_tick()`, `ui_tick()`). `settings_save()` is a step for each put. The
BLE task, the clock and the user move between any two steps. The handlers are those of
`ui.cpp` in the code's order of tests: `Tested` lists the controls a page tests in their
order, `Hit` the first the point is in, and there is an action for each control.
`PanelLayout` has the rectangles, as numbers, and apart from each other the controls that
are drawn and those that are tested, since the code has them apart.

`painted` is what `ui_draw()` drew last, `Shows` what it would draw now: the page, whether it
is live, and the part of the reading, the settings and the history it draws. `seen` are the
statics `ui_tick()` compares. A user sees `painted` and knows nothing else. `drew` says that
something was drawn by a handler since `ui_tick()` last compared; `raced` when the state
changed in between, too. `user` is one of ten kinds of user, each with a part of the glass,
which keeps the instance small.

Of `bluetti.cpp` it has the connect attempt (saved or scanned address, failures, fallback,
learned address), the loss of the link, the release window and the readings it publishes;
the reads and writes in between are `PollTask`'s. A queued write is answered by a reading or
by the spinner's timeout. The release window has two parts, since
`bluetti_release_remaining()` is 0 in the last of them.

Known blind spots of the code are named in the module, and excepted by name from the
properties. What `ui_tick()` remembers is stored by the very step that compares it, so the
exceptions are about `before`, the statics as the round found them: `BackWithTheSame` (a
reading that equals the one drawn before an outage, as an idle unit's may, does not take the
offline screen down: `ui.cpp` 1136-1176), `StillUp` (data that expires stays on the glass while
the link's state is the one the offline screen last showed), `Behind` (a confirmation or a
pending write behind the offline or the countdown screen), `UnseenGear` (the gear answers on
the countdown screen, `ui.cpp` 1289, where "any tap on the screen resumes early", 1295), and
`SameSum` (two readings of the power page with equal sums of watts and equal flags). `Shows`
leaves out the release button's highlight and the Saved/Scan label of the settings page, which
nothing repaints, the text of the offline screen, and the details of charge, time left and grid
icon. An address typed while a scan runs is overwritten by the scan's result, and one typed
while the link is up is used when it drops: `SavedMacIsTheLinked` allows for both.

### DiagSweep, SimRegisters, Station

`DiagSweep` has a step for each block read, and for each store of `diagNote()` and of
`bluetti_diag_reset()`, since nothing guards what the two share; the count of the ring is
loaded and stored apart. The baseline is kept by address rather than by slot; that the slots
are as many as the addresses is an assumption TLC checks on the real ranges
(`DiagSizeAssumption`), as is that the simulated unit reads the same ranges (`SameWindows`).
`SimRegisters` has the BLE thread and the window's thread; a critical section of `_lock` is a
step, and the callbacks after it are steps of their own. `Station` lets the unit's BLE thread
answer the sweep's reads. A register that has outgrown 16 bits cannot be packed into a reply
(`Reply`; register 1432, the current, does with the voltage slider near zero): the simulator
raises, and the read fails. Reset in the middle of a note (the ring's head or count is then left
from before), the first change after a failed read or after a reset in the middle of a sweep
(the old baseline, or whatever the memory held) and a commit delay that is shortened (later
writes overtake) are the exceptions the properties name.

## 3. The runs

| run | states | shows |
|---|---|---|
| `poll_safety` | 11.6 million | eight invariants of `PollTask` (below) over three taps on a queue of two, a release, a fault and a link loss |
| `poll_live` | 1.2 million | every queued write is taken; the display converges |
| `poll_flag_race` | violation | `g_forceFull = !cfgOk` erases a request (finding 1) |
| `poll_spinner` | violation | the spinner goes before the write is sent (finding 2) |
| `poll_zeros` | violation | an unanswered read publishes "off" (finding 3) |
| `link_service` | 406 thousand | `RegLink` implements `RegService` without stragglers; calls return |
| `link_stragglers` | violation | one late reply answers another register (finding 4) |
| `handshake` | 176 thousand | key agreement, clean handshakes succeed, the link recovers |
| `powerlog` | 2.2 million | `PowerLog` implements `SampleHistory`; nothing is lost at a reboot; the chart follows and spans its window |
| `powerlog_torn` | violation | a cut row becomes a sample (finding 5) |
| `panel` | 542 thousand | five invariants, three action properties and two liveness properties of the main loop (below) |
| `station` | 780 thousand | the sweep over the simulated unit: list of changes, window, order of writes; it catches up |

**PollTask's invariants.** `TypeOK`; `SleepStateAgrees` (the status bar after each poll);
`WakeupNotLost` (a queued write or a release never waits for the poll period on a live
link); `ReconnectRefreshes` (the cache is not trusted on a fresh link);
`CfgRereadUntilLands` (a confirmed config write keeps the full read requested until it has
been read back, except for the race of finding 1, which the history variable `raced`
isolates); `CfgAgeBounded` (the config block is at most `SLOW_EVERY` polls old, plus one for
each failed transaction or lost link); `LastWriteWins` (tap order, though the unit commits late
a write the panel gave up on);
`ReleaseStopsPolls` (at most one poll after Release). Liveness: `WritesTaken`,
`DisplayConverges`.

**Panel.** `TapHitsWhatIsDrawn` (at the end of each round, what a tap would do is what the
glass shows there); `PaintFollows` (the glass shows the present state once `ui_tick()`
returns, but for what the statics before it could not tell apart); `OneCallPerPress` (dropped
frames do not make one press two); `ConfirmWritesWhatItAsks` (an output is switched the way the
confirmation says, whatever happened to it meanwhile); `SweepOnlyOnItsPage`; `SettingsPersist`
(a power cut between two puts loses one setting at most); `SavedMacIsTheLinked`. Liveness:
`AlwaysReconnects` (from any saved or typed address to a unit in range), `HomeReached` (Back
and Cancel always lead to the power page).

**Station.** `NewestFirst` (the list is the newest changes since the reset); `ChangesLink` (the
changes of a register form a chain from the first value read to the baseline);
`WritesLandInOrder`; `WindowFollows` (no commit is left unshown, whichever thread made it).
Liveness: `CatchesUp` (the baseline reaches the unit's registers, but for the blocks of a
register that no reply can hold).

**Findings.** Five places where the code does something else than its comments say; each is
a run that TLC must find violated, and an entry of `findings` that quotes the comment.
(1) `bluetti.cpp:570` overwrites a flag set meanwhile. (2) `ui.cpp:1102` takes any new poll
for the one that confirms the write. (3) `bluetti.cpp:512-525` leave zeros in the fields of
a failed read and publish them as good. (4) `bluetti.cpp:320` cannot tell which register an
FC3 reply is about. (5) `powerlog.cpp:108` replays a partial row.

### Bounds

- `poll_safety`: three writes against a queue of two, so that two writes wait together and are
  taken in the one order or the other, the queue overflows, and a write is queued while another is
  in hand; `SLOW_EVERY` 2, so that polls with and without the slow tier alternate; one fault, so
  that a connection fails, or one of several writes on a live link goes unconfirmed and is committed
  later; one link loss, which makes every later transaction of that poll fail. One register, of the
  config block: the properties are about one register at a time, those of the slow tier about that
  block, and the theorems of section 4 cover all blocks and values. The fast reads are in
  `poll_live` and `poll_zeros`.
- `poll_live`: one write, one fault, one release, one operation of the front panel, of an output
  or of the config register: each disturbance once, in every order. The write is of the config
  register, since it has the harder way to the display.
- the three violation runs of `PollTask` use a config block that is not the first of its
  tier, and the smallest budgets that reach the case.
- `link_*`: two one-word registers and a longer block, so that a wrong reply can have the
  right and the wrong length; two attempts of everything instead of 3/2/8, enough for each
  loop to repeat and to give up; a queue of one, so that it drops; calls are unlimited.
- `handshake`: four connection numbers in rotation (more than can be alive at once, so a
  number used again is not confused with an older one); up to two losses, two slow
  reactions and one drop by `poll()`, in any order; connections are unlimited.
- `powerlog`: a ring of 3, a plot one column wider, windows of 2 and 3 samples, and four rows,
  so that the ring wraps before and after a reboot and a window is smaller and larger than
  what there is; two clean power failures (what the first reboot leaves is put to the test by
  the second), one in the middle of a row, one pulled card. Samples are symmetric: only
  whether two are the same plays a part.
- `panel`: each user has the controls of one part of the interface (outputs and their
  confirmation, the gear, settings rows, release, sub-pages, chart, diagnostics, typing an
  address, typing one that is in range after the link drops, finding a unit whose address
  is not the saved one), two to four taps in any order, and after them
  goes home; one or two readings, and of the disturbances those that matter there (dropped
  frames, lost links, failed attempts, a power cut at any moment). `Reads` gives each user's unit
  its readings; `swap` has the sum of watts of `on`, drawn on other cards. Most users begin to touch
  once there is a reading; two touch at any time. At most two frames are dropped in a row (three
  end a press). An address has two characters instead of 17. A touch shorter than a round of
  the loop is left out, since nothing sees it. A connect attempt begins once a learned address
  was taken: attempts are `RETRY_MS` apart, a round of the loop is 10 ms.
- `station`: five registers in three ranges, of three kinds (words of the energy counters, the
  current, which outgrows a word, and a control); a range longer than a block, whose second block
  is shorter; values of four bits so that counters carry; a ring of two changes; seven
  scenarios, each the smallest budgets that bring two of the things that may interfere
  together (`MCBudgets`). Idle rounds of `_poll()` are left out. The three stores of a reset are
  over before a read of the sweep returns (`ResetOver`): microseconds against a radio round trip.

Each budget is a component of a variable (`budget`, `left` in `Panel`, `spare` in
`SimRegisters`), spent by the disturbance it bounds.

### Fairness

- `poll_live`: weak fairness of the task, of the statements of a call the main loop has
  begun, of `ui_tick()`, and of the end of the release window. The scheduler of FreeRTOS
  runs each core's only busy task forever, the semaphore wait has a timeout, and time
  passes. Taps, losses and front-panel operations are not fair; a fault is bounded by its
  budget, after which the unit answers.
- `link_service`: weak fairness of the caller (its waits have timeouts), of the unit (it
  serves and commits) and of delivery.
- `handshake`: weak fairness of the panel (`bluettiTask()` loops forever), of the unit's
  event loop, which runs every coroutine it was given, and of its Bluetooth stack, which reports a
  subscriber that has gone. Losses and slowness are bounded.
- `panel`: weak fairness of the loop, of the connect attempts, and of the end of the release
  window; and of the user who, all taps used up, lifts the finger and taps Back or Cancel.
  Nothing is assumed of readings, expiry, or the timers.
- `station`: weak fairness of the sweep, of the unit's two threads, of the stores of a reset
  that has begun, and of time for waiting writes. Switching, resets and controls are not fair.

## 4. The proofs

TLAPS proves, for every value of the constants the `ASSUME`s allow, every state invariant the
passing runs check, the two refinements, and three of the five action properties. The proofs of
a component are in the module `<component>_proofs`; each has an inductive invariant, with a
step for every action of `Next`, and the parts of it an action cannot disturb are grouped in
lemmas.

**`PollTask_proofs`** (register blocks, `SLOW_EVERY >= 1`, queue length >= 1, any budgets):

| theorem | property | inductive strengthening |
|---|---|---|
| `TypeCorrect` | `TypeOK` | itself, in four parts proved separately (`NextControlTyped`, `NextFlagsTyped`, `NextQueueTyped`, `NextDataTyped`) |
| `StateCorrect` | `SleepStateAgrees` | `StateInv`: the task holds a client wherever `poll()` is past the connection |
| `WakeupCorrect` | `WakeupNotLost` | `WakeInv`: also speaks of the task when it is awake; the write queue is empty once `poll()` is past its write loop, or a give is pending or about to be made |
| `ReleaseCorrect` | `ReleaseStopsPolls` | `HeldInv`: no poll has published since the window began while one is under way |
| `ReconnectCorrect` | `ReconnectRefreshes` | `FreshInv`: `cfgOk` in the slow tier means read on this link |
| `RereadCorrect` | `CfgRereadUntilLands` | `RereadInv`: a config write queued or in hand already holds the flag, the race or the pending store |
| `AgeCorrect` | `CfgAgeBounded` | `AgeInv`: relates the age to the tick, the failures spent and the place in `poll()` |
| `OrderCorrect` | `LastWriteWins` | `OrderInv`: the last entry of a register in the queue, or else the write in hand, is the value wanted; with none outstanding the wanted value is `Final`, the register's last waiting commit or, with none waiting, its contents |

**`RegLink_proofs`** (any registers and sizes, queue length, attempts, losses):

| theorem | property | inductive strengthening |
|---|---|---|
| `TypeCorrect` | `TypeOK` | `Typed`: a read-back only begins while some are left, and only `writeReg()` sends a write |
| `ImplementsService` | `ServesRegisters` | `Fresh`: while `readRegs()` waits, each request under way asks for its register, and each frame in the air or in `g_q` holds a value the register had since the call began |
| `ServesUntilStraggler` | | the same; `Fresh` holds until the first request is sent while an older reply is still under way |

`ImplementsService` assumes `MaxStragglers = 0`, the assumption `poll()` makes of the unit;
`ServesUntilStraggler` says how far one gets without it, and finding 4 what happens after.

**`Handshake_proofs`** (any queue length and budgets; the numbers of connections outnumber the
slow reactions, `ConnsAssumption`, so that a number in use is never drawn again):

| theorem | property | inductive strengthening |
|---|---|---|
| `TypeCorrect` | `TypeOK` | `Typed`: the coroutines hold frames and requests of the protocol |
| `LinkKeysAgree` | `KeysAgree` | `NumbersRecent` (what is under way anywhere is at most as many connections old as slow reactions were met), `NumberUnused`, `ChallengesUnanswered`, `HandshakeSound` (a challenge of a session no longer tracked leads nowhere; what follows that of the tracked session, which may be older than the connection, was answered by this connection's key, and the acceptance exists only once both sides hold it) |
| `CleanHandshake` | `CleanHandshakeSucceeds` | `OnPath`: an undisturbed handshake, begun with no session tracked and no coroutine pending, is at one of eleven stages, in each of which something is under way that the other side waits for; assumes `RxLen >= 2` (the code has 8) |

**`PowerLog_proofs`** (any capacity, plot width, windows, rows and power cuts):

| theorem | property | inductive strengthening |
|---|---|---|
| `TypeCorrect` | `TypeOK` | `Typed`: every sample in the ring was captured, or is what a cut row replays as |
| `ImplementsHistory` | `RingIsHistory` | `Typed`; rests on `HeldOfPushed` (what `powerlog_at()` lists after `pushRing()` is the latest of the list with the sample appended, wrapped or not) and on the replay of a file being the latest of its rows, by induction on the file |
| `RestartRestores` | `SurvivesReboot` | `Restorable`: with the card in, the ring is the latest of the rows, and while power is off the file still says what the ring was |
| `ChartWatches` | `ChartFollows` | itself, with `Typed` |
| `ChartIsWhole` | `ChartSpansWindow` | follows from `ChartFollows` by the arithmetic of `Column`: its quotient is monotone, hits both ends, and leaves out no sample when there are columns enough |

**`Panel_proofs`** (any users, spots, readings, addresses and budgets; one invariant, `IInv`,
whose parts depend on each other):

| theorem | property | part of `IInv` it needs |
|---|---|---|
| `TypeCorrect` | `TypeOK` | `Paged`, `Looped` |
| `OnePressOneTap` | `OneCallPerPress` | `PressCounted`: the tap has been handed on only while the finger is down, and the latch has missed it no more often than the controller did |
| `SweepStaysHome` | `SweepOnlyOnItsPage` | `Fitting`: where the sweep, the hold of the gear and the keyboard can be met; `GearHeld` |
| `SettingsReachFlash` | `SettingsPersist` | `Saving`: the one field that differs still has its put to come |
| `SavedAddressIsLinked` | `SavedMacIsTheLinked` | `Attempt`: what is learned is the address of the attempt or of the link that found it |
| `SwitchedAsAsked` | `ConfirmWritesWhatItAsks` (action property) | `ModalShown`: the power page on the glass shows the confirmation that is open |

**`Station_proofs`** (any values, delays, table of ranges in ascending order, block and ring
size; the writes are of registers the unit has):

| theorem | property | inductive strengthening |
|---|---|---|
| `TypeCorrect` | `TypeOK` | `Placed`: the block being read lies in its range, the answer is as long as the block, and the item being compared lies in it |
| `LandInOrder` | `WritesLandInOrder` | `InOrder`: storing everything still delayed, in order, gives each register the value wanted (`want = Applied(r, pending)`), and no entry waits longer than a later one, unless the delay was shortened |
| `ShowsWhatLanded` | `WindowFollows` | itself, with the types |
| `ListsNewestFirst` | `NewestFirst` | `Listed`: what ring, head and count are between any two stores of `diagNote()` and of a reset; rests on `RingGrows`, the step of the ring backwards around its end |
| `ChangesAreLinked` | `ChangesLink` | `Met` (which registers have been read since the baseline was taken) and `Linked`: for each register, its notes lead from the first value to the baseline, counting the change being noted |

**Assumptions.** Each constant's `ASSUME` is in the module that declares it and TLC evaluates it
on the runs. Beyond ranges and types they say: a write is of one word (`RegsAssumption`);
`NoCall` is no call; the numbers of connections outnumber the slow reactions; the fillers `Zero`
and `Garbled` are no samples; a plot and its windows have at least two columns; an address has at
most as many characters as the field (`MacsAssumption`); the sweep's ranges are not empty,
ascend and do not overlap (`DiagAssumption`, true of `DIAG_RANGES`); the commit delay the
simulator starts with is one it offers, and its controls set values of a word (`SimAssumption`).

**Induction.** The induction theorems of the library quantify over a predicate, which the
provers cannot instantiate. `SetInduction` states them over sets instead: a set of numbers that
holds 0 and with each n also n + 1 holds all of them. From this it derives that a function
defined by recursion over an interval exists and is unique (`Iterates`, `IteratesOnce`), from
which `PowerLog_proofs` gets the replay of a file and `Station_proofs` the stores and filters of
the delayed writes.

**Only model-checked.** Liveness (`WritesTaken`, `DisplayConverges`, `CallsReturn`,
`LinkRecovers`, `AlwaysReconnects`, `HomeReached`, `CatchesUp`): fairness and ENABLED are outside
the prover. The action properties `TapHitsWhatIsDrawn` and `PaintFollows` of `Panel`: their
inductive invariant has to relate the statics of every page to what is drawn, through all the
exceptions section 2 names, and is left to a later stage. The `violation` runs are
counterexamples and have nothing to prove.

## 5. Plan

Done: `PollTask`, `RegService`/`RegLink`, `Handshake`, `SampleHistory`/`PowerLog`,
`PanelLayout`/`PanelKeyboard`/`Panel`, `DiagSweep`/`SimRegisters`/`Station`, each with its
proofs. Left, in this order:

1. `TapHitsWhatIsDrawn`: that controls tested and controls drawn agree on a page is a lemma of
   `PanelLayout` per page; the rest is that the data it depends on has not changed since the draw.
2. `PaintFollows`, for which the statics that `ui_tick()` compares, as the round found them, must
   be part of the invariant.
3. The clock: `millis()` as a counter that wraps, for the release window (which compares absolute
   times) and the age of a reading; up to the first wrap the window should be kept to the
   unit, and differences should be right across it.
4. Pure algorithms against reference definitions: Modbus CRC and the signature splits.

## 6. Not modelled

- Drawing, fonts and layout in pixels: no state a property is about; what a page shows is
  modelled by the state it reads.
- The cryptographic primitives (symbolic in `Handshake`), CRC and signature splits (unit tests
  cover them).
- The simulator's battery model, its presets and log, several BLE clients at once, start and
  stop of the server.
- The masked form of the keyboard, which no caller opens; the counters of `g_stats`.
- A torn read of `power` (the writer takes `g_mux`, the readers do not): a reader takes it in
  one step.
- A failed allocation of the history or of the sweep's baseline, which disables the feature.
- Build files, CI, documents.
