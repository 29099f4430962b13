# Formal models of the Mouse Without Borders bridge

TLA+ specifications of the bridge that lets an Omarchy (Linux, Hyprland) or
macOS machine be controlled by Mouse Without Borders (MWB) on Windows, the TLC
configurations that check them on small instances, and TLAPS proofs about them
for every value of their constants. Paths are relative to the repository;
`D` is `daemon/linux/src/bin/daemon.rs`, `IH`
`daemon/protocol/src/input_handling.rs`, `MP`
`daemon/protocol/src/mwb_protocol.rs`, `WI` `daemon/linux/src/wayland_input.rs`,
`CG`, `MM` and `CB` are `cg_input.rs`, `main.rs` and `clipboard.rs` in
`daemon/macos/src`.

## The system

One daemon per bridged machine. On Linux it is a handful of threads:

| part | state | operations | talks to |
|---|---|---|---|
| main loop, `run_client`, `run_session` (D 499-733, 894-911, 1004-1056) | the stream, one `KeyboardState`, `MouseState` and `LockComboDetector` per session, the chunk buffer, the id counter | connect, handshake, blocking read of one package at a time, drain the clipboard queue before each read | Windows; the virtual devices; `ClipboardShared`; `current_stream`; status.json |
| keyboard path (IH 190-272, 400-466; WI 294-309, 358-382) | tracked modifiers, pressed codes; the compositor's view of the virtual keyboard, which outlives sessions | a key event: update modifiers, tell the mask, drop repeats, forward | main loop, in line |
| lock combination (IH 273-311) | the last 8 key events | observe, fire, clear | main loop, in line |
| mouse path (IH 61-161, 317-398; WI 251-260, 318-340) | learned edge, two timestamps, the cursor's tracked position | absolute move, relative move, request to switch | main loop, in line |
| resume watcher (D 912-971) | `dbus-monitor`'s pipe | on a resume, shut the published stream down | main loop through `current_stream` |
| status.json (`config.rs` 127-141) | a file that outlives the process | write | bar widget, menu bar item |
| clipboard watcher (D 382-446) | last seen file, image, text | every 500 ms: read up to three kinds, compare, queue | main loop through a channel; pulls through `last_applied_*` |
| file server and its threads (D 814-883) | `pending_outbound`, a file per big image | accept, handshake, read what is pending, send | the session that sets it, the watcher that rewrites the image file |
| pulling threads (D 735-811) | one per beat | connect, header, body, write the file, `wl-copy`, record | each other, through the directory, the clipboard, `last_applied_*` |
| reverse listener (D 972-1003) | a session per accepted connection | the same `run_session` without input | `ClipboardShared` |
| package ids (MP 255-360) | a counter per session, seeded by the clock | one id per package | Windows' memory of ids |

The macOS daemon has the same protocol crate and the same shape:

| part | what differs from Linux |
|---|---|
| main loop and session (MM 129-375, 441-520) | the loop is a thread of its own beside the menu; the session of either direction writes status.json |
| `watch_for_wake` (MM 377-397) | no bus: a sleep is the wall clock running ahead of the awake clock within one tick of 2 s; it takes the stream out of `CURRENT_STREAM` |
| sink (CG) | keys, with the Windows shortcuts rewritten (`windows_keys.rs`), and the mouse, as CGEvents that macOS carries out later; it is reset, and releases what it holds, when a connection starts and when it ends |
| clipboard (CB) | copied files are left alone; a big image is shrunk, if that helps, and only announced if not; the reverse session has no clipboard |

Around both: `BarWidget.qml`, the menu bar item (`tray.rs`), install and
screensaver scripts.

What is hard here is what a unit test does not reach: a connection that dies
while keys are held or with a change in the queue; two clocks (sleep, throttle,
window) racing with events; threads that share the clipboard, a file or
`last_applied_*` without a common lock; what Windows remembers over our
restarts; the focus, the cursor or its visibility changing between two events
that read them. The list, line by line, is in `PROJECT.json` under `hazards`.

## The modules

| module | models | state and actions in the code |
|---|---|---|
| `Modifiers` | `ModState::update` | shared by both keyboard paths |
| `VkKeycode`, `MacKeycode` | the key tables `vk_to_evdev`, `evdev_to_cgkeycode` | entry for entry |
| `Keyboard` | the Linux keyboard path | `mods`, `pressed` = `KeyboardState`; `held`, `mask`, `numlock` = what the compositor was told. `KeyDown`, `Repeat`, `KeyUp` are `handle_keyboard` whole; `SessionStart`, `SessionEnd` make and drop the state |
| `LockCombo` | `LockComboDetector::observe` | `recent` = its ring; `log` is the same without capacity or window. `Natural`, `BurstEvent` are one package each |
| `RelativeMouse` | `handle_mouse` and the tracked position | `learned`, `relativeSeen`, `sincePacket`, `sinceSwitch` = `MouseState`; `pos` = `rel_pos`; `asked` = a NextMachine package. `Enter`, `EnterByHotkey` are absolute packages, `Move` a relative one, `Click` everything else |
| `ClientLink`, `MacLink` | both daemons' main loop and `run_client`, the reads of `run_session`, status.json; the resume watcher of Linux (`ClientLink`) and `watch_for_wake` (`MacLink`, which puts the two together) | `os` = the daemon; `pc` = where the thread of the outbound connection is; `pub` = `current_stream`, `CURRENT_STREAM`; `status` = the file, `told` = what the outbound connection last wrote there; one action per blocking call or assignment another thread can see |
| `LinkStatus` | what status.json promises | the abstract specification `MacLink` implements (`StatusPromise`, with `up <- pc = "session" /\ acked`, `shown <- told`) |
| `ClipboardSync` | watcher, queue and the sessions of both directions, for text, images and files, on either daemon | one action per read of the clipboard, comparison (after which an image may turn out not to be encodable or writable, and is dropped), drain, application and record; `inhand`, `inbound` by role, since on Linux the reverse session applies too |
| `FileServe`, `FilePull`, composed in `FileTransfer` (values they share in `Files`) | both directions of the file transfer of either daemon | `FileServe`: the watcher's writes, `pending_outbound`, beats, server threads. `FilePull`: pulling threads, and a session that applies small images beside them (`ImageReceived`), the directory, the clipboard, `last_applied_*`. `FileTransfer` closes the loop: the watcher sees what one of them has pasted, and takes it for a local copy unless the guard is armed. A Mac never offers files and does not record those it is given |
| `PackageIds` | `initial_package_id` and who counts it up | `next_clip_id` = the counter; `ring`, `at` = Windows' ring of ids |
| `WindowsKeys`, `MacInput`, `MacMouse`, composed in `MacSink` | the macOS sink | `WindowsKeys` is `rewrite` and `needs_context` as functions; `MacInput` has every field of `CgInput` the keyboard uses, with focus and the menu's switch giving anything at each read; `MacMouse` those the mouse uses, beside what macOS has: a cursor that lags (`live`, `behind`), is moved (`Nudge`) and hidden (`HideOrShow`) by others. `MacSink` is the one `reset` that ends and starts both |
| `KeyboardProofs`, `LockComboProofs`, `RelativeMouseProofs`, `ClientLinkProofs`, `ClipboardSyncProofs`, `FileTransferProofs`, `PackageIdsProofs`, `MacSinkProofs` | | theorems and proofs |

Each `MC...` module instantiates one of these for TLC. What Windows, the user,
the compositor, macOS, logind, systemd and launchd do is `external` in
`PROJECT.json`'s map and is modelled from what the code expects of them.

Time is ticks, except in `PackageIds`, where it is the clock's milliseconds.
Positions are integers: `RelativeMouse` keeps them in U-ths of a pixel, so the
code's `f64` arithmetic is exact.

## The runs

Every property of a passing run has a mutant in `PROJECT.json`: a plausible bug
in a mapped definition under which TLC finds that property violated.

| run | instance | shows |
|---|---|---|
| `Keyboard` | 7 keys: a numpad digit, a key with no code, NumLock, both Shifts, left Ctrl, AltGr | The dedup hides no first press; every key down here is typed or was left by a lost connection; no modifier outlives its keys; the compositor's mask is the tracked one once told |
| `LockCombo` | the code's ring of 8, combinations of 2 to 5 keys, 3 free events | Each burst that fits the ring locks, exactly once, and only on Win and L both down and up within one window |
| `Relative` | 2x2 pixels, universal range 0..6, margin 1, throttle and pause of 2 ticks; a desk of three machines with the side configured, one of two that learns it | A request names the machine that is beyond the edge; Windows' edge, once known, stays; an exit is a push; who keeps pushing leaves, through throttling and lost requests |
| `ClientLink` | both daemons, timeout of 2 ticks, 3 faults of any kind | The watchers never touch an earlier connection; "connected" is proven; a slept-under connection is dropped unless its resume came too early or went unnoticed; what that connection writes implements `LinkStatus`; the daemon reconnects again and again |
| `Clipboard` | both daemons, 3 copies of all kinds and on both sides, 1 failure of the connection or of an image | The echo guard is armed except inside an apply and when the two sessions have crossed there; local copies reach Windows in order; a last one that was new to the watcher comes after all others once it is seen, over reconnects and coalescing, and gets there, unless a dying connection took it or it could not be encoded or written |
| `MacSink` | left Ctrl, Alt, AltGr, Win, Tab, Home with the codes of the real tables; 2 buttons, 3 pixels in a row, 2 clicks in a row | Each key and button down at macOS is one the sink still knows to release, but for raw keys that a lost connection left; what waits for a release waits for its own key; a drag goes on as the drag it began as; a move or click starts from where the cursor is, unless others have just moved it |
| `FileTransfer` | both daemons, 2 threads that apply (pulls, or a session with a small image), 2 names, 1 server thread, 2 or 3 copies | No peer is served anything older than it was told of; a torn image is one the user has replaced since; a file is whole when the clipboard names it, unless another pull has opened the same name; the guard is armed unless two threads have crossed; no thread outlives a silent peer |
| `PackageIds` | memory of 2 ids, clock 0..9 with a modulus of 8 | Windows drops a package for its id only after a session handed out more ids than the clock counted until the next one |

Four runs find the code at odds with its own words (`PROJECT.json`, `findings`):

- `ClipboardRecopy`: image, text, the same image again: `last_seen_image` never
  saw the image leave, so Windows keeps the text; and so with the kinds the other
  way round.
- `FileEcho`: two pulls, or a pull and the session with a small image, paste in
  one order and record in the other; what is on the clipboard is then sent back
  to Windows.
- `MacHidden`: a hidden cursor that is pushed past two edges leaves over the first
  of left, right, top and bottom, though it is at the other one (the comment at
  CG 473 says only once it has reached "that edge"). Its desk has 4x4 pixels, to
  be near one edge and away from the next.
- `MacStatus`: on macOS the session that Windows opens writes status.json too
  (MM 256), so the menu may say "Connected" while the connection that carries
  input is down or refused. Linux tests the role first (D 633).

### Bounds

The keyboard models are finite as they are; the choice of keys is one of each
kind that the code tells apart. A lock burst of five keys is the first that does
not fit the ring of 8, and three events before it are enough to push its first
ones out. Two pixels in each direction have every position the code compares
with: both borders, one inside, and the one past the far border where an
absolute entry may put the cursor; the universal range of 7 has a middle
outside every margin. Entries lie away from the corners (see below).

Three faults let a fault hit the recovery from a fault. Three copies are what it
takes for a value to come back after another one; two of them on Windows
(`MaxOnWindows`) are what it takes for its two sessions to apply at the same
time. Two threads are what it takes to cross; a session is one of
them while it applies a small image, and one image is in hand at a time (two
sessions at once are in `ClipboardSync`). A memory of two ids and payloads of
up to three packages let a session overtake the next one's start.
`FileTransfer` with three copies split between the sides in every way passed on
Linux alone (1.67 million states); the run has two where Windows copies.

On a Mac three pixels in a row have one that is within a pixel of both edges and
two that are near one of them. `Resync` and `DoubleClick` are one tick: what
counts is before or after. `Device` splits the run into behaviours with keys,
with buttons, and with a cursor that hides: keyboard and mouse share only the
reset, and visibility is read by relative moves alone. The displays do not
change.

### Fairness

`ClientLink` assumes that the threads are scheduled, timers and sleeps end,
systemd (`Restart=always`) or launchd (`KeepAlive`) restarts the service, the
machine wakes, and that a peer which is there does not time out for ever (strong
fairness on its first block and on its answer to the handshake). Neither
watcher is assumed to notice a resume.
`Relative` assumes a user who, having decided to leave, keeps pushing, and a
Windows that does not lose every request. `ClipboardSync` assumes both threads
scheduled, that each session goes through what it has received, that the daemon
reconnects (what `KeepsReconnecting` shows), and that Windows keeps sending its
Hi packages, since the queue is only drained when one wakes the loop.
`FileTransfer` assumes of its threads only steps that need no peer, time-outs
among them: `set_socket_timeouts` is called before their first read. `Keyboard`,
`LockCombo`, `MacSink` and `PackageIds` check safety only and assume nothing.

## The proofs

All by induction over the steps, for every value of the constants. Every
invariant and every action property that a passing run checks is a theorem.

`KeyboardProofs` (assuming that the table maps modifier keys, which
`VkKeycode`'s table does): the invariant is the checked one plus two facts.
`PressedIsTyped` ties the dedup set to the keys really down; `HeldIsTyped`
refines `HeldExplained`, which by itself does not survive the early return for
NumLock. One lemma for the modifiers, one for a press and one for a release
carry all branches of `handle_keyboard`. From it follow `TypeOK`,
`RepeatsHidNoPress`, `HeldExplained`, `NoPhantomModifier`, `SinkMaskCurrent`,
and `IdleReleasesAll` (hands off means all up), for every set of keys and every
table.

`ClientLinkProofs`, over `MacLink` and so over both daemons: `TypeOK`,
`PublishedIsCurrent`, `ConnectedMeansProven` and `StaleOnlyIfMissed` are
inductive together with `ForeignUnproven` (a peer of
another key has proved nothing); the flags and the other variables are typed in
two lemmas, since the provers treat Booleans and numbers apart.
`StatusKeepsPromise` is the safety half of the refinement: initial states map to
initial states, every step to a step or a stutter of `LinkStatus`.

`PackageIdsProofs`: for every modulus, delay, memory and payload. The invariant
`Fresh` says where the counter is (at the session's start plus what was handed
out) and that every remembered id lies below every id still to come: below the
counter while a session is up, below the next session's start while it is not.

`FileTransferProofs`: for any number of threads, names and copies, on both
daemons. Neither direction
reads the other's variables, so each has an invariant of its own (`SInv`,
`PInv`), and `StepOfEach` says that a step of the whole is at most one of each.

- Serving. `Sent` is the key: of every event that has left the watcher, the copy
  was made before the one being written now, and the image's file holds that
  copy, a later one or, half written, something later. `InOrder` puts what
  Windows was told before what is pending, and that before what is queued. A
  thread looks what is pending after its peer has come, so it picks nothing
  older than the beat that brought the peer.
- Pulling. `Apart` says that two threads with one file open both know it
  (`mixed`); then a file that is only its own thread's is whole when it is
  pasted. `Guard` says that, without a crossing, at most one thread is between
  the clipboard and the record, and that it is its item which is shown.

Assumed: that `Nothing` is no event and no item, and `Torn` no number.

`MacSinkProofs`: for every set of keys and buttons, table of codes, desktop and
timing. Keyboard and mouse share no variable, so each has an invariant of its
own (`KeyInv`, `MouseInv`); `MacInv` joins them where a session starts and ends.

- Keys. `HeldIsOwed` is only inductive with `Entries`, which is
  `EntryHasItsKey` and two more facts: left Alt and Caps Lock are posted as long
  as they are pressed, and no modifier has an entry in `rewritten`. `TrackedOK`
  adds that Alt is tracked only while left Alt is pressed: the window switcher
  starts on the one and ends on the other. Assumed of the tables
  (`ModifierAssumption`, `NoneAssumption`): left Alt is Windows' Alt and nothing
  else, the code of a modifier is that of a tracked key or Caps Lock, and
  `None` is no keycode. TLC evaluates them for the run's keys.
- Mouse. `HeldOK`: what is held is down once and listed once, and what is dragged
  is what is held longest. From it follow `DownIsHeld` and `DragGoesOn`.
  `CursorOK`, that a cursor which has caught up and that nobody else moved is
  where our last event put it, gives `StartsAtCursor`.

`ClipboardSyncProofs`: for all contents, any number of copies and of lost
connections, on both daemons. `ClipInv` has four parts that are shown one after
the other. `OrderOK` puts everything between the clipboard and Windows in one
order: heard of, written, queued, read and not yet compared; with it goes that
none of these is newer than what the clipboard shows (`KnownOK`), so that what is
read next is not older than anything before it. `EchoOK` gives each role what it
has in hand: until the sessions cross, whoever put what is shown on the clipboard
has it in hand or has recorded it. `NewestOK` is the safety half of
`FreshCopyTold` (`FreshCopyComesLast`): while the newest copy is the clipboard's,
nothing records its value as applied, so the comparison takes it for no echo; once
it is read, no kind after its own is, so nothing gets behind it. It needs
`OrderOK` to know that a copy on Windows makes another one the newest.

`RelativeMouseProofs`: for every layout, universal range, margin, throttle,
entries and moves. `OnPixel` (after a relative move the position is at most at
the last pixel, which an entry may exceed) makes an exit a push. The two
theorems about edges have hypotheses about the user's desk, which the run's
desks satisfy (`DesksAssumption` in `MCRelativeMouse`): `ClearOfCorners` and
`SidesAreRight` for `SwitchLeadsWhereEdgeDoes`, `SidesAreNamed` too for
`WindowsEdgeLeadsBack`. Each is what the code takes for granted: `learn_entry`
cannot tell the edges of a corner apart, believes `windows_side`, and without it
lets an entry from a neighbour overwrite the edge of Windows.

`LockComboProofs`: for every capacity and window, any keys of the user and all
combinations with one Win key and one L (`OneWinAndOneL`; a hotkey is one key
with modifiers). `SuffixOK`: the ring is a suffix of the log, what was dropped is
older than the window or has `Cap` events after it, and the ring itself is not
complete. `KeptOK`: a burst that fits the ring is its suffix until it fires,
since it is over within the window. `SpentOK`: after that, Win or L has no press
in the ring and none to come, so it does not fire twice. `Fresh` chooses the
least index in the window; that there is one is the least number principle, from
`NatLessThanWellFounded`.

Only checked by TLC: liveness (`KeepsReconnecting`, `FreshCopyTold`,
`PushingReturns`, `ThreadsEnd`, the fairness half of `StatusPromise`), which the
installed provers cannot do, and what the four violated properties are about.
What the tables and other data contain is checked by evaluation.

## What the models leave open, and know

Met while modelling, in the model but promised by no property:

- Left, right and generic Shift (Ctrl, Alt, Super) share one tracked bool, so
  releasing one clears the modifier while the other is held (IH 243-272).
- After a reconnect the virtual keyboard keeps the old mask until the next
  modifier event (`SinkMaskCurrent` speaks of sessions that have told one).
- The first relative move after an entry over the far border counts as an exit
  whatever its direction (WI 255); hence the *AfterFirst* in
  `ExitIsPushAfterFirst`.
- Near a corner `learn_entry` may take one edge for the other; the instance has
  no corner entries (`ClearOfCorners`).
- An entry from a neighbour overwrites the learned Windows edge, and then none
  leads back: desks with a neighbour need `windows_side` configured, and the
  instance's has it (`SidesAreNamed`). A reconnect forgets the learned edge.
- A burst of five keys may lose its first events to the ring.
- A sleep between `connect` and the publishing of the clone leaves the dead
  connection to `SOCKET_TIMEOUT`; so does, on a Mac, one of 5 s or less, and one
  that falls between two readings of the clocks.
- Between the clipboard and the record of what was applied the watcher may take
  Windows' copy for a local one (`EchoGuardArmed` excepts it), and on Linux two
  sessions may cross there, after which the guard may hold the other's copy; a
  tick reads three kinds one after the other and may see two copies.
- On a Mac whether files were copied is asked before image and text are read
  (CB 303): a file copied in between is sent as its icon or its name.
- A text that once came from Windows is an echo for good; the change taken out
  of the queue by a write that fails is not sent again, nor is an image that
  could not be encoded or written to its file (D 423-430): `last_seen_image` holds
  it already. `FreshCopyTold` excepts both (`lost`).
- Two pulls of one name write one file; one may be pasted while the other has
  truncated it (`FlushedBeforePaste` excepts a name another pull has opened).
- On Linux a key whose release falls between two connections stays down until it
  is pressed again: the state of the lost session is dropped, nothing is released
  (D 544; `stale` in `Keyboard`).
- An older pull may be applied after a newer one.
- `CgInput::reset` releases what it remembers, not raw keys: one of those down
  when a connection dies stays down until it is pressed again (`stale` in
  `MacInput`).
- A button released at Windows while its mouse is elsewhere stays down here
  until it is pressed again or the session ends (`missed` in `MacMouse`). The
  release of a button after another one was pressed carries that one's click
  count (CG 535-536 say its own).
- A game that warps the cursor within 200 ms of hiding it, or
  between two of our moves, may be overruled by our next one (`nudged`).
- A payload takes an id for every 48 bytes. More packages than milliseconds
  until the next session, and that one starts among ids that Windows remembers:
  its first request to switch is dropped (`DroppedOnlyIfOutrun` excepts it).
- In `PackageIds` the wall clock only runs forward. One that is set back between
  two sessions could repeat ids without any payload.

Outside the models: on Linux the virtual pointer's buttons are not released when
a connection is lost; a panic of the macOS network thread leaves the menu bar
item running without it; the comment "no image clipboard/lock/file handling yet"
(MM 126) is older than the code under it.

## Not modelled

- Package framing, checksum and encryption: the peer's half is not in the
  repository, and AES and SHA are beyond a model checker. A package of a wrong
  key is one that does not decrypt.
- Several reverse sessions at once, their listener's accept loop, and the lock of
  `peer_machine_id`, held over the socket writes of `announce_big_path` (D 581):
  the wait ends with the write's time-out, and no property depends on its length.
- The buffer that collects Windows' chunks, compression, the plain text made of
  HTML, the shrinking of images: data.
- Of the macOS sink, the flags of posted events and Caps Lock.
- Configuration (read once, and constants here); the drawing of the widget and
  the menu bar item and the shell commands behind their buttons; install,
  keyboard layout and screensaver scripts.

## Plan

Done: the modules, runs and proofs above. Next, in this order:

1. The violated properties under the condition that excuses them: `FileEcho`'s
   is `ArmedUnlessCrossed`, which is proved; for `MacStatus`, `ShownMeansProven`
   as long as no reverse session has written.
2. The chunk buffer, and the reverse listener with several sessions.
