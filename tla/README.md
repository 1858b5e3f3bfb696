# Verification of luna-shell

This directory holds TLA+ models of the parts of luna-shell where order and
timing decide whether the desktop works: when a frame is made and when its
buffers and callbacks go back to clients, how the DRM backend shows it, who has
the focus and the keyboard, how the clipboard daemon keeps copies beyond the
life of the applications that made them, and how the desktop shell's loop works
with its worker threads and child processes. TLC checks the models on small instances, and
TLAPS proves the main statements for instances of every size.

`tlc -config X.cfg M` runs a configuration; the table of runs below says which
module `M` belongs to which `X.cfg`. `tlapm M.tla` checks the proofs of a
`...Proofs` module.

Paths are those of the repository. `server.rs`, `render/...`, `xwm.rs` and so on
stand for files under `wayland-server-rs/src/`, `luna-clipboard.c` for the file in
`clipboard/`, `luna-shell.c` and `luna-wifi.h` for those in `ui/`.

## The system

luna-shell is a Wayland desktop: a compositor in Rust, a shell in C that is one
of its clients, and small helpers around them.

| Component | State | Operations | Properties that make it correct |
|---|---|---|---|
| Frame loop (`Server::run`, `surface_commit`, `composite_and_present`) | surfaces with current and pending buffer; queues of frame callbacks and buffer releases; the batch in flight; dirty flags; retained GPU scene | requests, commits, loop iterations, flip completion, VT signals, screenshots | no buffer is released while it is shown or will be; every callback fires; every replaced buffer returns; damage is drawn |
| DRM/KMS backend (`render/dri.rs`) | two dumb buffers, shadow, spans of the previous frame, full-copy count; flip in flight; GPU and direct framebuffers, those to be retired | present, complete, watchdog, activate, deactivate | while page flips work the screen shows whole frames and no visible buffer is drawn into; no visible buffer is removed; the backend does not stay busy |
| Windows, focus and keyboard (`server.rs`) | `window_stack`, `focused_*`, `kbd_entered`, minimized windows, deferred actions, Show Desktop list | map, unmap, destroy, activate, minimize, click, key, shell commands, VT leave | focus and keyboard name live surfaces; clients are told of enter and leave; focus passes on |
| Data devices (`server.rs` 4624-5610) | selection, primary selection, drag with its target and offer | set_selection, offers, motion, drop | offers name live sources; a drag ends once for source and target |
| Text input, input methods, virtual keyboards (6493-7515) | active text input, grabbed keyboard | activate, commit, forward keys | an input method serves the focused text input only |
| Popups (8191-8370) | `popup_stack`, `popup_grab` | create, grab, reposition, destroy | grabs and stack name live popups |
| Geometry (tiling, docking, layer-shell areas, `placement.rs`) | rectangles | move, resize, tile, first placement | windows stay reachable; exclusive zones are respected |
| Session records (6816-7110) | map of names to geometries, a file | snapshot, save, restore | a crash loses at most the last interval |
| Objects, globals, wire (`object.rs`, `protocol.rs`, `wire.rs`, `socket.rs`, `shm.rs`) | object table, receive buffer, descriptors | decode, dispatch, send | ids agree on both sides |
| Shell IPC (`shell_ipc.rs`) | state file, command FIFO | write state, read commands | the shell sees whole snapshots |
| Xwayland (`xwm.rs`, `server/xwayland.rs`) | X windows, their surfaces, pending pairs | map, associate, configure | each X window meets its surface |
| Input devices (`input/evdev.rs`) | devices, pressed keys | read, plug, unplug, drop | no key stays down |
| Client library (`wayland-client-rs`) | receive buffer, proxies, queues | read, dispatch, roundtrip | events arrive in order, once |
| Clipboard daemon (`clipboard/luna-clipboard.c`) | history and its file, own source, current and pending offer, the list of its types, the read in progress | offers, selection, cancelled, reading an offer, owning the selection, commands, restart | a copy is kept whole and survives its owner; what is offered can be served; offers are not lost |
| Desktop shell: loop, workers, children (`ui/luna-shell.c`, `ui/luna-wifi.h`, `ui/luna-bluetooth.h`, `ui/luna-ethernet.h`) | command queues, snapshots, guards, `g_sigchld_pending`, the eventfd, the children | request, dequeue, run, publish, consume, reap, poll, start and stop the player | no child is stolen; each ended child is collected; the user sees the outcome of the last request |
| Desktop shell: windows, widgets, settings; tray, wifi helper, session script | user interface | - | - |

How they interact: the compositor is one thread around `epoll_wait`. Client
sockets, the DRM descriptor, a signalfd for VT switches, an eventfd of the
input thread, Xwayland's connection and the shell's FIFO wake it. Each handler
runs to its end, so there are no data races inside; what interleaves is the
order of handlers, the kernel's vblank and clock, and the clients' own views of
their objects. State that outlives a handler names surfaces and clients by
descriptor and id, both of which are reused. While a client's batch is handled
the client is taken out of the table, so part of what its requests want is put
off to the end of the batch. The backend is called only from the frame loop,
and answers later, by an event or by the watchdog. The clipboard daemon is a client
of the compositor: requests and events cross on its socket, and it reads the
content of a copy from a pipe whose other end an application holds, running its
event listeners while it waits. The shell is a loop around `poll` beside one thread
for each kind of network device and one for AirPlay; they share queues and
snapshots under mutexes, one eventfd, and the children of the process.

What is hard, and where: flip events that are late or lost while releases wait
for them; VT switches between the submission of a flip and its event; cursor
frames that draw again from a retained scene; two scanout buffers of which only
changed spans are copied; framebuffers removed while the CRTC may still read
them; focus and keyboard that move in separate steps; names that outlive what
they name; a copy made while another is being read, of an application that is slow,
silent or gone; two places that wait for the same children; notifications that are
drained before what they announce can be read. `PROJECT.json` lists these as hazards, each at its line with the
properties aimed at it.

## The modules

| Module | What it is |
|---|---|
| `Presentation` | The frame loop, the life of buffers and callbacks, the backend seen from above |
| `DriFlip` | The KMS backend in detail, the frame loop seen from below |
| `Display` | What the compositor expects of a backend: whole pictures, at once or at the next vblank. `DriFlip` implements it |
| `WindowFocus` | Windows, stacking order, focus and keyboard |
| `Selection` | The compositor's clipboard selection: sources, owner, offers, broadcast |
| `Clipboard` | The clipboard daemon with `Selection` and the applications at the other end |
| `ShellWorkers` | The shell's loop, its network workers, the AirPlay player and the children of all of them |
| `PresentationProofs`, `DriFlipProofs`, `WindowFocusProofs`, `WindowFocusOrderProofs`, `ClipboardProofs`, `ClipboardOwnerProofs`, `ClipboardKeepProofs`, `ShellWorkersProofs` | Theorems and their proofs |
| `MCPresentation`, `MCDriFlip`, `MCWindowFocus`, `MCClipboard`, `MCShellWorkers` | Small instances for TLC: symmetry sets, sets of windows, bounds |

`Clipboard` extends `Selection`: the compositor's half of the clipboard is a module of
its own, composed with the daemon through two queues and the pipe of the last
receive. `Presentation` and `DriFlip` are the two sides of one interface, `present` /
`present_busy` / `poll_presentation`. `Presentation` knows a flip as *none,
queued, shown, overdue* and leaves the backend's choice between flip and
SetCrtc open; `DriFlip` has the pixels and framebuffers behind that choice and
takes from the loop only that it presents when the backend is active and not
busy. Each definition has a comment that names the function it stands for;
definitions keep the names of the source where they can. Definitions marked
*Mutant* are plausible mistakes in the code; nothing in the specification uses
them, they show that the properties notice the mistake.

### Presentation

A request handler is one step; the loop body of `run` is split where a decision
is taken: `top` (poll), `block` (epoll_wait), `events`, `capture`, `frame`.
Requests, signals and shell commands arrive at `block` or `events`. The kernel
can reach a vblank at any step, and its event can be lost. `role` is the
server's object table, `view` what the events sent so far allow the client to
believe of the same ids; the properties compare the two. A buffer is *idle* or
*held* in the view: it becomes held when a commit installs it and idle when
`wl_buffer.release` arrives; a destroyed buffer is a *zombie*, because the
server sends no `delete_id` for it and its id is never free again.

| Code | Here |
|---|---|
| `surface_commit` | `Commit`, `Committed`, `Replaced` |
| `flush_presentation_queues`, `finish_or_defer_presentation_side_effects`, `complete_presentation` | `FlushQueues`, `FinishOrDefer`, `FlushInFlight` |
| `composite_and_present` | `CompositeSoftware`, `CompositeGpu`, `CompositeDirect` |
| `repaint_cursor_only` | `RepaintCursor`, `RepaintCursorFails` |
| `run` | `PollTop`, `Timeout`, `DispatchEvents`, `PollAgain`, `Capture`, `HoldFrame`, `HiddenFrame`, `FlushSideEffects` |
| `process_signals` | `SwitchAway`, `SwitchBack` |
| `accept_clients`, `recv_client` | `Connect`, `Disconnect`, the request actions |

Queues are sets: the program only appends to them and drains them whole. A GPU
frame retains the buffers it drew until the next one; a cursor frame submits
them again. A direct frame makes a client's buffer the framebuffer. `ShowNothing` is a
frame that changes nothing on the screen: the backend is busy or inactive, nothing
differs, or, with `"fail"` in `Allow`, the flip is refused and SetCrtc fails as well.
Over a direct scanout the server then releases a buffer that is still shown; the passing
runs leave that out, and the table of behaviours below has it.

Left out: subsurfaces, damage rectangles, viewports and scales, the import of
dmabufs, what is drawn.

### DriFlip and Display

`copy_damaged` is modelled with its pixels. A present compares the damaged part
of each row with `shadow`, writes the changed span there, and writes the hull
of this span and the previous frame's span into the back buffer. Narrow damage
is trimmed to the changed columns and wide damage is copied as it is; `Trim`
says where the one ends (256 columns in the code). `InvalidateShadow` asks for
two full copies, one for each buffer. `FlipTo` has the three outcomes of the
code: a page flip, SetCrtc when the driver has no page flips or answers EBUSY,
or failure of both. `DispatchEvents` accepts only an event that names the
framebuffer of the flip that is pending. `PollPresentation` retires a flip
whose framebuffer the CRTC already shows and whose time is over. `Deactivate`
and `RestoreCrtc` are two steps since the kernel can complete a flip between
them. What the kernel does (`Vblank`, `TimePasses`) and keeps (`scanout`,
`queued`, `drm_events`, `pic`) is the environment, modelled from how the code
uses it.

The back buffer is copied in one step, since nobody sees it before the flip. Once the
driver has refused a page flip for good (`use_page_flip`), the code copies into the buffer
the CRTC reads; there `CopyDamaged` only says what is due (`due`), and `CopyRow` writes
one row after the other. The thread does nothing else meanwhile, but the screen shows
each step.

`Display` says what can be seen. While pictures can be exchanged (`flips`), a presented
one is on the screen at once or from the vblank on, whole. A display that has lost that
draws over the picture on the screen: until it is done, each pixel is the old or the new
one. `DriFlip!DisplayOf` maps the framebuffer the CRTC reads to the picture on the screen,
and the queued one to the picture that comes next: so `ShowsFrames` says that however few
spans are copied, and whichever way the frame is shown, the screen has the last picture
presented, or until the vblank the one before, and a mixture only while a driver without
page flips is updated in place (the single-buffer path of which the comment at
`render/dri.rs:251` says that it tore).

Left out: mode setting at start, the hardware cursor plane, pixel formats, the
GPU composer itself (its output is a picture), statistics.

### WindowFocus

The desk (`desk`) is what the window manager's functions work on: stacking
order, focus, entered surface, minimized windows, and for each keyboard object
the surface it was last told to be in. The functions of the code are operators
from one desk to the next (`Activate`, `EnsureKbdEntered`, `FocusTopmost`,
`Minimize`, `Forget`), and the actions are the handlers that call them.
`Clients` is the table of clients, and the client being served is not in it:
each operator takes the table it can see, as the functions of the code do.
`BeginBatch`, `EndBatch` and the pending actions are the batch of `recv_client`.

| Code | Here |
|---|---|
| `activate_surface_for`, `raise_surface`, `ensure_kbd_entered`, `focus_topmost_visible`, `minimize_surface_for` | `Activate`, `RaiseSurface`, `EnsureKbdEntered`, `FocusTopmost`, `Minimize` |
| `flush_wm_actions`, the disconnect path | `Flush`, `EndBatch`, `ForgetClient`, `Disconnect` |
| `req_xdg_toplevel`, `req_layer_surface`, `surface_commit`, `wl_surface.destroy` | `TakeRole`, `SetParent`, `Map`, `Recommit`, `Unmap`, `DestroyToplevel`, `DestroyLayer`, `DestroySurface`, `SetMinimized`, `ShowWindowMenu`, `RequestGrab` |
| `req_seat`, `wl_keyboard.release`, virtual keyboards | `GetKeyboard`, `ReleaseKeyboard`, `ForwardVirtualKey` |
| `inject_ptr_button`, `inject_key` | `Click`, `PressFrame`, `BeginMoveGrab`, `Key`, `MinimizeShortcut` |
| `handle_shell_commands`, `toggle_show_desktop` | `ActivateByShell`, `MinimizeByShell`, `HideDesktop`, `BeginRestore`, `RestoreNext` |
| `reset_input_state` | `ResetInputState` |

Iteration over the maps of clients and objects is an arbitrary order
(`HashOrders`). The client's id space is per client: two windows of different
clients can have the same id, and the instances give them the same one.

Left out, and why that is sound for the properties here: geometry (a click may
hit any visible window that the stacking order lets it); tiling and maximizing
(they raise and activate like `ActivateByShell`); popups and their grabs;
subsurfaces (they take the focus of their root); the switcher's list (it may
pick any window); what configure events say; input methods that grab the
keyboard. An interactive move may start at any press. Clients keep to the
protocol and have a pointer.

### Selection and Clipboard

`Selection` is the compositor: a data source is live or not, and the selection is the
name of one; `FlushBroadcast` offers it to the daemon unless the daemon is the owner,
and an offer outlives the source it names. Applications act on the compositor at
once; the daemon's requests and events are queues (`fromDaemon`, `toDaemon`), so that
a `cancelled`, a new offer and a `set_selection` can cross. `pipe` is what the last
`wl_data_offer.receive` gives: an application writes all of it, a part, or nothing.

`take_offer` reads an offer's types one after the other, and `receive_offer` runs the
listeners while it waits: `taking` is where it is, and `Dispatch` is possible during
it. The list of types `g.offer_mimes` is one for all offers; `take_offer` keeps
pointers into it, so after `offer_mimes_clear` what they show is the string or
anything (`Junk`). `last` says of the newest copy whether something got in its way.

| Code | Here |
|---|---|
| `req_data_source`, `req_data_device` in `server.rs` | `CopyInto`, `OfferType`, `DestroySource`, `ClearSelection`, `Serve` |
| `flush_selection_broadcast`, `emit_selection_to_client_fd` | `FlushBroadcast`, `EmitTo` |
| `device_data_offer`, `device_selection`, `source_cancelled` | `DeviceDataOffer`, `DeviceSelection`, `SourceCancelled` |
| `drain_pending_offer`, `take_offer`, `receive_offer` | `DrainPendingOffer`, `Continue`, `Finish`, `ReadToEnd`, `ReceiveTimeout` |
| `become_selection_owner`, `history_push`, `history_save` (which may fail), `clip_add` | `BecomeOwner`, `HistoryPush`, `Save`, `With` |
| `handle_cmd_line`, start of `main` | `Select`, `Clear`, `Restart` |

`Save` writes the whole history or, when a directory, the file or the rename fails, leaves
the old file; the code tells nobody, and the history in memory has changed already.
`unsaved` says that the last save failed, and what is said of the file is said of a file
that was saved. A restart then comes up with the older history, in which entries may be
back that had been cleared.

Left out: what contents and types are called, their sizes, the layout of the file, and
that one copy has at most 64 types (`CLIP_MAX_MIMES`), so that `KeepsLatest` speaks of
copies with no more; the primary selection and drag and drop of the compositor. There is one daemon, the one the
session starts.

### ShellWorkers

The loop is at the top, in `reap_children`, at the part that is left out while the
user interacts (`Tick`), or in `poll`. A worker goes through the steps of
`luna_wifi_thread_main`; each critical section is two steps, so that the loop's
try-lock can find the mutex taken, and `child_mutex` is held from the command to the
end of the refresh. A child process is running, ended, or gone because somebody
waited for it; the numbers of processes are used again. A command is a row of children,
and `stage` says which is next: switching on unblocks the radio (`rfkill`, IFF_UP) before
the command and, for wifi (`Unblocks`), after it; a wifi refresh that finds no network
listed does the same and asks for a scan. There may be none to run then, because `rfkill` is not
installed or a network is listed. What unblocks may turn the radio on. `asked`, `due` and
`expected` are what the properties compare with: how many requests there were, whether
nothing was read since the last one, and what is to be expected of the radio: what the
user asked for last, or that it is on if it was unblocked since, or anything if a command
failed.

| Code | Here |
|---|---|
| `luna_wifi_enqueue`, `wifi_request_powered`, `wifi_refresh` | `Ask`, `Enqueued`, `MayAsk` |
| `luna_wifi_thread_main`, `luna_wifi_do_command`, `luna_wifi_run_wait`, `luna_wifi_publish` | `Dequeue`, `Announce`, `DoCommand`, `FirstStage`, `NextStage`, `Spawn`, `SpawnNothing`, `RunWait`, `BackendRefresh`, `Publish` |
| `luna_wifi_consume`, `wifi_consume_snapshot`, `wifi_tick` | `Consumes`, `Consumed`, `WifiTick` |
| `on_sigchld`, `reap_children` | `Exit`, `Top`, `TryLock`, `PutOff`, `WaitAny`, `ReapDone` |
| `wl_backend_poll_events`, `shell_wait_timeout_ms` | `Woken`, `Input`, `Deadline` |
| `ap_on_video`, `ap_player_start_locked`, `ap_player_stop` | `OnVideo`, `PlayerStop` |

`luna-bluetooth.h` and `luna-ethernet.h` are the same program as `luna-wifi.h`; the
ethernet worker has no radio, so it is not in `Switched`. Left out: connecting and
scanning, which take the way of the power commands, and the second program that
bluetooth runs for one of them; the children that `popen` starts in a refresh, which
`pclose` waits for under the same guard, so what is said of the one child holds for them;
the lists that are read;
`g_wifi_generation` as a number (`new` says that it differs); applications the shell
starts, which are children like the player that nobody waits for but the loop; the
audio player, which is started and stopped as the video player is.

## The runs

| Run | Module | What it checks | Bounds |
|---|---|---|---|
| `Presentation_screen` | `MCPresentation` | `TypeOK`, `InUseIsHeld`, `ObjectTablesAgree`, `BatchNeverGrows`, `HiddenCallbacksHeld`, `BuffersLeaveByRequest`, `CallbackFires`, `ReplacedBufferReturns`, `DamageIsDrawn` | one client that can leave, one surface, two object ids, GPU and direct frames, VT switches; no symmetry |
| `Presentation_cursor` | `MCPresentation` | `InUseIsHeld`, `NoStrandedRelease` | one client, a window and a cursor surface, two ids, GPU frames, VT switches, screenshots |
| `DriFlip_software` | `MCDriFlip` | `TypeOK`, `BackBufferCovered`, `ShowsFrames`, `NeverDrawsOnScreen` | a screen of 2 x 2 pixels with two values, every damage rectangle, EBUSY, no page flips, VT switches |
| `DriFlip_buffers` | `MCDriFlip` | `InUseIsRegistered`, `CompletesOnScreen` | 1 x 2 pixels, three framebuffers for GPU and direct frames |
| `DriFlip_live` | `MCDriFlip` | `PresentCompletes` | one pixel, two framebuffers, refused presents, screenshots, VT switches |
| `WindowFocus_focus` | `MCWindowFocus` | all invariants of `WindowFocus` and `FocusPassesOn` | two clients, three toplevels of which two have the same id, a keyboard object of the client with two windows and none of the other, minimizing |
| `WindowFocus_grab` | `MCWindowFocus` | `KbdHeard`, `FocusPassesOn` | two windows with the same id, toplevels, dialogs and panels, two keyboards of one client, grabs, Show Desktop, virtual keyboards, VT switches |
| `WindowFocus_dialog` | `MCWindowFocus` | `DialogHandsBack`, violated | three toplevels |
| `Clipboard_keep` | `MCClipboard` | `TypeOK`, `OffersAccounted`, `Servable`, `OwnerAgrees`, `HeadIsCurrent`, `KeepsLatest`, `Settles` | two copies of one application, two types, two contents, a history of two, one other event (command, restart, timeout, drop, leave, a type added late) |
| `Clipboard_overtaken` | `MCClipboard` | `LatestCopyWins`, violated | two copies and nothing else |
| `ShellWorkers_requests` | `MCShellWorkers` | `TypeOK`, `ChildrenAwaited`, `OutcomeIsCurrent`, `PutOffIsMadeUp`, `ShowsOutcome` | one worker with a radio that refreshes unblock, a queue of two, two requests after those of the start, one process at a time |
| `ShellWorkers_player` | `MCShellWorkers` | `NextFrameRestarts`, violated | the same with two processes |

`Allow` in a configuration says which optional behaviours the instance has, so
that a run can leave out what another covers.

Why the bounds are enough. *Presentation*: the two ids are two buffers, or a buffer and
a callback; what needs three buffers, one on the screen, one queued and one attached,
is covered by the proofs, which are for any number. Clients interact
only through the queues, whose entries are pairs, so a second client adds
nothing until descriptors are reused; the cursor run has the second surface.
*DriFlip*: a row of two pixels has every relation of two spans except disjoint
ones with a gap between them, two rows have rows inside and outside the
damage, two values have equal and unequal; the proofs cover every size. Three
framebuffer ids are one on the screen, one queued and one free: a fourth is
never alive. *WindowFocus*: focus passes between two clients, and within one
between two of its windows; keyboards of both clients are left to the proofs, which are
for any number. Nothing is counted in these three, so no guard has a
bound in it. *Clipboard*: what goes wrong needs a copy, one that overtakes it, and one
event that disturbs them; `MaxCopies` and `MaxEvents` are these. `MaxOffers` and
`MaxOwn` are ids: with six offers and four sources none is ever missing. *ShellWorkers*:
`More` bounds the requests, and two after those of the start fill the queue and put a
request behind each step of the worker; workers meet only in the guards, which the
proofs have for any number and order. One process at a time makes spawning fail.
`Clipboard`'s runs turn deadlock checking off, since nothing more happens when all
copies are made; all others check it.

## Fairness

*Presentation*. `WF(LoopStep)`: the loop has no exit, and a step of it is one of
`run`'s statements. It waits only at `block`, where `Timeout` is enabled when
`run` passes epoll_wait a timeout; that it does so while a flip is outstanding
or work is left is part of what is checked. `WF(Vblank)`: the display has a next vblank. `WF(GraceElapses)`:
time passes. Nothing is assumed of clients, signals, the shell or of the
delivery of flip events.

*DriFlip*. `WF(Vblank)` and `WF(TimePasses)` as above, `WF(RestoreCrtc)` because
deactivate runs to its end, and `SF(PollPresentation)`: every iteration of the
loop polls, and it does not sleep while the backend is busy, so a poll that is
possible again and again is made. Weak fairness would not do, because other
actions of the model can disable the poll for a moment. `PresentCompletes`
excludes executions in which screenshots never stop: each starts the wait anew.

*WindowFocus* has no liveness properties and assumes no fairness.

*Clipboard*. `WF(Server)` and `WF(DaemonRuns)`: both are loops around `poll` and
`epoll_wait` that handle what has arrived, and `receive_offer` has a timeout.
`WF(Answer)`: an application that was asked writes, or its end of the pipe is closed.

*ShellWorkers*. `WF(ThreadMain(w))`: each worker is a thread of its own. `WF(Loop)` and
`WF(GracePasses)`: the loop does not exit and time passes. `WF(CommandExits)`: the
programs the workers run end. `SF(ReapDone)`: the players do not start and end so fast
that `waitpid` always finds one more; with weak fairness the loop could stay in
`reap_children` forever, each time disturbed by another child. Nothing is assumed of
the user, the player or the sender of the video; `ShowsOutcome` asks that the user
leaves the shell alone in the end, as an interaction that never pauses defers the
snapshots.

## What is proved

All of it for every value of the constants that meets the named assumptions.

**PresentationProofs.** The invariant `IInv` is the conjunction of parts: the
two object tables agree; what a surface shows is held, and by it alone; what it
will show is not held yet; a callback waits in one place; a buffer is queued
for release once, after its surface let it go; what is on the screen, queued or
retained is still shown by a surface or waits for release in the queue that the
right event flushes. `InUseIsHeld` alone is not inductive: whether a release
is early depends on which queue it is in and what the CRTC will do next, and
this is what the parts record. The proof has one lemma per part for the
requests of clients and one for the steps of the loop. From it follow
`TearFreedom`, `TablesAgree`, `ReleasesNotStranded`, `BuffersStay`, `BatchStays`
and `CallbacksWait`. Each theorem assumes what it needs and no more, which is why
the invariant has layers. `TypeCorrect` and `ReleasesNotStranded` hold in every
instance. `TablesAgree` and `BuffersStay` rest on `IdsInv` (which ids exist and what
the queues hold of them) and need `OneOwner`: a descriptor is not reused. Clients may
break the rules of release, and screenshots may be taken. `BatchStays` and
`CallbacksWait` need only that there are no screenshots. `TearFreedom` needs
`Orderly`: `OneOwner`, clients obey release events, and with direct scanout there are no
screenshots and SetCrtc makes up for a flip that is refused. Without these the statements are wrong, see below.

**DriFlipProofs.** The invariant has two layers. `FlipInv` is about framebuffers and
holds without screenshots: `Aimed` (the framebuffer on its way to the screen is the
front buffer, the GPU's or a client's), `InFlight` (where the flip is between submission and
completion, and which events can be unread) and `Registered`. It survives a SetCrtc
that fails, so `CompletionIsTrue`, `ScreenIsNotDrawn` and `InUseStaysRegistered` do not
exclude that. A framebuffer in use stays registered except inside `deactivate`, whose
early removal is shown below; `InUseRegistered` is the same for a VT that is never left.
`CopyInv` is about pixels: `CopiesKnown` (the shadow is the last frame while it may be
drawn over; with at most one full copy left the front buffer is the shadow, but for the
rows that are due in place;
`BackBufferCovered`) and `FrontAimed` (which framebuffer is on its way, by how many full
copies are due). It needs also that SetCrtc does not fail, as a frame that could not be
shown has been booked as copied. `CopyShows` is the arithmetic heart: copying the hull of the two
spans makes the buffer the new picture. It needs that the least and
greatest changed column exist, which is proved by well-founded induction on
finite sets of numbers, cited at one fixed relation. The refinement
`ImplementsDisplay` maps each step to one of `Display` or to a stutter; it and
`BackBufferIsCovered` assume `Orderly`: no screenshots, and SetCrtc does not fail.

**WindowFocusProofs.** `Good(d)` says of one desk that its fields have their
shape, that keyboards were told of the surface that counts as entered, and that
focus and entered surface exist. Lemmas about the operators (`EnsureFacts`,
`ActivateFacts`, `HideFacts`, `ForgetFacts`, ...) show that they keep this,
whatever table they see; each action then has a short lemma. `Invariance`,
`KeyboardsAreTold` and `NoStaleFocus` hold in every instance. Under
`ASSUME NoGrabs` there is the second invariant `Calm`: the entered surface is the
focus or none, a focused window is minimized only while its own batch is still to deal
with it, and, if the VT is never left, no keyboard believes itself focused but those of
the entered surface. Its point is that whoever must
be sent a leave can be looked up at that moment: the holder of the keyboard is
the focus, so it is not the client taken out of the table, or nothing is sent.
`KeyboardFollows` and `HiddenLosesFocus` follow, and with `VTKept` also
`NobodyElseListens`. With grabs none of the three holds: a move request changes
the focus, to a window minimized in the same batch too, and leaves the keyboard where it
is until the next key or click.

**WindowFocusOrderProofs.** `TypeCorrect`, `NoWindowTwice` and `FocusIsPassedOn`, in every
instance. The order of windows is filtered by `Those`, a recursive function; that the
function exists, keeps what is in the set and names nothing twice is proved by induction
over sets of numbers (`SetInduction`, from the same well-founded order as above), which
needs no operator as a parameter. `RaiseFacts` is what this gives for `raise_surface`,
for each order in which the maps are iterated. `TopmostKeepsOrder` says that
`focus_topmost_visible` finds a window if one is visible, as the order then has a last
one that is: from it each action that takes the focus away passes it on, or somebody
waits for it (`Awaited`).

**ClipboardProofs.** `TypeCorrect` is the type invariant made inductive (`Typed` says of
each queue and table what is in it). `AlwaysServable` and `HeadStaysCurrent` follow from
`Serves`: the daemon's source offers what `g.current` has, and that is the first entry.
`OffersNeverLost` needs to know what the events on their way will do: `Queued` says of
`toDaemon` that each offer announced is unknown to the daemon until then and is selected
by the event that comes next to it.

**ClipboardOwnerProofs.** `OwnersAgree` needs the requests and events on their way
(`Agreement`): the daemon's source is the selection, or a request will make it so, or
the event that says otherwise is coming, and no request destroys it; each former source
that is the selection, or that a request still selects, is destroyed by a later request.
That an id is not used again while a request or `cancelled` for it is on its way is part
of the model (`FreeOwn`), as object ids are of the protocol.

**ClipboardKeepProofs.** `KeepsCopies` follows one copy through all the queues, the list
of types and the pipe. `Stage` says where it is: its source has no type yet
(`Unannounced`) or went without one (`Abandoned`); the events that announce it are on
their way (`Announced`); the daemon has its types (`Named`) and waits to drain the offer
(`Waiting`); `take_offer` has some contents and waits for the next (`Reading`); or the
history has it first, whole (`HasIt`). Each action either leaves the stage, moves the copy
to the next, or is one that `KeepsLatest` excludes and marks the copy spoiled. It
needs `Accounting` (no offer but this one is drained next) and `Agreement` (no request on
its way takes the selection from the copy). The order in which the compositor lists the
types is any (`PermutationLists`), and each is asked for as each position of the list is
passed. Assumption `ValueAssumption`: that a pipe gave no data is told apart from what
it may give.

**ShellWorkersProofs.** `Guarded` (a guard has one holder), `Awaiting` and `Named` (a
worker knows a child exactly while it waits for it, and nobody else knows it) give
`ChildrenAreAwaited`: when the loop has all guards no worker is waiting, so whatever
`waitpid(-1)` returns is nobody's. `OutcomesAreCurrent` needs what holds on the way to
rest: what was accepted is queued or being done (`Pending`), the snapshot a command is
compared with is what the radio does, but for the first one, which is compared with
nothing (`Current`), and the last power command of the queue is what is expected, or the
one being done if the queue has none (`Meant`), whatever the children around it do to the
radio. A step of another worker leaves all
this alone (`SameTruth`). `TypeCorrect` includes the bound of the queue.

Only model-checked: the liveness properties. Liveness under fairness is beyond the prover.
What they rest on is a matter of safety and proved: nothing that is waited for gets lost
on its way. `HeldBuffersAreTracked` (in every instance): each buffer the server holds is
shown by a surface or its release is queued. `CallbacksLeaveByFiring` (`OneOwner`): a
committed callback leaves its queue only by firing. `FlipsAreAnswerable` (no
screenshots): a flip that is waited for is still with the kernel or on the screen.
`AsleepShowsOutcome`: a loop that sleeps with no notification on its way shows each
worker at rest as it is. Its invariant `Vigilance` says that a snapshot not yet seen by
a sleeping loop is announced or its worker still has the mutex, and that the loop shows
the snapshot it saw last unless something is queued that will make another.
`EndedAreNoted`: a child that has ended stays noted until it is collected, also when
that was put off. What fairness adds, that the queues are emptied, the event comes and
the loop runs, is what TLC checks. `Settles` of the clipboard has no such half of its
own: `OffersAccounted` and `KeepsLatest` say where each offer is.

## Where the code departs from what it says

Each of these is a run that TLC reports a violation for.

* `WindowFocus_dialog`: a dialog destroyed in the order xdg-shell asks for
  (toplevel before surface) does not hand the focus to its parent, as the
  comment at `server.rs:1448` requires, since the parent is looked up through
  the object that is already gone.
* `Clipboard_overtaken`: a copy made while the previous one is being read is lost.
  `take_offer` empties `g.offer_mimes` at its end (`luna-clipboard.c:809`), which by then
  has the types of the newer offer; `drain_pending_offer` finds none and destroys that
  offer, and the daemon takes the selection with the older content.
* `ShellWorkers_player`: when the window of the AirPlay player is closed, the loop's
  `waitpid(-1)` (`luna-shell.c:7095`) may collect the player before the next frame looks
  for it. `ap_player_start_locked` then never finds that it ended, returns the pipe of
  the dead player forever, and `ap_player_stop` signals a number that may belong to
  another process. The comments at `luna-shell.c:12895` and `13030` say that the next
  frame starts the player again.

The passing runs leave out more behaviours. To see one, add the word to
`Allow` of the configuration and TLC reports the property:

| Add | to | TLC reports | What happens |
|---|---|---|---|
| `"fdreuse"` | `Presentation_screen.cfg` | `BuffersLeaveByRequest` | frame callbacks of a client that left stay queued under its descriptor; the next client with it has the object of that id deleted (`server.rs:910`) |
| `"reattach"` | `Presentation_screen.cfg` | `InUseIsHeld` | re-attaching the current buffer queues its release (`server.rs:1803`) |
| `"screenshot"` | `Presentation_screen.cfg` | `InUseIsHeld`, `BatchNeverGrows`, `HiddenCallbacksHeld` | a screenshot is composed during a flip, over a direct scanout or on another VT (`server.rs:810`) |
| `"screenshot"` alone | `DriFlip_software.cfg` | `NeverDrawsOnScreen` | a screenshot during a flip draws into the buffer still on the screen; the comment at `render/dri.rs:251` says the front buffer is never rewritten mid-scanout |
| `"fail"` | `Presentation_screen.cfg` | `InUseIsHeld` | a frame that was to replace a direct scanout is refused by the page flip and by SetCrtc (`render/dri.rs:1067-1090`); nothing is pending, so the client buffer that is still on the screen is released (`server.rs:9987`) |
| `"fail"` | `DriFlip_software.cfg` | `BackBufferCovered` | a frame that could not be shown has been booked as copied (`render/dri.rs:1191`) |
| `"vt"` | `DriFlip_buffers.cfg` | `InUseIsRegistered` | leaving the VT removes a retired framebuffer while it is still on the screen (`render/dri.rs:899`) |
| `"vt"` | `WindowFocus_focus.cfg` | `OneListener` | leaving the VT forgets who has the keyboard without a leave (`server.rs:10210`); if another window gets it next, both believe to have it |
| `"grab"` | `WindowFocus_focus.cfg` | `KbdFollowsFocus`, `HiddenHasNoFocus`, `OneListener` | an interactive move takes the focus to a window and leaves the keyboard where it is (`server.rs:7873`) |
| `"panel"` to `Roles` | `WindowFocus_focus.cfg`, invariant `ShortcutHitsFocused` | the same | with a panel focused, Super+Down takes the panel's bare id for a window and minimizes a window of another client that has that id (`server.rs:11358`) |

Three more belong here without contradicting a comment. When wifi was switched off no
network is listed, and the next refresh unblocks the radio (`luna-wifi.h:806`), which may
turn it on again though nobody asked for it; `OutcomeIsCurrent` says so of `expected`. A
history that could not be saved comes back in its older form after a restart
(`luna-clipboard.c:315`). A driver without page flips shows frames that are half drawn
(`render/dri.rs:701`).

Also, `wl_callback.done` is sent when a frame is submitted; the comment at
`server.rs:249` says it waits for scanout. And `on_sigchld` is installed without
SA_RESTART so that it "should wake an idle poll immediately" (`luna-shell.c:608`), but
the polls of the loop are called again after EINTR (`luna-shell.c:17537`), so an ended
child waits for the next event. The models follow the code.

## Not modelled

The compositor's other protocols (primary selection, drag and drop, text input, popups,
sessions), Xwayland, shell IPC, the input thread and the client library. Composition, GL
and fonts are pixels; the wire format and shared memory are conversions; the WebGL
backend is a development alternative to KMS. The rest of the desktop shell, which is
most of its lines, draws a user interface with a library that is not in the repository:
layout, widgets, settings, menus; each of its handlers runs alone on the loop's thread,
and what it shares with others is in `ShellWorkers`. AirDrop and AirPlay speak other
systems' protocols and cryptography. Skins, cursors, tools and examples have no
behaviour. `PROJECT.json` lists the parts with their files. Of the repository's C the
models cover the clipboard daemon and the shell's loop; the compositor, which they
cover most of, is Rust.

## Plan

The order is by how much of the desktop depends on a part and how hard it is to
test. Done: `Presentation`, `Display` and `DriFlip`, `WindowFocus`, `Selection` and
`Clipboard`, `ShellWorkers`, each with its proofs. What would come next:

1. Drag and drop and the primary selection beside `Selection`: for a drag exactly one
   end at source and target, with clients that leave and ids that are reused.
2. The client library's receive buffer with roundtrips nested in listeners and two
   reading threads, against an abstract queue that delivers each event once and in
   order.
3. The input thread: two keyboards, dropped reports and unplugging, against the keys
   that are really down.
4. Popups and text input, composed with `WindowFocus` for the focus.
5. Shell IPC, Xwayland and session records: one writer and one reader with crashes and
   messages over two connections.

No module that is proved about declares a recursive operator.
