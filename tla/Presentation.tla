---------------------------- MODULE Presentation ----------------------------
(***************************************************************************)
(* The presentation path of the luna compositor (wayland-server-rs): the   *)
(* epoll loop Server::run, the wl_surface / wl_buffer requests that feed   *)
(* it, the frame-callback and buffer-release queues it drains, and the     *)
(* KMS backend seen from above (DriFlip has its detail).                   *)
(*                                                                         *)
(* The compositor is one thread, so a request handler is one step.  pc is  *)
(* the place of that thread in the loop body; requests, signals and shell  *)
(* commands are only served at "block" (they wake epoll_wait) or "events"; *)
(* the kernel's vblank can happen anywhere.                                *)
(*                                                                         *)
(* `view` is the client's own book-keeping of its object ids.  It is not a *)
(* variable of the program: it records what the events sent so far allow   *)
(* the client to believe, and the properties compare it with the server's  *)
(* object table `role`.                                                    *)
(***************************************************************************)
EXTENDS Naturals, FiniteSets

CONSTANTS
  Fd,       \* descriptors a client connection can have
  Surf,     \* wl_surface ids of one client
  Cursor,   \* those whose surface is the client's cursor image
  Id,       \* the other object ids of one client: wl_buffers, wl_callbacks
  Null,     \* the NULL buffer
  Keep,     \* "no wl_surface.attach since the last commit"
  Own,      \* a framebuffer of the compositor itself
  Allow     \* which optional behaviours this instance has, see below

(* "gpu"        the backend has a GPU composer (can_gpu_compose)           *)
(* "direct"     a client buffer may become the KMS framebuffer: the        *)
(*              compositor runs without an input channel (input_rx = None) *)
(* "screenshot" the shell asks for screenshots                             *)
(* "vt"         the session is switched away from and back to              *)
(* "leave"      clients disconnect                                         *)
(* "fdreuse"    a new client gets the descriptor of a closed one           *)
(* "reattach"   a client commits a buffer the server still holds           *)
(* "fail"       a page flip can be refused and SetCrtc fail as well        *)
Behaviours == {"gpu", "direct", "screenshot", "vt", "leave", "fdreuse", "reattach", "fail"}

ASSUME CursorAssumption == Cursor \subseteq Surf
ASSUME AllowAssumption == Allow \subseteq Behaviours
ASSUME NullAssumption == Null \notin Id /\ Keep \notin Id /\ Null # Keep
ASSUME OwnAssumption == Own \notin Fd \X Id

VARIABLES
  pc,             \* where Server::run is
  clients,        \* Server.clients: descriptors with a live connection
  fresh,          \* accepted in this iteration: not in its event list
  closed,         \* descriptors that have been closed once
  role,           \* Client.objects, the ids in Id
  view,           \* the client's view of the same ids
  surf,           \* Client.objects, the surfaces
  frame_done, buffer_release, in_flight_buffer_release,
  dirty, cursor_dirty,
  pending_screenshot,
  path,           \* how the last frame was made (last_present_software)
  retained,       \* retained_gpu_surfaces: buffers of the last GPU scene
  active,         \* DriBackend.active
  flip,           \* the page flip in the kernel
  events,         \* flip events readable on the DRM descriptor
  onscreen,       \* what the CRTC scans out
  pending,        \* what the queued flip will make it scan out
  direct          \* DriBackend.direct: the imported client buffer

clientVars == <<clients, fresh, closed, role, view, surf>>
queueVars == <<frame_done, buffer_release, in_flight_buffer_release>>
sceneVars == <<dirty, cursor_dirty, pending_screenshot, path, retained>>
kmsVars == <<active, flip, events, onscreen, pending, direct>>
vars == <<pc, clientVars, queueVars, sceneVars, kmsVars>>

Entry == Fd \X Id
NoSurface == [live |-> FALSE, cur |-> Null, pend |-> Keep, frames |-> {}]
NewSurface == [live |-> TRUE, cur |-> Null, pend |-> Keep, frames |-> {}]
Surface == [live: BOOLEAN, cur: Id \cup {Null}, pend: Id \cup {Null, Keep},
            frames: SUBSET Id]

(* present_busy(): a flip is outstanding. *)
Busy == flip # "none"

(* A wl_buffer the server still has an object for. *)
LiveBuffer(x) == x[1] \in clients /\ role[x[1]][x[2]] = "buffer"

(***************************************************************************)
(* flush_presentation_queues.  The queues are vectors in the program; they *)
(* are only ever appended to and drained whole, so sets are enough.        *)
(***************************************************************************)

(* wl_buffer.release for the entries of q that still have a wl_buffer. *)
Released(q) ==
  [fd \in Fd |-> [i \in Id |->
     IF <<fd, i>> \in q /\ LiveBuffer(<<fd, i>>) THEN "idle" ELSE view[fd][i]]]

(* wl_callback.done and wl_display.delete_id for the entries of q: the     *)
(* object is removed whatever it is, and the client may use its id again.  *)
Fired(table, q) ==
  [fd \in Fd |-> [i \in Id |->
     IF <<fd, i>> \in q /\ fd \in clients THEN "none" ELSE table[fd][i]]]

(* Mutants: the callback objects are not removed; the two queues, of one   *)
(* type in the program, are passed in the wrong order.                     *)
FlushKeepsCallbacks(releases, callbacks) ==
  view' = Fired(Released(releases), callbacks) /\ role' = role
FlushSwapped(releases, callbacks) ==
  /\ view' = Fired(Released(callbacks), releases)
  /\ role' = Fired(role, releases)

(* Both, the way every caller does it: releases first. *)
FlushQueues(releases, callbacks) ==
  /\ view' = Fired(Released(releases), callbacks)
  /\ role' = Fired(role, callbacks)

NoEvents == UNCHANGED <<view, role>>

(* Mutant: a completion sends nothing. *)
FlushNothingInFlight == UNCHANGED queueVars /\ NoEvents

(* complete_presentation, flush_aborted_in_flight_presentation: the frame  *)
(* callbacks in flight are always an empty list, nothing fills it.         *)
FlushInFlight ==
  /\ FlushQueues(in_flight_buffer_release, {})
  /\ in_flight_buffer_release' = {}
  /\ UNCHANGED <<frame_done, buffer_release>>

(* Mutant: releases do not wait for the flip. *)
FinishNow ==
  /\ frame_done' = {} /\ buffer_release' = {}
  /\ UNCHANGED in_flight_buffer_release
  /\ FlushQueues(buffer_release, frame_done)

(* finish_or_defer_presentation_side_effects, after the backend's step.    *)
FinishOrDefer ==
  /\ frame_done' = {} /\ buffer_release' = {}
  /\ IF flip' # "none"
     THEN /\ in_flight_buffer_release' = in_flight_buffer_release \cup buffer_release
          /\ FlushQueues({}, frame_done)
     ELSE /\ UNCHANGED in_flight_buffer_release
          /\ FlushQueues(buffer_release, frame_done)

(***************************************************************************)
(* The backend.                                                            *)
(***************************************************************************)

(* complete_flip: the outstanding flip has reached the screen. *)
CompleteFlip ==
  /\ flip' = "none" /\ pending' = Own
  /\ UNCHANGED <<active, onscreen, direct>>
  /\ FlushInFlight

(* poll_presentation: recovers a flip whose event is overdue.              *)
Poll ==
  \/ /\ flip = "overdue"
     /\ CompleteFlip
     /\ events' = IF "current" \in events THEN {"stale"} ELSE events
  \/ /\ flip # "overdue"
     /\ UNCHANGED <<kmsVars, queueVars>> /\ NoEvents

(* Hand a new picture to the CRTC: a page flip, or a blocking SetCrtc.     *)
(* flip_fb refuses while a flip is outstanding.                            *)
Show(t) ==
  /\ ~Busy
  /\ \/ flip' = "queued" /\ pending' = t /\ UNCHANGED onscreen
     \/ onscreen' = t /\ UNCHANGED <<flip, pending>>
  /\ direct' = (IF t = Own THEN Own ELSE t)
  /\ UNCHANGED <<active, events>>

(* present_damage puts nothing on the CRTC: no pixel changed, the VT is not *)
(* ours, the flip is refused because one is outstanding, or flip_fb fails, *)
(* page flip and SetCrtc both.  While a client buffer is scanned out the   *)
(* shadow is invalid, so a software frame always changes pixels.  GPU and  *)
(* direct frames whose flip_fb fails fall back to a software frame.        *)
ShowNothing ==
  /\ Busy \/ ~active \/ direct = Own \/ "fail" \in Allow
  /\ UNCHANGED kmsVars

(* The CRTC takes the queued framebuffer over at vblank.  The completion   *)
(* event can get lost.                                                     *)
Vblank ==
  /\ flip = "queued"
  /\ flip' = "shown"
  /\ onscreen' = pending
  /\ events' \in {events, events \cup {"current"}}
  /\ UNCHANGED <<pc, clientVars, queueVars, sceneVars, active, pending, direct>>

(* Two refresh periods have passed since the flip was submitted. *)
GraceElapses ==
  /\ flip = "shown"
  /\ flip' = "overdue"
  /\ UNCHANGED <<pc, clientVars, queueVars, sceneVars, active, events,
                 onscreen, pending, direct>>

(***************************************************************************)
(* Requests of a client: recv_client and the handlers it dispatches to.    *)
(***************************************************************************)
Serving == pc \in {"block", "events"}

Request(fd) ==
  /\ Serving /\ fd \in clients \ fresh
  /\ pc' = "events"
  /\ UNCHANGED <<clients, fresh, closed, pending_screenshot, path, retained, kmsVars>>

(* wl_shm_pool.create_buffer *)
CreateBuffer(fd, i) ==
  /\ Request(fd)
  /\ view[fd][i] = "none"
  /\ role' = [role EXCEPT ![fd][i] = "buffer"]
  /\ view' = [view EXCEPT ![fd][i] = "idle"]
  /\ UNCHANGED <<surf, queueVars, dirty, cursor_dirty>>

(* wl_buffer.destroy: no delete_id is sent, the id is never free again.    *)
DestroyBuffer(fd, i) ==
  /\ Request(fd)
  /\ view[fd][i] \in {"idle", "held"}
  /\ role' = [role EXCEPT ![fd][i] = "none"]
  /\ view' = [view EXCEPT ![fd][i] = "zombie"]
  /\ dirty' = TRUE
  /\ UNCHANGED <<surf, queueVars, cursor_dirty>>

(* wl_compositor.create_surface *)
CreateSurface(fd, s) ==
  /\ Request(fd)
  /\ ~surf[fd][s].live
  /\ surf' = [surf EXCEPT ![fd][s] = NewSurface]
  /\ UNCHANGED <<role, view, queueVars, dirty, cursor_dirty>>

(* The buffer a surface shows, as a queue entry, if it shows one. *)
CurrentOf(fd, s) ==
  IF surf[fd][s].cur = Null THEN {} ELSE {<<fd, surf[fd][s].cur>>}

(* Mutant: a destroyed surface does not give its buffer back. *)
DestroySurfaceKeepsBuffer(fd, s) ==
  /\ Request(fd)
  /\ surf[fd][s].live
  /\ surf' = [surf EXCEPT ![fd][s] = NoSurface]
  /\ dirty' = TRUE
  /\ UNCHANGED <<role, view, queueVars, cursor_dirty>>

(* wl_surface.destroy; callbacks not yet committed die with the surface.   *)
DestroySurface(fd, s) ==
  /\ Request(fd)
  /\ surf[fd][s].live
  /\ surf' = [surf EXCEPT ![fd][s] = NoSurface]
  /\ buffer_release' = buffer_release \cup CurrentOf(fd, s)
  /\ dirty' = TRUE
  /\ UNCHANGED <<role, view, frame_done, in_flight_buffer_release, cursor_dirty>>

(* wl_surface.attach.  A client that obeys the release events attaches     *)
(* only buffers the server has given back.                                 *)
Attach(fd, s, b) ==
  /\ Request(fd)
  /\ surf[fd][s].live
  /\ b # Null =>
       \/ view[fd][b] = "idle" /\ \A t \in Surf : surf[fd][t].pend # b
       \/ "reattach" \in Allow /\ view[fd][b] = "held"
  /\ surf' = [surf EXCEPT ![fd][s].pend = b]
  /\ UNCHANGED <<role, view, queueVars, dirty, cursor_dirty>>

(* wl_surface.frame *)
Frame(fd, s, i) ==
  /\ Request(fd)
  /\ surf[fd][s].live
  /\ view[fd][i] = "none"
  /\ role' = [role EXCEPT ![fd][i] = "callback"]
  /\ view' = [view EXCEPT ![fd][i] = "callback"]
  /\ surf' = [surf EXCEPT ![fd][s].frames = @ \cup {i}]
  /\ UNCHANGED <<queueVars, dirty, cursor_dirty>>

(* The buffer a commit replaces. *)
ReplacedNew(fd, s) ==        \* mutant: the incoming one instead
  IF surf[fd][s].pend \in Id THEN {<<fd, surf[fd][s].pend>>} ELSE {}
Replaced(fd, s) ==
  IF surf[fd][s].pend # Keep THEN CurrentOf(fd, s) ELSE {}

(* The surface after the commit; `installs` says that the attached id is   *)
(* a wl_buffer.                                                            *)
CommittedAlways(S, installs) ==   \* mutant: pending_attach is not looked at
  [live |-> TRUE, pend |-> Keep, frames |-> {}, cur |-> S.pend]
Committed(S, installs) ==
  [live |-> TRUE, pend |-> Keep, frames |-> {},
   cur |-> IF installs THEN S.pend ELSE IF S.pend # Keep THEN Null ELSE S.cur]

(* wl_surface.commit: surface_commit.  An attached id that is no longer a  *)
(* wl_buffer unmaps the surface.  Only a commit that attaches or damages   *)
(* asks for a new frame; one of the cursor image asks for a cursor frame.  *)
Commit(fd, s, damaged) ==
  LET S == surf[fd][s]
      attach == S.pend # Keep
      installs == attach /\ S.pend # Null /\ LiveBuffer(<<fd, S.pend>>)
      visual == attach \/ damaged
  IN
  /\ Request(fd)
  /\ S.live
  /\ frame_done' = frame_done \cup {<<fd, i>> : i \in S.frames}
  /\ buffer_release' = buffer_release \cup Replaced(fd, s)
  /\ surf' = [surf EXCEPT ![fd][s] = Committed(S, installs)]
  /\ view' = IF installs THEN [view EXCEPT ![fd][S.pend] = "held"] ELSE view
  /\ dirty' = (dirty \/ (visual /\ s \notin Cursor))
  /\ cursor_dirty' = (cursor_dirty \/ (visual /\ s \in Cursor))
  /\ UNCHANGED <<role, in_flight_buffer_release>>

(* accept_clients: the kernel hands out a free descriptor. *)
Connect(fd) ==
  /\ Serving /\ fd \notin clients
  /\ fd \in closed => "fdreuse" \in Allow
  /\ pc' = "events"
  /\ clients' = clients \cup {fd}
  /\ fresh' = fresh \cup {fd}
  /\ role' = [role EXCEPT ![fd] = [i \in Id |-> "none"]]
  /\ view' = [view EXCEPT ![fd] = [i \in Id |-> "none"]]
  /\ surf' = [surf EXCEPT ![fd] = [s \in Surf |-> NoSurface]]
  /\ UNCHANGED <<closed, queueVars, sceneVars, kmsVars>>

(* recv_client, the disconnect path: the object table goes, the entries of *)
(* the queues stay.                                                        *)
Disconnect(fd) ==
  /\ Serving /\ fd \in clients \ fresh /\ "leave" \in Allow
  /\ pc' = "events"
  /\ clients' = clients \ {fd}
  /\ closed' = closed \cup {fd}
  /\ role' = [role EXCEPT ![fd] = [i \in Id |-> "none"]]
  /\ view' = [view EXCEPT ![fd] = [i \in Id |-> "none"]]
  /\ surf' = [surf EXCEPT ![fd] = [s \in Surf |-> NoSurface]]
  /\ dirty' = TRUE
  /\ UNCHANGED <<fresh, queueVars, cursor_dirty, pending_screenshot, path,
                 retained, kmsVars>>

ClientStep ==
  \E fd \in Fd :
     \/ Connect(fd) \/ Disconnect(fd)
     \/ \E i \in Id : CreateBuffer(fd, i) \/ DestroyBuffer(fd, i)
     \/ \E s \in Surf :
          \/ CreateSurface(fd, s) \/ DestroySurface(fd, s)
          \/ \E b \in Id \cup {Null} : Attach(fd, s, b)
          \/ \E i \in Id : Frame(fd, s, i)
          \/ \E damaged \in BOOLEAN : Commit(fd, s, damaged)

(***************************************************************************)
(* Signals, shell commands and input.                                      *)
(***************************************************************************)

(* SIGUSR1: the VT is being switched away.  A flip that was queued is      *)
(* cancelled, but its event may still arrive.                              *)
SwitchAway ==
  /\ Serving /\ "vt" \in Allow
  /\ pc' = "events"
  /\ IF active
     THEN /\ active' = FALSE
          /\ flip' = "none" /\ pending' = Own /\ onscreen' = Own
          /\ \/ events' = IF "current" \in events THEN {"stale"} ELSE events
             \/ flip = "queued" /\ events' = events \cup {"stale"}
          /\ UNCHANGED direct
     ELSE UNCHANGED kmsVars
  /\ FlushInFlight
  /\ UNCHANGED <<clients, fresh, closed, surf, sceneVars>>

(* SIGUSR2: the VT is ours again, unless DRM master cannot be regained. *)
SwitchBack ==
  /\ Serving /\ "vt" \in Allow
  /\ pc' = "events"
  /\ \/ /\ ~active
        /\ active' = TRUE /\ direct' = Own
        /\ flip' = "none" /\ pending' = Own /\ onscreen' = Own
     \/ UNCHANGED <<active, direct, flip, pending, onscreen>>
  /\ dirty' = TRUE
  /\ UNCHANGED <<clientVars, queueVars, cursor_dirty, pending_screenshot, path,
                 retained, events>>

(* The shell command "screenshot". *)
AskScreenshot ==
  /\ Serving /\ "screenshot" \in Allow
  /\ pc' = "events"
  /\ pending_screenshot' = TRUE
  /\ UNCHANGED <<clientVars, queueVars, dirty, cursor_dirty, path, retained, kmsVars>>

(* Pointer motion: only the cursor has to be redrawn. *)
MovePointer ==
  /\ Serving /\ "direct" \notin Allow
  /\ pc' = "events"
  /\ cursor_dirty' = TRUE
  /\ UNCHANGED <<clientVars, queueVars, dirty, pending_screenshot, path, retained, kmsVars>>

(* The DRM descriptor is readable: dispatch_events drains it, and only an  *)
(* event that carries the pending framebuffer's id completes the flip.     *)
DispatchEvents ==
  /\ Serving /\ events # {}
  /\ pc' = "events"
  /\ events' = {}
  /\ IF "current" \in events
     THEN CompleteFlip
     ELSE UNCHANGED <<active, flip, onscreen, pending, direct, queueVars>> /\ NoEvents
  /\ UNCHANGED <<clients, fresh, closed, surf, sceneVars>>

(***************************************************************************)
(* The loop body.                                                          *)
(***************************************************************************)

(* Top of the loop: the first poll_presentation. *)
PollTop ==
  /\ pc = "top" /\ pc' = "block"
  /\ Poll
  /\ UNCHANGED <<clients, fresh, closed, surf, sceneVars>>

(* epoll_wait returns without an event: its timeout is 0 when there is     *)
(* work, two refresh periods while a flip is outstanding, else infinite.   *)
WorkWithoutCallbacks == active /\ (dirty \/ cursor_dirty)   \* mutant
Work == active /\ (dirty \/ cursor_dirty \/ frame_done # {} \/ buffer_release # {})

(* Mutant: no timeout while a flip is outstanding, as the code once was. *)
TimeoutNotBusy ==
  /\ pc = "block" /\ pc' = "events"
  /\ Work /\ ~Busy
  /\ UNCHANGED <<clientVars, queueVars, sceneVars, kmsVars>>

Timeout ==
  /\ pc = "block" /\ pc' = "events"
  /\ Work \/ Busy
  /\ UNCHANGED <<clientVars, queueVars, sceneVars, kmsVars>>

(* The events of this iteration are served: the second poll_presentation. *)
PollAgain ==
  /\ pc = "events" /\ pc' = "capture"
  /\ fresh' = {}
  /\ Poll
  /\ UNCHANGED <<clients, closed, surf, sceneVars>>

(* The buffers of all live surfaces: what a composite reads. *)
Scene == {x \in Entry : \E s \in Surf : surf[x[1]][s].cur = x[2]}
Windows == {x \in Entry : \E s \in Surf \ Cursor : surf[x[1]][s].cur = x[2]}

(* capture_screenshot: a software composite, whatever the backend is doing. *)
Capture ==
  /\ pc = "capture" /\ pc' = "frame"
  /\ pending_screenshot
  /\ pending_screenshot' = FALSE
  /\ ShowNothing \/ (active /\ Show(Own))
  /\ FinishOrDefer
  /\ dirty' = TRUE
  /\ path' = "software" /\ retained' = {}
  /\ UNCHANGED <<clients, fresh, closed, surf, cursor_dirty>>

NoCapture ==
  /\ pc = "capture" /\ pc' = "frame"
  /\ ~pending_screenshot
  /\ UNCHANGED <<clientVars, queueVars, sceneVars, kmsVars>>

MayDrawBusy == pc = "frame" /\ active      \* mutant: not gated on the flip
MayDraw == pc = "frame" /\ active /\ ~Busy

AfterFrame == UNCHANGED <<clients, fresh, closed, surf, pending_screenshot>>

(* Mutant: the retained GPU scene survives a software frame. *)
CompositeSoftwareRetains ==
  /\ MayDraw /\ dirty
  /\ pc' = "top"
  /\ ShowNothing \/ Show(Own)
  /\ path' = "software" /\ UNCHANGED retained
  /\ dirty' = FALSE /\ cursor_dirty' = FALSE
  /\ FinishOrDefer
  /\ AfterFrame

(* composite_and_present on the CPU into the compositor's own buffers. *)
CompositeSoftware ==
  /\ MayDraw /\ dirty
  /\ pc' = "top"
  /\ ShowNothing \/ Show(Own)
  /\ path' = "software" /\ retained' = {}
  /\ dirty' = FALSE /\ cursor_dirty' = FALSE
  /\ FinishOrDefer
  /\ AfterFrame

(* composite_and_present on the GPU; the scene is kept for cursor frames. *)
CompositeGpu ==
  /\ MayDraw /\ dirty
  /\ "gpu" \in Allow /\ Windows # {}
  /\ pc' = "top"
  /\ Show(Own)
  /\ path' = "gpu" /\ retained' = Windows
  /\ dirty' = FALSE /\ cursor_dirty' = FALSE
  /\ FinishOrDefer
  /\ AfterFrame

(* composite_and_present of a single window's buffer, scanned out itself;  *)
(* the buffer that is imported already is not flipped to again.            *)
CompositeDirect ==
  /\ MayDraw /\ dirty
  /\ "direct" \in Allow
  /\ pc' = "top"
  /\ \E t \in Windows :
       /\ Windows = {t}
       /\ IF direct = t THEN UNCHANGED kmsVars ELSE Show(t)
  /\ path' = "direct" /\ retained' = {}
  /\ dirty' = FALSE /\ cursor_dirty' = FALSE
  /\ FinishOrDefer
  /\ AfterFrame

(* repaint_cursor_only over the last software frame, or over the retained  *)
(* GPU scene.                                                              *)
RepaintCursor ==
  /\ MayDraw /\ ~dirty /\ cursor_dirty
  /\ pc' = "top"
  /\ \/ path = "software" /\ (ShowNothing \/ Show(Own))
     \/ path # "software" /\ retained # {} /\ Show(Own)
  /\ cursor_dirty' = FALSE
  /\ FinishOrDefer
  /\ UNCHANGED <<dirty, path, retained>>
  /\ AfterFrame

(* repaint_cursor_only finds nothing it can reuse: a full frame is next. *)
RepaintCursorFails ==
  /\ MayDraw /\ ~dirty /\ cursor_dirty
  /\ pc' = "top"
  /\ retained' \in {retained, {}}
  /\ path = "software" => retained' = retained
  /\ path # "software" => retained' = {}
  /\ dirty' = TRUE
  /\ NoEvents
  /\ UNCHANGED <<cursor_dirty, path, queueVars, kmsVars>>
  /\ AfterFrame

(* flush_presentation_side_effects: nothing to draw, only events to send. *)
FlushSideEffects ==
  /\ MayDraw /\ ~dirty /\ ~cursor_dirty
  /\ pc' = "top"
  /\ frame_done' = {} /\ buffer_release' = {}
  /\ FlushQueues(buffer_release, frame_done)
  /\ UNCHANGED <<in_flight_buffer_release, dirty, cursor_dirty, path, retained, kmsVars>>
  /\ AfterFrame

(* A flip is outstanding: the frame waits. *)
HoldFrame ==
  /\ pc = "frame" /\ active /\ Busy
  /\ pc' = "top"
  /\ UNCHANGED <<clientVars, queueVars, sceneVars, kmsVars>>

(* Mutant: everything is flushed on a hidden VT. *)
HiddenFrameFires ==
  /\ pc = "frame" /\ ~active
  /\ pc' = "top"
  /\ frame_done' = {} /\ buffer_release' = {}
  /\ FlushQueues(buffer_release, frame_done)
  /\ UNCHANGED <<in_flight_buffer_release, dirty, cursor_dirty, path, retained, kmsVars>>
  /\ AfterFrame

(* Another VT owns the display: buffers go back, frame callbacks are held. *)
HiddenFrame ==
  /\ pc = "frame" /\ ~active
  /\ pc' = "top"
  /\ buffer_release' = {}
  /\ FlushQueues(buffer_release, {})
  /\ UNCHANGED <<frame_done, in_flight_buffer_release, dirty, cursor_dirty,
                 path, retained, kmsVars>>
  /\ AfterFrame

Draw == CompositeSoftware \/ CompositeGpu \/ CompositeDirect \/ RepaintCursor
          \/ RepaintCursorFails \/ FlushSideEffects \/ HoldFrame \/ HiddenFrame

LoopStep == PollTop \/ Timeout \/ PollAgain \/ Capture \/ NoCapture \/ Draw

SessionStep == SwitchAway \/ SwitchBack \/ AskScreenshot \/ MovePointer

Init ==
  /\ pc = "top"
  /\ clients = {} /\ fresh = {} /\ closed = {}
  /\ role = [fd \in Fd |-> [i \in Id |-> "none"]]
  /\ view = [fd \in Fd |-> [i \in Id |-> "none"]]
  /\ surf = [fd \in Fd |-> [s \in Surf |-> NoSurface]]
  /\ frame_done = {} /\ buffer_release = {} /\ in_flight_buffer_release = {}
  /\ dirty = TRUE /\ cursor_dirty = FALSE
  /\ pending_screenshot = FALSE
  /\ path = "none" /\ retained = {}
  /\ active = TRUE /\ flip = "none" /\ events = {}
  /\ onscreen = Own /\ pending = Own /\ direct = Own

Next == ClientStep \/ SessionStep \/ DispatchEvents \/ Vblank \/ GraceElapses \/ LoopStep

(* The loop runs, a readable DRM descriptor is served, and time passes.    *)
Fairness ==
  /\ WF_vars(LoopStep)
  /\ WF_vars(Vblank)
  /\ WF_vars(GraceElapses)

Spec == Init /\ [][Next]_vars
FairSpec == Spec /\ Fairness

-----------------------------------------------------------------------------
(* Every variable has its type. *)
ClientType ==
  /\ clients \subseteq Fd /\ fresh \subseteq Fd /\ closed \subseteq Fd
  /\ surf \in [Fd -> [Surf -> Surface]]
TableType ==
  /\ role \in [Fd -> [Id -> {"none", "buffer", "callback"}]]
  /\ view \in [Fd -> [Id -> {"none", "idle", "held", "zombie", "callback"}]]
QueueType ==
  /\ frame_done \subseteq Entry
  /\ buffer_release \subseteq Entry /\ in_flight_buffer_release \subseteq Entry
SceneType ==
  /\ pc \in {"top", "block", "events", "capture", "frame"}
  /\ dirty \in BOOLEAN /\ cursor_dirty \in BOOLEAN /\ pending_screenshot \in BOOLEAN
  /\ path \in {"none", "software", "gpu", "direct"}
  /\ retained \subseteq Entry
KmsType ==
  /\ active \in BOOLEAN
  /\ flip \in {"none", "queued", "shown", "overdue"}
  /\ events \subseteq {"current", "stale"}
  /\ onscreen \in Entry \cup {Own}
  /\ pending \in Entry \cup {Own}
  /\ direct \in Entry \cup {Own}
TypeOK == ClientType /\ TableType /\ QueueType /\ SceneType /\ KmsType

(* The client buffers the server or the display will still read: those of  *)
(* its surfaces, those scanned out or about to be, and those a cursor      *)
(* frame would draw again from the retained GPU scene.                     *)
InUse == {x \in Scene \cup ({onscreen, pending} \ {Own}) \cup (IF dirty THEN {} ELSE retained) :
            LiveBuffer(x)}

(* Tear freedom.  A buffer that will still be read has not been given back *)
(* to its client by wl_buffer.release, so the client does not draw into    *)
(* it.  Releases are queued by commits and destroys, moved between two     *)
(* queues, and sent by completions, cursor frames, VT switches and idle    *)
(* iterations: each is a chance to send one too early.  (Three behaviours  *)
(* of Allow do send one too early: "reattach", and, over a direct scanout, *)
(* "screenshot" and "fail".)                                               *)
InUseIsHeld == \A x \in InUse : view[x[1]][x[2]] = "held"

(* The server's object table and the client's agree on which ids are       *)
(* buffers and which are callbacks: no delete_id ever freed an id behind   *)
(* the client's back, and no object the client has was forgotten.          *)
ObjectTablesAgree ==
  \A fd \in clients, i \in Id :
    /\ role[fd][i] = "buffer" <=> view[fd][i] \in {"idle", "held"}
    /\ role[fd][i] = "callback" <=> view[fd][i] = "callback"

(* A wl_buffer leaves the object table only when its client destroys it or *)
(* goes: a delete_id never takes an object the client still uses.          *)
BuffersLeaveByRequest ==
  [][\A fd \in clients \cap clients', i \in Id :
       role[fd][i] = "buffer" /\ role'[fd][i] # "buffer" => view'[fd][i] = "zombie"]_vars

(* Releases wait in flight only while a flip is outstanding: there is      *)
(* always a completion left that sends them.                               *)
NoStrandedRelease == in_flight_buffer_release # {} => Busy

(* The batch that waits for a flip is only ever sent as a whole: no later  *)
(* frame adds to it, as finish_or_defer's debug assertion says.            *)
BatchNeverGrows ==
  [][in_flight_buffer_release # {} =>
       in_flight_buffer_release' \in {{}, in_flight_buffer_release}]_vars

(* While another VT owns the display no frame callback fires, so hidden    *)
(* applications stop animating.                                            *)
HiddenCallbacksHeld == [][~active /\ ~active' => frame_done \subseteq frame_done']_vars

(* Every committed frame callback fires, unless the VT is switched away:   *)
(* no client that paces itself by them ever stops.                         *)
CallbackFires ==
  \A x \in Entry : x \in frame_done /\ active ~> x \notin frame_done \/ ~active

(* A buffer that no surface shows any more is given back to its client.    *)
ReplacedBufferReturns ==
  \A x \in Entry :
    LiveBuffer(x) /\ view[x[1]][x[2]] = "held" /\ x \notin Scene
      ~> ~LiveBuffer(x) \/ view[x[1]][x[2]] # "held" \/ x \in Scene

(* A frame is made of all damage, or the display is taken away: neither a  *)
(* lost flip event nor an epoll_wait without timeout stops the loop.  (A   *)
(* frame that flip_fb fails to show counts as made: nothing repeats it.)   *)
DamageIsDrawn == dirty /\ active ~> ~dirty \/ ~active

=============================================================================
