------------------------------ MODULE DriFlip -------------------------------
(***************************************************************************)
(* The KMS backend, render/dri.rs: two dumb scanout buffers drawn in turn, *)
(* of which only the changed spans of each row are copied; page flips      *)
(* whose completion is an event that can be late or lost; framebuffers of  *)
(* the GPU and of clients that are retired when they leave the screen; and *)
(* the fall-back of drivers without page flips, which draws row by row     *)
(* into the buffer that the CRTC reads.                                    *)
(*                                                                         *)
(* The compositor above it is Server::run seen from here: it presents only *)
(* when the backend is active and not busy, and names the damage exactly   *)
(* as long as the previous software frame is still what it presented last. *)
(***************************************************************************)
EXTENDS Integers, FiniteSetsExt

CONSTANTS
  W, H,         \* the size of the screen
  Value,        \* what a pixel can be
  Junk,         \* the content of video memory nobody wrote yet
  Trim,         \* damage wider than this is copied without looking for equals
  FbId,         \* ids of framebuffers that are not the two dumb buffers
  NoFb,         \* no framebuffer
  Console,      \* the framebuffer of another VT
  Allow         \* which optional behaviours this instance has, see below

(* "gpu"        frames composed by the GPU into buffers of its own         *)
(* "direct"     client buffers as framebuffers                             *)
(* "noflip"     the driver turns out to have no page flips                 *)
(* "busy"       the driver can refuse a page flip with EBUSY               *)
(* "fail"       SetCrtc can fail as well                                   *)
(* "vt"         the session is switched away from and back to              *)
(* "screenshot" the shell asks for screenshots                             *)
Behaviours == {"gpu", "direct", "noflip", "busy", "fail", "vt", "screenshot"}

ASSUME SizeAssumption == W \in Nat \ {0} /\ H \in Nat \ {0} /\ Trim \in Nat
ASSUME AllowAssumption == Allow \subseteq Behaviours
ASSUME IdAssumption ==
  /\ {0, 1} \cap (FbId \cup {NoFb, Console}) = {}
  /\ NoFb \notin FbId /\ Console \notin FbId /\ NoFb # Console
ASSUME ValueAssumption == Value # {} /\ Junk \notin Value

Row == 0 .. H - 1
Cell == Row \X (0 .. W - 1)
Picture == [Cell -> Value]
Memory == [Cell -> Value \cup {Junk}]
Dumb == {0, 1}

ASSUME FbAssumption == NoFb \notin Memory

VARIABLES
  frame,                  \* the picture presented last (Server.fb)
  fb_valid,               \* Server.fb_valid and last_present_software
  polled,                 \* Server::run has polled since its last frame
  shadow, row_span_prev, full_copies, bufs, front,
  due,                    \* what copy_damaged has still to write of each row
  flip_pending, pending_fb_id, use_page_flip, front_present_pending,
  late,                   \* the time since flip_started allows a recovery
  active,                 \* "yes", "leaving" inside deactivate, or "no"
  presented,              \* a frame was handed over since the VT is ours
  gpu_fb, direct, retire,
  pic,                    \* the kernel: content of a registered framebuffer
  scanout,                \* the kernel: the framebuffer the CRTC reads
  queued,                 \* the kernel: the flip waiting for vblank
  drm_events              \* the kernel: flip events not read yet

serverVars == <<frame, fb_valid, polled>>
copyVars == <<shadow, row_span_prev, full_copies, bufs, due>>
flipVars == <<flip_pending, pending_fb_id, use_page_flip, front_present_pending, late>>
vtVars == <<active, presented>>
fbVars == <<gpu_fb, direct, retire, pic>>
kernelVars == <<scanout, queued, drm_events>>
vars == <<serverVars, copyVars, front, flipVars, vtVars, fbVars, kernelVars>>

(* present_busy *)
Busy == flip_pending \/ front_present_pending

-----------------------------------------------------------------------------
(***************************************************************************)
(* copy_damaged.  A span [lo, hi) of a row is empty when hi <= lo; damage  *)
(* is a rectangle [x0, x1) x [y0, y1).                                     *)
(***************************************************************************)
Span == [lo: 0 .. W, hi: 0 .. W]
Clean == [lo |-> 0, hi |-> 0]
Whole == [lo |-> 0, hi |-> W]
In(x, span) == span.lo <= x /\ x < span.hi
Empty(span) == span.hi <= span.lo

Damage == [x0: 0 .. W, x1: 0 .. W, y0: 0 .. H, y1: 0 .. H]
Full == [x0 |-> 0, x1 |-> W, y0 |-> 0, y1 |-> H]
Inside(c, d) == d.y0 <= c[1] /\ c[1] < d.y1 /\ d.x0 <= c[2] /\ c[2] < d.x1

(* The columns of row y, inside the damage, where p differs from shadow. *)
Changed(p, d, y) ==
  {x \in 0 .. W - 1 : Inside(<<y, x>>, d) /\ p[<<y, x>>] # shadow[<<y, x>>]}

(* What this present writes of row y into the shadow. *)
NewSpan(p, d, y) ==
  IF full_copies > 0 THEN Whole
  ELSE IF Changed(p, d, y) = {} THEN Clean
  ELSE IF d.x1 - d.x0 <= Trim
  THEN [lo |-> Min(Changed(p, d, y)), hi |-> Max(Changed(p, d, y)) + 1]
  ELSE [lo |-> d.x0, hi |-> d.x1]

(* The smallest span around two. *)
Hull(s, t) ==
  IF Empty(s) THEN t ELSE IF Empty(t) THEN s
  ELSE [lo |-> IF s.lo < t.lo THEN s.lo ELSE t.lo, hi |-> IF s.hi > t.hi THEN s.hi ELSE t.hi]

(* Mutant: the back buffer does not get what the last present wrote.       *)
WrittenNow(p, d, y) == NewSpan(p, d, y)

(* What it writes of row y into the buffer: the back buffer trails by one  *)
(* frame, so the previous present's span is due as well.                   *)
Written(p, d, y) == Hull(NewSpan(p, d, y), row_span_prev[y])

(* Mutant: the count of full copies is taken below zero.                   *)
CopiesLeftUnderflow == full_copies - 1

CopiesLeft == IF full_copies > 0 THEN full_copies - 1 ELSE 0

Wrote(p, d) == \E y \in Row : ~Empty(Written(p, d, y))

(* A buffer m after the spans s of p were copied into it. *)
Copied(m, p, s) == [c \in Cell |-> IF In(c[2], s[c[1]]) THEN p[c] ELSE m[c]]

(* Nobody sees the back buffer before it is flipped to, so its rows are    *)
(* copied in one step.  Without page flips the buffer is on the screen:    *)
(* its rows are still due.                                                 *)
CopyDamaged(p, d, back) ==
  LET spans == [y \in Row |-> Written(p, d, y)] IN
  /\ shadow' = Copied(shadow, p, [y \in Row |-> NewSpan(p, d, y)])
  /\ row_span_prev' = [y \in Row |-> NewSpan(p, d, y)]
  /\ full_copies' = CopiesLeft
  /\ IF use_page_flip
     THEN bufs' = [bufs EXCEPT ![back] = Copied(@, p, spans)] /\ due' = due
     ELSE due' = spans /\ bufs' = bufs

(* copy_damaged is still writing: the thread does nothing else. *)
Copying == \E y \in Row : ~Empty(due[y])

LastRow(y) == Copying /\ ~Empty(due[y]) /\ \A r \in Row \ {y} : Empty(due[r])

(* The buffer on the screen with row y of the frame. *)
RowWritten(y) == [c \in Cell |->
  IF c[1] = y /\ In(c[2], due[y]) THEN frame[c] ELSE bufs[front][c]]

(* The next row of an update in place; after the last one the wait for the *)
(* frame period begins.                                                    *)
CopyRow ==
  /\ \E y \in Row :
       /\ ~Empty(due[y])
       /\ \A r \in Row : r < y => Empty(due[r])
       /\ bufs' = [bufs EXCEPT ![front] = RowWritten(y)]
       /\ due' = [due EXCEPT ![y] = Clean]
       /\ IF LastRow(y)
          THEN front_present_pending' = TRUE /\ late' = FALSE
          ELSE UNCHANGED <<front_present_pending, late>>
  /\ UNCHANGED <<serverVars, shadow, row_span_prev, full_copies, front, flip_pending,
                 pending_fb_id, use_page_flip, vtVars, fbVars, kernelVars>>

(* Mutant: the shadow is trusted across a VT switch.                       *)
InvalidateNothing == UNCHANGED <<shadow, row_span_prev, full_copies, due>>

(* invalidate_shadow: nothing is known of the dumb buffers' contents.      *)
InvalidateShadow ==
  /\ full_copies' = 2
  /\ row_span_prev' = [y \in Row |-> Whole]
  /\ UNCHANGED <<shadow, due>>

-----------------------------------------------------------------------------
(***************************************************************************)
(* Flips and framebuffers.                                                 *)
(***************************************************************************)

(* flip_fb, once no flip is pending: an accepted page flip, or a blocking  *)
(* SetCrtc.  A dumb buffer that cannot be flipped to, unless the driver    *)
(* was only busy, ends page flipping for good.                             *)
FlipTo(id) ==
  /\ ~flip_pending
  /\ \/ /\ use_page_flip
        /\ flip_pending' = TRUE /\ pending_fb_id' = id /\ late' = FALSE
        /\ queued' = id
        /\ UNCHANGED <<use_page_flip, scanout>>
     \/ /\ scanout' = id
        /\ \/ "busy" \in Allow /\ UNCHANGED use_page_flip
           \/ "noflip" \in Allow /\ use_page_flip' = (use_page_flip /\ id \notin Dumb)
        /\ UNCHANGED <<flip_pending, pending_fb_id, late, queued>>
  /\ UNCHANGED <<front_present_pending, drm_events>>

(* flip_fb when it returns false.                                          *)
FlipRefused ==
  /\ flip_pending \/ "fail" \in Allow
  /\ use_page_flip' \in {use_page_flip, use_page_flip /\ flip_pending}
  /\ UNCHANGED <<flip_pending, pending_fb_id, front_present_pending, late, kernelVars>>

(* release_retired: the framebuffers in S are removed. *)
Removed(f, S) == [id \in FbId |-> IF id \in S THEN NoFb ELSE f[id]]

(* Mutant: what a frame replaces is removed at once.                       *)
RetireNow(old, registered) ==
  retire' = {} /\ pic' = Removed(registered, retire \cup old)

(* The framebuffers `old` leave the screen with this frame: they are kept  *)
(* until its flip has completed.                                           *)
Retire(old, registered) ==
  IF flip_pending'
  THEN retire' = retire \cup old /\ pic' = registered
  ELSE retire' = {} /\ pic' = Removed(registered, retire \cup old)

Held(id) == {id} \ {NoFb}

(* complete_flip *)
CompleteFlip ==
  /\ flip_pending' = FALSE /\ pending_fb_id' = NoFb
  /\ retire' = {} /\ pic' = Removed(pic, retire)

-----------------------------------------------------------------------------
(***************************************************************************)
(* present_damage, present_dmabuf, present_dmabufs.                        *)
(***************************************************************************)

(* Mutant: the front buffer is drawn into. *)
BackFront == front

(* The buffer to draw into. *)
Back == IF use_page_flip THEN 1 - front ELSE front

(* A software frame p whose changes are bounded by d; an update in place   *)
(* goes on with CopyRow.                                                   *)
PresentDamage(p, d) ==
  LET back == Back IN
  /\ CopyDamaged(p, d, back)
  /\ \/ /\ ~Wrote(p, d) \/ ~use_page_flip
        /\ UNCHANGED <<front, flipVars, fbVars, kernelVars>>
     \/ /\ Wrote(p, d) /\ use_page_flip
        /\ FlipTo(back)
        /\ front' = back
        /\ direct' = NoFb
        /\ Retire(Held(direct), pic)
        /\ UNCHANGED gpu_fb
     \/ /\ Wrote(p, d) /\ use_page_flip
        /\ FlipRefused
        /\ UNCHANGED <<front, fbVars>>

(* commit_gpu_output: a frame composed by the GPU. *)
PresentGpu(p) ==
  /\ "gpu" \in Allow /\ use_page_flip
  /\ \E id \in FbId :
       /\ pic[id] = NoFb
       /\ FlipTo(id)
       /\ gpu_fb' = id /\ direct' = NoFb
       /\ Retire(Held(gpu_fb) \cup Held(direct), [pic EXCEPT ![id] = p])
  /\ InvalidateShadow
  /\ UNCHANGED <<bufs, front>>

(* present_dmabuf: a client's buffer becomes the framebuffer; one that is  *)
(* imported already is not flipped to again.                               *)
PresentDirect(p) ==
  /\ "direct" \in Allow /\ use_page_flip
  /\ \/ /\ direct # NoFb /\ pic[direct] = p
        /\ UNCHANGED <<copyVars, front, flipVars, fbVars, kernelVars>>
     \/ /\ \E id \in FbId :
             /\ pic[id] = NoFb
             /\ FlipTo(id)
             /\ direct' = id
             /\ Retire(Held(direct), [pic EXCEPT ![id] = p])
        /\ InvalidateShadow
        /\ UNCHANGED <<gpu_fb, bufs, front>>

-----------------------------------------------------------------------------
(***************************************************************************)
(* The compositor's frames.  Server::run polls and dispatches what is      *)
(* there before each of them.                                              *)
(***************************************************************************)

(* run: a frame is composed when the display is ours and not busy.         *)
MayPresent == active = "yes" /\ polled /\ ~Busy /\ ~Copying

(* composite_and_present on the CPU, or a repainted cursor: the damage is  *)
(* the whole screen unless the last frame can be drawn over.               *)
Composite ==
  /\ MayPresent
  /\ \E p \in Picture, d \in Damage :
       /\ d = Full \/ (fb_valid /\ \A c \in Cell : p[c] # frame[c] => Inside(c, d))
       /\ PresentDamage(p, d)
       /\ frame' = p
  /\ fb_valid' = TRUE /\ polled' = FALSE /\ presented' = TRUE
  /\ UNCHANGED active

CompositeGpu ==
  /\ MayPresent
  /\ \E p \in Picture : PresentGpu(p) /\ frame' = p
  /\ fb_valid' = FALSE /\ polled' = FALSE /\ presented' = TRUE
  /\ UNCHANGED active

CompositeDirect ==
  /\ MayPresent
  /\ \E p \in Picture : PresentDirect(p) /\ frame' = p
  /\ fb_valid' = FALSE /\ polled' = FALSE /\ presented' = TRUE
  /\ UNCHANGED active

(* capture_screenshot composes a whole software frame, without looking at  *)
(* present_busy, and the loop may compose another one after it.            *)
Capture ==
  /\ "screenshot" \in Allow /\ active = "yes" /\ polled /\ ~Copying
  /\ \E p \in Picture : PresentDamage(p, Full) /\ frame' = p
  /\ fb_valid' = FALSE /\ presented' = TRUE
  /\ UNCHANGED <<active, polled>>

-----------------------------------------------------------------------------
(***************************************************************************)
(* Completion.                                                             *)
(***************************************************************************)

(* Mutant: any flip event completes the flip. *)
CurrentEventAny == flip_pending /\ drm_events # {}

(* Events arrive late: only the one that carries the pending framebuffer's *)
(* id counts.                                                              *)
CurrentEvent == flip_pending /\ pending_fb_id \in drm_events

(* The loop polls: every event that is there is read. *)
DispatchEvents ==
  /\ ~Copying
  /\ polled => drm_events # {}
  /\ polled' = TRUE
  /\ drm_events' = {}
  /\ IF CurrentEvent THEN CompleteFlip
     ELSE UNCHANGED <<flip_pending, pending_fb_id, retire, pic>>
  /\ UNCHANGED <<frame, fb_valid, copyVars, front, use_page_flip, front_present_pending,
                 late, vtVars, gpu_fb, direct, scanout, queued>>

(* Mutant: the framebuffer on the screen is compared with the buffer drawn *)
(* last.                                                                   *)
OverdueFront == flip_pending /\ late /\ scanout = front

(* The flip's event is overdue although GETCRTC says that its framebuffer  *)
(* is on the screen.                                                       *)
Overdue == flip_pending /\ late /\ scanout = pending_fb_id

(* poll_presentation, when it recovers something: a frame period after an  *)
(* update in place, or an overdue flip.                                    *)
PollPresentation ==
  /\ active # "leaving" /\ ~Copying
  /\ \/ /\ front_present_pending /\ late
        /\ front_present_pending' = FALSE
        /\ UNCHANGED <<flip_pending, pending_fb_id, retire, pic>>
     \/ /\ ~front_present_pending /\ Overdue
        /\ CompleteFlip
        /\ UNCHANGED front_present_pending
  /\ UNCHANGED <<serverVars, copyVars, front, use_page_flip, late, vtVars,
                 gpu_fb, direct, kernelVars>>

(* The kernel's vblank: the queued framebuffer is scanned out from now on; *)
(* the event that says so can get lost.                                    *)
Vblank ==
  /\ queued # NoFb
  /\ scanout' = queued /\ queued' = NoFb
  /\ drm_events' \in {drm_events, drm_events \cup {queued}}
  /\ UNCHANGED <<serverVars, copyVars, front, flipVars, vtVars, fbVars>>

(* A frame period, or the grace of an overdue event, is over. *)
TimePasses ==
  /\ Busy /\ ~late
  /\ late' = TRUE
  /\ UNCHANGED <<serverVars, copyVars, front, flip_pending, pending_fb_id, use_page_flip,
                 front_present_pending, vtVars, fbVars, kernelVars>>

-----------------------------------------------------------------------------
(***************************************************************************)
(* VT switches.                                                            *)
(***************************************************************************)

(* deactivate until it has restored the CRTC: the flip in flight is        *)
(* forgotten.                                                              *)
Deactivate ==
  /\ "vt" \in Allow /\ active = "yes" /\ ~Copying
  /\ active' = "leaving" /\ presented' = FALSE
  /\ CompleteFlip
  /\ InvalidateShadow
  /\ fb_valid' = FALSE
  /\ UNCHANGED <<frame, polled, bufs, front, use_page_flip, front_present_pending, late,
                 gpu_fb, direct, kernelVars>>

(* restore_crtc and the release of the VT: a flip that was queued is over, *)
(* and the scanout buffers will come back with unknown contents.           *)
RestoreCrtc ==
  /\ active = "leaving"
  /\ active' = "no"
  /\ scanout' = Console /\ queued' = NoFb
  /\ drm_events' \in {drm_events, drm_events \cup Held(queued)}
  /\ bufs' = [b \in Dumb |-> [c \in Cell |-> Junk]]
  /\ polled' = FALSE
  /\ UNCHANGED <<frame, fb_valid, shadow, row_span_prev, full_copies, due, front, flipVars,
                 presented, fbVars>>

(* activate, when DRM master is regained and the CRTC is set: a failure    *)
(* changes nothing.                                                        *)
Activate ==
  /\ "vt" \in Allow /\ active = "no"
  /\ active' = "yes"
  /\ scanout' = front /\ queued' = NoFb
  /\ flip_pending' = FALSE /\ pending_fb_id' = NoFb
  /\ direct' = NoFb /\ pic' = Removed(pic, Held(direct))
  /\ InvalidateShadow
  /\ fb_valid' = FALSE
  /\ UNCHANGED <<frame, polled, bufs, front, use_page_flip, front_present_pending, late,
                 presented, gpu_fb, retire, drm_events>>

Init ==
  /\ frame \in Picture /\ fb_valid = FALSE /\ polled = FALSE
  /\ shadow = frame
  /\ row_span_prev = [y \in Row |-> Whole]
  /\ full_copies = 2
  /\ bufs = [b \in Dumb |-> [c \in Cell |-> Junk]]
  /\ front = 0 /\ due = [y \in Row |-> Clean]
  /\ flip_pending = FALSE /\ pending_fb_id = NoFb
  /\ use_page_flip = TRUE /\ front_present_pending = FALSE /\ late = FALSE
  /\ active = "yes" /\ presented = FALSE
  /\ gpu_fb = NoFb /\ direct = NoFb /\ retire = {}
  /\ pic = [id \in FbId |-> NoFb]
  /\ scanout = 0 /\ queued = NoFb /\ drm_events = {}

Next ==
  \/ Composite \/ CompositeGpu \/ CompositeDirect \/ Capture
  \/ CopyRow \/ DispatchEvents \/ PollPresentation \/ Vblank \/ TimePasses
  \/ Deactivate \/ RestoreCrtc \/ Activate

(* The loop does not sleep while a flip is outstanding and every iteration *)
(* calls poll_presentation, those that switch VTs too; copy_damaged and    *)
(* deactivate run to their end; the kernel reaches the next vblank; time   *)
(* passes.                                                                 *)
Fairness ==
  /\ SF_vars(PollPresentation) /\ WF_vars(CopyRow) /\ WF_vars(RestoreCrtc)
  /\ WF_vars(Vblank) /\ WF_vars(TimePasses)

Spec == Init /\ [][Next]_vars
FairSpec == Spec /\ Fairness

-----------------------------------------------------------------------------
(* Every variable has its type.                                            *)
TypeOK ==
  /\ frame \in Picture /\ fb_valid \in BOOLEAN /\ polled \in BOOLEAN
  /\ shadow \in Picture
  /\ row_span_prev \in [Row -> Span]
  /\ full_copies \in 0 .. 2
  /\ bufs \in [Dumb -> Memory]
  /\ front \in Dumb /\ due \in [Row -> Span]
  /\ flip_pending \in BOOLEAN
  /\ pending_fb_id \in Dumb \cup FbId \cup {NoFb}
  /\ use_page_flip \in BOOLEAN /\ front_present_pending \in BOOLEAN /\ late \in BOOLEAN
  /\ active \in {"yes", "leaving", "no"} /\ presented \in BOOLEAN
  /\ gpu_fb \in FbId \cup {NoFb} /\ direct \in FbId \cup {NoFb}
  /\ retire \subseteq FbId
  /\ pic \in [FbId -> Picture \cup {NoFb}]
  /\ scanout \in Dumb \cup FbId \cup {Console}
  /\ queued \in Dumb \cup FbId \cup {NoFb}
  /\ drm_events \subseteq Dumb \cup FbId

(* The buffer that is drawn into next differs from the shadow only in the  *)
(* spans that are copied in any case: those the previous present wrote     *)
(* (row_span_prev), as it trails by one frame.  No stale pixel of an older *)
(* frame can surface, whatever the damage of the next one is.              *)
BackBufferCovered ==
  active = "yes" /\ full_copies = 0 /\ ~Copying =>
    \A c \in Cell : bufs[Back][c] = shadow[c] \/ In(c[2], row_span_prev[c[1]])

(* A framebuffer that the CRTC reads, or will read from the next vblank    *)
(* on, is still registered: nothing is removed before the flip that        *)
(* replaces it is complete.                                                *)
InUseIsRegistered == \A id \in FbId : id \in {scanout, queued} => pic[id] # NoFb

(* While page flips work, the memory of the buffer on the screen is never  *)
(* written.                                                                *)
NeverDrawsOnScreen ==
  [][\A b \in Dumb :
       use_page_flip /\ active = "yes" /\ scanout = b /\ scanout' = b => bufs'[b] = bufs[b]]_vars

(* A flip is declared complete only when its framebuffer is on the screen, *)
(* whatever events are late, lost or left over from an earlier flip.       *)
CompletesOnScreen ==
  [][active = "yes" /\ active' = "yes" /\ flip_pending /\ ~flip_pending'
       => scanout = pending_fb_id]_vars

(* The backend does not stay busy: lost events are recovered, unless       *)
(* screenshots keep starting the wait anew.                                *)
PresentCompletes == <>[][~Capture]_vars => (Busy ~> ~Busy)

(* What the framebuffer id holds. *)
Content(id) ==
  IF id \in Dumb THEN bufs[id] ELSE IF id \in FbId THEN pic[id] ELSE id

(* The backend shows the last frame presented, or the one before it until  *)
(* the vblank, however few rows it copies and whichever buffer it draws    *)
(* into: whole frames as long as page flips work.  A driver that turns out *)
(* to have none is updated in place, and then a picture can be seen that   *)
(* is part the last frame and part what was there before, until it is done.*)
DisplayOf ==
  INSTANCE Display WITH Picture <- Picture, Shown <- Memory \cup {Console, NoFb},
    None <- NoFb, screen <- Content(scanout),
    next <- IF presented THEN Content(queued) ELSE NoFb, ours <- presented,
    flips <- use_page_flip, drawing <- Copying
ShowsFrames == DisplayOf!Spec
=============================================================================
