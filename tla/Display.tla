------------------------------ MODULE Display -------------------------------
(***************************************************************************)
(* What the compositor expects of its display backend (trait Backend): a   *)
(* presented picture is on the screen at once, or with the next vblank,    *)
(* and no mixture of two pictures is shown while the display is ours.      *)
(* Only a backend that has lost the means to exchange pictures (flips)     *)
(* draws over the one on the screen: then each pixel is the old or the new *)
(* one until the picture is complete.                                      *)
(***************************************************************************)
CONSTANTS Cell,       \* the pixels of the screen
          Picture,    \* the pictures the compositor makes
          Shown,      \* what can be seen on the screen: those and others
          None        \* no picture waits for the vblank

VARIABLES screen,     \* what the CRTC shows
          next,       \* the picture it will show from the next vblank on
          frame,      \* the last picture presented
          ours,       \* the VT is ours and a picture was presented since
          flips,      \* pictures can be exchanged
          drawing     \* the picture on the screen is being drawn over

dvars == <<screen, next, frame, ours, flips, drawing>>

Init ==
  /\ screen \in Shown /\ next = None /\ frame \in Picture /\ ours = FALSE
  /\ flips = TRUE /\ drawing = FALSE

(* One picture at a time: the previous one has reached the screen. *)
Ready == next = None /\ ~drawing

(* Presenting it can show that pictures cannot be exchanged any more. *)
Present(p) ==
  /\ Ready
  /\ frame' = p /\ ours' = TRUE /\ drawing' = FALSE
  /\ flips' \in {flips, FALSE}
  /\ \/ next' = p /\ screen' = screen
     \/ next' = None /\ screen' = p

DrawOver(p) ==
  /\ Ready /\ ~flips
  /\ frame' = p /\ ours' = TRUE /\ drawing' = TRUE
  /\ UNCHANGED <<screen, next, flips>>

(* Some pixels more; drawing ends with the whole picture. *)
Draw ==
  /\ drawing
  /\ screen' \in Shown
  /\ \A c \in Cell : screen'[c] \in {screen[c], frame[c]}
  /\ drawing' = TRUE \/ (drawing' = FALSE /\ screen' = frame)
  /\ UNCHANGED <<next, frame, ours, flips>>

Vblank ==
  /\ next # None
  /\ screen' = next /\ next' = None
  /\ UNCHANGED <<frame, ours, flips, drawing>>

(* Another VT takes the display, or gives it back with unknown contents. *)
SwitchVt ==
  /\ ~drawing
  /\ screen' \in Shown
  /\ next' = None /\ ours' = FALSE
  /\ UNCHANGED <<frame, flips, drawing>>

Next == (\E p \in Picture : Present(p) \/ DrawOver(p)) \/ Draw \/ Vblank \/ SwitchVt

Spec == Init /\ [][Next]_dvars
=============================================================================
