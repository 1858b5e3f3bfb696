---------------------------- MODULE WindowFocus -----------------------------
(***************************************************************************)
(* Windows, their stacking order and the keyboard, server.rs: toplevels    *)
(* and shell dialogs are mapped, raised, minimized and destroyed by the    *)
(* requests of their clients, by the pointer, by shortcuts and by the      *)
(* shell; one of them has the focus, and the keyboard follows the focus by *)
(* leave and enter events that are not always sent at the same moment.     *)
(*                                                                         *)
(* The compositor is one thread, so an action is a whole handler.  What it *)
(* must survive is that a client is taken out of the table of clients      *)
(* while its batch of requests is handled (no window of it can be looked   *)
(* up, no event be sent to it by name), that some of what a request wants  *)
(* is put off to the end of the batch, and that the focus can move without *)
(* the keyboard.                                                           *)
(***************************************************************************)
EXTENDS Integers, Sequences, FiniteSets

CONSTANTS
  Client, NoClient,
  Window,      \* surfaces: a client and an id, which only that client owns
  None,        \* no window
  Keyboard,    \* wl_keyboard objects: a client and an id
  Roles,       \* which roles the clients of this instance use
  Allow        \* which optional behaviours this instance has, see below

(* "grab"     a press or request that moves the focus for an interactive   *)
(*            move, resize or window menu                                  *)
(* "minimize" windows are minimized                                        *)
(* "desktop"  Super+D                                                      *)
(* "virtual"  virtual keyboards                                            *)
(* "vt"       the session is switched away from                            *)
Behaviours == {"grab", "minimize", "desktop", "virtual", "vt"}

NoSurface == 0

ASSUME WindowAssumption ==
  /\ Window \subseteq Client \X (Nat \ {NoSurface}) /\ None \notin Client \X Nat
  /\ Keyboard \subseteq Client \X Nat /\ NoClient \notin Client
  /\ IsFiniteSet(Window)
ASSUME RoleAssumption == Roles \subseteq {"toplevel", "dialog", "panel"}
ASSUME AllowAssumption == Allow \subseteq Behaviours

VARIABLES
  connected,           \* clients with a socket
  busy,                \* the client whose batch is handled
  role,                \* "orphan": an xdg_surface that lost its toplevel
  mapped,              \* surfaces with content
  parent,              \* XdgToplevel.parent_surface_id, read for toplevels
  keyboards,           \* the wl_keyboard objects there are
  desk,                \* the order of windows and who has the focus
  pending_activate, pending_minimize,
  show_desktop_ids,    \* what Super+D hid
  restoring            \* what the loop of toggle_show_desktop has left

windowVars == <<role, mapped, parent>>
pendingVars == <<pending_activate, pending_minimize>>
desktopVars == <<show_desktop_ids, restoring>>
vars == <<connected, busy, windowVars, keyboards, desk, pendingVars, desktopVars>>

Surface == {w[2] : w \in Window}
Of(c) == {w \in Window : w[1] = c}

(* desk.stack     window_stack, the topmost last                           *)
(* desk.focused   focused_client_fd and focused_surface_id                 *)
(* desk.kbd       what kbd_entered says the keyboard is on                 *)
(* desk.minimized the toplevels that are minimized                         *)
(* desk.heard     the surface each keyboard object heard enter for last,   *)
(*                unless it heard leave or the client destroyed it since   *)
Desk == [stack: Seq(Window), focused: Window \cup {None}, kbd: Window \cup {None},
         minimized: SUBSET Window, heard: [Keyboard -> Surface \cup {NoSurface}]]

(* self.clients: the client being served is not in it.                     *)
Clients == connected \ {busy}

-----------------------------------------------------------------------------
(***************************************************************************)
(* What the table of clients knows of a window; "there" is the table.      *)
(***************************************************************************)

(* surface_is_xdg_toplevel_in and surface_is_windowed_layer_in, by name.   *)
Toplevel(w, there) == w \in Window /\ w[1] \in there /\ role[w] = "toplevel"
Stackable(w, there) ==
  w \in Window /\ w[1] \in there /\ role[w] \in {"toplevel", "dialog"}

(* toplevel_parent_surface_in *)
ParentOf(w) == IF role[w] = "toplevel" THEN parent[w] ELSE NoSurface

(* The surfaces raise_surface takes for children of w.                     *)
Children(w, there) ==
  {x \in Window : /\ Toplevel(x, there) /\ x \in mapped
                  /\ ParentOf(x) = w[2] /\ ParentOf(x) # NoSurface}

(* The maps of clients and objects are iterated in an order of their own.  *)
HashOrders ==
  LET transients == {x \in Window : ParentOf(x) # NoSurface}
  IN  {q \in [1 .. Cardinality(transients) -> transients] :
         \A i, j \in DOMAIN q : q[i] = q[j] => i = j}

-----------------------------------------------------------------------------
(***************************************************************************)
(* The window manager's own steps, each from one desk to the next.         *)
(***************************************************************************)
Stacked(d) == {d.stack[i] : i \in DOMAIN d.stack}

(* Those entries of s that are in S, in the order they have in s.  This is *)
(* SelectSeq, as a function, which the proofs can reason about.            *)
Those(s, S) ==
  LET kept[i \in 0 .. Len(s)] ==
        IF i = 0 THEN <<>>
        ELSE IF s[i] \in S THEN Append(kept[i - 1], s[i]) ELSE kept[i - 1]
  IN  kept[Len(s)]

Without(s, w) == Those(s, Window \ {w})
(* Mutant: a raised window is not taken out of its old place.              *)
OnTopTwice(s, w) == Append(s, w)

OnTop(s, w) == Append(Without(s, w), w)

(* raise_surface: the window, and above it what counts as its children.    *)
RaiseSurface(s, w, there, order) ==
  LET kids == Children(w, there)
  IN  Those(OnTop(s, w), Window \ kids) \o Those(order, kids)

(* wl_keyboard.leave(w) to every keyboard of w's client.                   *)
SendLeave(heard, w) ==
  [k \in Keyboard |-> IF k \in keyboards /\ k[1] = w[1] /\ heard[k] = w[2]
                      THEN NoSurface ELSE heard[k]]

(* Mutant: only the first keyboard object of the client is told.           *)
EnterFirst(heard, w) ==
  [k \in Keyboard |->
     IF k \in keyboards /\ k[1] = w[1] /\ \A j \in keyboards : j[1] = w[1] => k[2] <= j[2]
     THEN w[2] ELSE heard[k]]

SendEnter(heard, w) ==
  [k \in Keyboard |-> IF k \in keyboards /\ k[1] = w[1] THEN w[2] ELSE heard[k]]

HasKeyboard(c) == \E k \in keyboards : k[1] = c

(* Mutant: the previous holder of the keyboard is not told.                *)
LeavesNobody(d, w, there) == d.heard

(* The leave half of ensure_kbd_entered: the previous holder is looked up. *)
LeavePrevious(d, w, there) ==
  IF d.kbd # None /\ d.kbd[1] \in there THEN SendLeave(d.heard, d.kbd) ELSE d.heard

(* Mutant: for a client without keyboards nothing is done at all.          *)
EnsureOnlyWithKeyboards(d, w, there) ==
  IF d.kbd = w \/ ~(w[1] \in there /\ HasKeyboard(w[1])) THEN d
  ELSE [d EXCEPT !.heard = SendEnter(LeavePrevious(d, w, there), w), !.kbd = w]

(* ensure_kbd_entered *)
EnsureKbdEntered(d, w, there) ==
  IF d.kbd = w THEN d
  ELSE IF w[1] \in there /\ HasKeyboard(w[1])
  THEN [d EXCEPT !.heard = SendEnter(LeavePrevious(d, w, there), w), !.kbd = w]
  ELSE [d EXCEPT !.heard = LeavePrevious(d, w, there), !.kbd = None]

(* activate_surface_for *)
Activate(d, w, there, order) ==
  LET moves == d.focused # w \/ w \in d.minimized
  IN  IF ~Stackable(w, there) THEN d
      ELSE EnsureKbdEntered(
             [d EXCEPT !.stack = IF moves THEN RaiseSurface(@, w, there, order) ELSE @,
                       !.focused = w, !.minimized = @ \ {w}], w, there)

(* The application windows focus_topmost_visible can choose from.          *)
Visible(d, there) ==
  {w \in Stacked(d) : Toplevel(w, there) /\ w \notin d.minimized}

(* Mutant: only the topmost window is looked at.                           *)
FocusTop(d, exclude, there, order) ==
  LET top == d.stack[Len(d.stack)]
  IN  IF d.stack # <<>> /\ top # exclude /\ top \in Visible(d, there)
      THEN Activate(d, top, there, order) ELSE d

(* focus_topmost_visible *)
FocusTopmost(d, exclude, there, order) ==
  LET able(i) == d.stack[i] # exclude /\ d.stack[i] \in Visible(d, there)
  IN  IF \E i \in DOMAIN d.stack : able(i)
      THEN Activate(d, d.stack[CHOOSE i \in DOMAIN d.stack :
                                 able(i) /\ \A j \in DOMAIN d.stack : able(j) => j <= i],
                    there, order)
      ELSE d

(* minimize_surface_for without what follows the loss of the focus.        *)
Hide(d, w) ==
  IF d.focused = w
  THEN [d EXCEPT !.minimized = @ \cup {w}, !.heard = SendLeave(@, w),
                 !.focused = None, !.kbd = None]
  ELSE [d EXCEPT !.minimized = @ \cup {w}]

(* Mutant: no other window is looked for.                                  *)
MinimizeOnly(d, w, there, order) == IF Toplevel(w, there) THEN Hide(d, w) ELSE d

(* minimize_surface_for *)
Minimize(d, w, there, order) ==
  IF ~Toplevel(w, there) THEN d
  ELSE IF d.focused = w /\ show_desktop_ids = <<>>
  THEN FocusTopmost(Hide(d, w), w, there, order)
  ELSE Hide(d, w)

(* Mutant: the keyboard stays where it was.                                *)
ForgetFocus(d, w) ==
  [d EXCEPT !.stack = Without(@, w), !.minimized = @ \ {w},
            !.focused = IF @ = w THEN None ELSE @]

(* Mutant: that the window is minimized is not forgotten.                  *)
ForgetNames(d, w) ==
  [d EXCEPT !.stack = Without(@, w),
            !.focused = IF @ = w THEN None ELSE @,
            !.kbd = IF @ = w THEN None ELSE @,
            !.heard = [k \in Keyboard |-> IF k[1] = w[1] /\ @[k] = w[2] THEN NoSurface ELSE @[k]]]

(* Whatever named the surface forgets it.                                  *)
Forget(d, w) ==
  [d EXCEPT !.stack = Without(@, w), !.minimized = @ \ {w},
            !.focused = IF @ = w THEN None ELSE @,
            !.kbd = IF @ = w THEN None ELSE @,
            !.heard = [k \in Keyboard |-> IF k[1] = w[1] /\ @[k] = w[2] THEN NoSurface ELSE @[k]]]

-----------------------------------------------------------------------------
Init ==
  /\ connected = {} /\ busy = NoClient
  /\ role = [w \in Window |-> "none"] /\ mapped = {}
  /\ parent = [w \in Window |-> NoSurface]
  /\ keyboards = {}
  /\ desk = [stack |-> <<>>, focused |-> None, kbd |-> None, minimized |-> {},
             heard |-> [k \in Keyboard |-> NoSurface]]
  /\ pending_activate = None /\ pending_minimize = None
  /\ show_desktop_ids = <<>> /\ restoring = <<>>

(* Between batches, and not inside the loop that restores the desktop.     *)
Idle == busy = NoClient /\ restoring = <<>>

-----------------------------------------------------------------------------
(***************************************************************************)
(* A client's requests, between the beginning and the end of a batch.      *)
(***************************************************************************)
Connect(c) ==
  /\ Idle /\ c \notin connected /\ connected' = connected \cup {c}
  /\ UNCHANGED <<busy, windowVars, keyboards, desk, pendingVars, desktopVars>>

BeginBatch(c) ==
  /\ Idle /\ c \in connected /\ busy' = c
  /\ UNCHANGED <<connected, windowVars, keyboards, desk, pendingVars, desktopVars>>

(* flush_wm_actions, after the client is back in the table.                *)
Flush(order) ==
  Activate(Minimize(desk, pending_minimize, connected, order), pending_activate, connected, order)

EndBatch(c) ==
  /\ busy = c /\ busy' = NoClient
  /\ \E order \in HashOrders : desk' = Flush(order)
  /\ pending_activate' = None /\ pending_minimize' = None
  /\ UNCHANGED <<connected, windowVars, keyboards, desktopVars>>

(* What is left when all that named the client is forgotten.               *)
ForgetClient(c) ==
  LET gone(w) == w # None /\ w[1] = c
  IN  [stack |-> Those(desk.stack, Window \ Of(c)),
       focused |-> IF gone(desk.focused) THEN None ELSE desk.focused,
       kbd |-> IF gone(desk.kbd) THEN None ELSE desk.kbd,
       minimized |-> desk.minimized \ Of(c),
       heard |-> [k \in Keyboard |-> IF k[1] = c THEN NoSurface ELSE desk.heard[k]]]

(* The rest of the batch is lost, and nothing is flushed.                  *)
Disconnect(c) ==
  /\ busy = c /\ busy' = NoClient /\ connected' = connected \ {c}
  /\ role' = [w \in Window |-> IF w[1] = c THEN "none" ELSE role[w]]
  /\ mapped' = mapped \ Of(c)
  /\ parent' = [w \in Window |-> IF w[1] = c THEN NoSurface ELSE parent[w]]
  /\ keyboards' = {k \in keyboards : k[1] # c}
  /\ \E order \in HashOrders :
       desk' = IF desk.focused # None /\ desk.focused[1] = c
               THEN FocusTopmost(ForgetClient(c), None, Clients, order)
               ELSE ForgetClient(c)
  /\ UNCHANGED <<pendingVars, desktopVars>>

(* Mutant: a new keyboard object hears nothing.                            *)
GetKeyboardInSilence(k) ==
  /\ busy = k[1] /\ k \notin keyboards /\ keyboards' = keyboards \cup {k}
  /\ UNCHANGED <<connected, busy, windowVars, desk, pendingVars, desktopVars>>

(* wl_seat.get_keyboard: a new object hears where the keyboard is.         *)
GetKeyboard(k) ==
  /\ busy = k[1] /\ k \notin keyboards /\ keyboards' = keyboards \cup {k}
  /\ desk' = [desk EXCEPT !.heard[k] =
                IF desk.kbd # None /\ desk.kbd[1] = k[1] THEN desk.kbd[2] ELSE NoSurface]
  /\ UNCHANGED <<connected, busy, windowVars, pendingVars, desktopVars>>

ReleaseKeyboard(k) ==
  /\ busy = k[1] /\ k \in keyboards /\ keyboards' = keyboards \ {k}
  /\ desk' = [desk EXCEPT !.heard[k] = NoSurface]
  /\ UNCHANGED <<connected, busy, windowVars, pendingVars, desktopVars>>

(* wl_compositor.create_surface *)
CreateSurface(w) ==
  /\ busy = w[1] /\ role[w] = "none"
  /\ role' = [role EXCEPT ![w] = "plain"]
  /\ parent' = [parent EXCEPT ![w] = NoSurface]
  /\ UNCHANGED <<connected, busy, mapped, keyboards, desk, pendingVars, desktopVars>>

(* get_toplevel or get_layer_surface, on a surface without content.        *)
TakeRole(w, r) ==
  /\ busy = w[1] /\ w \notin mapped /\ r \in Roles
  /\ role[w] = "plain" \/ (role[w] = "orphan" /\ r = "toplevel")
  /\ role' = [role EXCEPT ![w] = r]
  /\ parent' = [parent EXCEPT ![w] = NoSurface]
  /\ UNCHANGED <<connected, busy, mapped, keyboards, desk, pendingVars, desktopVars>>

(* xdg_toplevel.destroy: only the order of windows forgets the surface.    *)
DestroyToplevel(w) ==
  /\ busy = w[1] /\ role[w] = "toplevel"
  /\ role' = [role EXCEPT ![w] = "orphan"]
  /\ desk' = [desk EXCEPT !.stack = Without(@, w), !.minimized = @ \ {w}]
  /\ UNCHANGED <<connected, busy, mapped, parent, keyboards, pendingVars, desktopVars>>

(* zwlr_layer_surface_v1.destroy *)
DestroyLayer(w) ==
  /\ busy = w[1] /\ role[w] \in {"dialog", "panel"}
  /\ role' = [role EXCEPT ![w] = "plain"]
  /\ UNCHANGED <<connected, busy, mapped, parent, keyboards, desk, pendingVars, desktopVars>>

(* xdg_toplevel.set_parent: parent and child are raised if both have a     *)
(* geometry.  A client does not make two windows parents of each other.    *)
SetParent(w, p) ==
  /\ busy = w[1] /\ role[w] = "toplevel" /\ p # w[2]
  /\ p # NoSurface => <<w[1], p>> \in Window /\ role[<<w[1], p>>] = "toplevel" /\ ParentOf(<<w[1], p>>) # w[2]
  /\ parent' = [parent EXCEPT ![w] = p]
  /\ \E order \in HashOrders :
       desk' = IF p # NoSurface /\ {w, <<w[1], p>>} \subseteq mapped
               THEN [desk EXCEPT !.stack =
                       RaiseSurface(RaiseSurface(@, <<w[1], p>>, Clients, order), w, Clients, order)]
               ELSE desk
  /\ UNCHANGED <<connected, busy, role, mapped, keyboards, pendingVars, desktopVars>>

(* The first commit with content: track_mapped_toplevel, place_first_map.  *)
Map(w) ==
  /\ busy = w[1] /\ role[w] \in Roles /\ w \notin mapped
  /\ mapped' = mapped \cup {w}
  /\ IF role[w] = "panel" THEN UNCHANGED <<desk, pending_activate>>
     ELSE /\ \E order \in HashOrders :
               desk' = [desk EXCEPT !.stack = RaiseSurface(@, w, Clients, order)]
          /\ pending_activate' = w
  /\ UNCHANGED <<connected, busy, role, parent, keyboards, pending_minimize, desktopVars>>

(* A commit that leaves the content as it is: track_mapped_toplevel takes  *)
(* back a window that dropped out of the order, and drops an empty one.    *)
Recommit(w) ==
  /\ busy = w[1] /\ role[w] \in {"toplevel", "orphan", "dialog"}
  /\ (w \in mapped) # (w \in Stacked(desk))
  /\ desk' = [desk EXCEPT !.stack = IF w \in mapped THEN Append(@, w) ELSE Without(@, w)]
  /\ UNCHANGED <<connected, busy, windowVars, keyboards, pendingVars, desktopVars>>

(* A commit without content.                                               *)
Unmap(w) ==
  /\ busy = w[1] /\ role[w] # "none" /\ w \in mapped
  /\ mapped' = mapped \ {w}
  /\ LET dropped == IF role[w] \in {"toplevel", "orphan", "dialog"}
                    THEN Without(desk.stack, w) ELSE desk.stack
     IN  IF desk.focused = w /\ ParentOf(w) # NoSurface
         THEN /\ desk' = [desk EXCEPT !.stack = OnTop(dropped, <<w[1], parent[w]>>)]
              /\ pending_activate' = <<w[1], parent[w]>>
         ELSE desk' = [desk EXCEPT !.stack = dropped] /\ UNCHANGED pending_activate
  /\ UNCHANGED <<connected, busy, role, parent, keyboards, pending_minimize, desktopVars>>

(* wl_surface.destroy *)
DestroySurface(w) ==
  /\ busy = w[1] /\ role[w] # "none"
  /\ role' = [role EXCEPT ![w] = "none"]
  /\ mapped' = mapped \ {w}
  /\ IF desk.focused = w /\ ParentOf(w) # NoSurface
     THEN /\ desk' = [Forget(desk, w) EXCEPT !.stack = OnTop(@, <<w[1], parent[w]>>)]
          /\ pending_activate' = <<w[1], parent[w]>>
     ELSE /\ \E order \in HashOrders :
               desk' = IF desk.focused = w
                       THEN FocusTopmost(Forget(desk, w), w, Clients, order)
                       ELSE Forget(desk, w)
          /\ UNCHANGED pending_activate
  /\ UNCHANGED <<connected, busy, parent, keyboards, pending_minimize, desktopVars>>

(* Mutant: the focus is not dealt with at the end of the batch.            *)
SetMinimizedOnly(w) ==
  /\ "minimize" \in Allow
  /\ busy = w[1] /\ role[w] = "toplevel"
  /\ desk' = [desk EXCEPT !.minimized = @ \cup {w}]
  /\ UNCHANGED <<connected, busy, windowVars, keyboards, pendingVars, desktopVars>>

(* xdg_toplevel.set_minimized *)
SetMinimized(w) ==
  /\ "minimize" \in Allow
  /\ busy = w[1] /\ role[w] = "toplevel"
  /\ desk' = [desk EXCEPT !.minimized = @ \cup {w}]
  /\ pending_minimize' = IF desk.focused = w THEN w ELSE pending_minimize
  /\ UNCHANGED <<connected, busy, windowVars, keyboards, pending_activate, desktopVars>>

(* xdg_toplevel.show_window_menu *)
ShowWindowMenu(w) ==
  /\ "grab" \in Allow
  /\ busy = w[1] /\ role[w] = "toplevel"
  /\ desk' = [desk EXCEPT !.stack = OnTop(@, w), !.focused = w]
  /\ pending_activate' = w
  /\ UNCHANGED <<connected, busy, windowVars, keyboards, pending_minimize, desktopVars>>

(* xdg_toplevel.move and resize, and luna_wm.start_move and                *)
(* show_window_menu: the focus without the keyboard.                       *)
RequestGrab(w) ==
  /\ "grab" \in Allow
  /\ busy = w[1] /\ role[w] = "toplevel"
  /\ desk' = [desk EXCEPT !.stack = OnTop(@, w), !.focused = w]
  /\ UNCHANGED <<connected, busy, windowVars, keyboards, pendingVars, desktopVars>>

(* luna_wm.set_position: the same, and the window is not minimized.        *)
SetPosition(w) ==
  /\ "grab" \in Allow
  /\ busy = w[1] /\ role[w] = "toplevel"
  /\ desk' = [desk EXCEPT !.stack = OnTop(@, w), !.focused = w, !.minimized = @ \ {w}]
  /\ UNCHANGED <<connected, busy, windowVars, keyboards, pendingVars, desktopVars>>

(* A virtual keyboard's key; its own client's keyboards get it as it is.   *)
ForwardVirtualKey(c) ==
  /\ "virtual" \in Allow
  /\ busy = c /\ desk.focused # None /\ desk.focused[1] # c
  /\ desk' = EnsureKbdEntered(desk, desk.focused, Clients)
  /\ UNCHANGED <<connected, busy, windowVars, keyboards, pendingVars, desktopVars>>

Request(c) ==
  \/ \E k \in Keyboard : k[1] = c /\ (GetKeyboard(k) \/ ReleaseKeyboard(k))
  \/ \E w \in Of(c) :
       \/ CreateSurface(w) \/ (\E r \in Roles : TakeRole(w, r))
       \/ DestroyToplevel(w) \/ DestroyLayer(w) \/ DestroySurface(w)
       \/ (\E p \in Surface \cup {NoSurface} : SetParent(w, p))
       \/ Map(w) \/ Recommit(w) \/ Unmap(w)
       \/ SetMinimized(w) \/ ShowWindowMenu(w) \/ RequestGrab(w) \/ SetPosition(w)
  \/ ForwardVirtualKey(c)

-----------------------------------------------------------------------------
(***************************************************************************)
(* Input and the shell, between batches.                                   *)
(***************************************************************************)
OnlyDesk == UNCHANGED <<connected, busy, windowVars, keyboards, pendingVars, desktopVars>>

(* find_input_target: what can be under the pointer.                       *)
UnderPointer ==
  {w \in mapped : \/ role[w] = "panel"
                  \/ /\ w \in Stacked(desk) \ desk.minimized
                     /\ role[w] \in {"toplevel", "orphan", "dialog"}}

(* inject_ptr_button on a window's own surface.                            *)
Click(w) ==
  /\ Idle /\ w \in UnderPointer
  /\ \E order \in HashOrders :
       desk' = IF Stackable(w, Clients)
               THEN IF desk.focused # w THEN Activate(desk, w, Clients, order)
                    ELSE EnsureKbdEntered(desk, w, Clients)
               ELSE IF role[w] = "panel"
               THEN EnsureKbdEntered([desk EXCEPT !.focused = w], w, Clients)
               ELSE desk
  /\ OnlyDesk

(* inject_ptr_button on the compositor's own titlebar or border: a move, a *)
(* resize, the window menu or a double click.                              *)
PressFrame(w) ==
  /\ "grab" \in Allow
  /\ Idle /\ w \in UnderPointer /\ role[w] = "toplevel"
  /\ \E order \in HashOrders :
       desk' = [desk EXCEPT !.stack = RaiseSurface(@, w, Clients, order), !.focused = w]
  /\ OnlyDesk

(* begin_move_grab: Alt and drag, or a drag of the client's own titlebar.  *)
BeginMoveGrab(w) ==
  /\ "grab" \in Allow
  /\ Idle /\ w \in UnderPointer /\ role[w] = "toplevel"
  /\ desk' = [desk EXCEPT !.stack = OnTop(@, w), !.focused = w]
  /\ OnlyDesk

(* inject_key: a key that is no shortcut.                                  *)
Key ==
  /\ Idle
  /\ \E w \in Window :
       /\ IF desk.focused # None THEN w = desk.focused ELSE w \in UnderPointer
       /\ HasKeyboard(w[1])
       /\ desk' = EnsureKbdEntered(desk, w, Clients)
  /\ OnlyDesk

(* The shell's command, and the window switcher, whichever it has reached. *)
ActivateByShell(w) ==
  /\ Idle /\ Stackable(w, Clients)
  /\ \E order \in HashOrders : desk' = Activate(desk, w, Clients, order)
  /\ OnlyDesk

(* The shell's command, and the button of the titlebar.                    *)
MinimizeByShell(w) ==
  /\ "minimize" \in Allow
  /\ Idle /\ Toplevel(w, Clients)
  /\ \E order \in HashOrders : desk' = Minimize(desk, w, Clients, order)
  /\ OnlyDesk

(* client_for_xdg_surface: the window a bare id is taken for.              *)
ByBareId(s) ==
  LET able == {w \in Window : w[2] = s /\ Toplevel(w, Clients)}
      stacked == {i \in DOMAIN desk.stack : desk.stack[i] \in able}
  IN  IF desk.focused # None /\ <<desk.focused[1], s>> \in able
      THEN {<<desk.focused[1], s>>}
      ELSE IF stacked # {}
      THEN {desk.stack[i] : i \in {j \in stacked : \A k \in stacked : k <= j}}
      ELSE able

(* Super+Down on a window that is neither maximized nor tiled.             *)
MinimizeShortcut ==
  /\ "minimize" \in Allow
  /\ Idle /\ desk.focused # None
  /\ \E w \in ByBareId(desk.focused[2]), order \in HashOrders :
       desk' = Minimize(desk, w, Clients, order)
  /\ OnlyDesk

(* toggle_show_desktop: hide every visible window; no window takes the     *)
(* focus while there are ids.                                              *)
HideDesktop ==
  /\ "desktop" \in Allow
  /\ Idle /\ show_desktop_ids = <<>> /\ Visible(desk, Clients) # {}
  /\ show_desktop_ids' = Those(desk.stack, Visible(desk, Clients))
  /\ desk' = LET d == IF desk.focused \in Visible(desk, Clients)
                      THEN Hide(desk, desk.focused) ELSE desk
             IN  [d EXCEPT !.minimized = @ \cup Visible(desk, Clients)]
  /\ UNCHANGED <<connected, busy, windowVars, keyboards, pendingVars, restoring>>

(* toggle_show_desktop once more: a loop over the ids it took.             *)
BeginRestore ==
  /\ "desktop" \in Allow
  /\ Idle /\ show_desktop_ids # <<>>
  /\ restoring' = show_desktop_ids /\ show_desktop_ids' = <<>>
  /\ UNCHANGED <<connected, busy, windowVars, keyboards, desk, pendingVars>>

RestoreNext ==
  /\ restoring # <<>> /\ restoring' = Tail(restoring)
  /\ \E order \in HashOrders : desk' = Activate(desk, Head(restoring), Clients, order)
  /\ UNCHANGED <<connected, busy, windowVars, keyboards, pendingVars, show_desktop_ids>>

(* reset_input_state, when the session leaves its VT.                      *)
ResetInputState ==
  /\ "vt" \in Allow
  /\ Idle /\ desk.kbd # None
  /\ desk' = [desk EXCEPT !.kbd = None]
  /\ OnlyDesk

Input ==
  \/ \E w \in Window : \/ Click(w) \/ PressFrame(w) \/ BeginMoveGrab(w)
                       \/ ActivateByShell(w) \/ MinimizeByShell(w)
  \/ Key \/ MinimizeShortcut \/ ResetInputState
  \/ HideDesktop \/ BeginRestore \/ RestoreNext

Next ==
  \/ \E c \in Client : Connect(c) \/ BeginBatch(c) \/ EndBatch(c) \/ Disconnect(c) \/ Request(c)
  \/ Input

Spec == Init /\ [][Next]_vars

-----------------------------------------------------------------------------
(***************************************************************************)
(* Properties.                                                             *)
(***************************************************************************)

(* Only toplevels are minimized, only what exists has content, and the     *)
(* restoring loop runs between batches with the ids taken.                 *)
TypeOK ==
  /\ connected \subseteq Client /\ busy \in connected \cup {NoClient}
  /\ role \in [Window -> Roles \cup {"none", "plain", "orphan"}]
  /\ mapped \subseteq {w \in Window : role[w] # "none"}
  /\ parent \in [Window -> Surface \cup {NoSurface}]
  /\ keyboards \subseteq {k \in Keyboard : k[1] \in connected}
  /\ desk \in Desk /\ desk.minimized \subseteq {w \in Window : role[w] = "toplevel"}
  /\ pending_activate \in (Client \X Surface) \cup {None}
  /\ pending_minimize \in Window \cup {None}
  /\ show_desktop_ids \in Seq(Window) /\ restoring \in Seq(Window)
  /\ restoring # <<>> => busy = NoClient /\ show_desktop_ids = <<>>

(* What has the focus, and what the keyboard is on, is a surface that      *)
(* exists: ids are used again, so a name that outlives its surface would   *)
(* give the next window of that client keys nobody directed to it.         *)
FocusIsLive ==
  /\ desk.focused # None => role[desk.focused] # "none"
  /\ desk.kbd # None => role[desk.kbd] # "none"

(* The surface the compositor counts as entered is the one that every      *)
(* keyboard object of its client was last told to be in, however late the  *)
(* object was created: no key reaches a keyboard that believes it has no   *)
(* focus, or another.                                                      *)
KbdHeard ==
  desk.kbd # None =>
    \A k \in keyboards : k[1] = desk.kbd[1] => desk.heard[k] = desk.kbd[2]

(* No other keyboard object believes that it has the focus: whoever held   *)
(* the keyboard before was told to leave.                                  *)
OneListener ==
  \A k \in keyboards : desk.heard[k] # NoSurface => desk.kbd = <<k[1], desk.heard[k]>>

(* Between batches the keyboard is not on another window than the focus.   *)
KbdFollowsFocus ==
  Idle /\ desk.focused # None => desk.kbd \in {None, desk.focused}

(* Between batches the window that has the focus is not minimized, also    *)
(* when it minimized itself in the middle of a batch that went on.         *)
HiddenHasNoFocus == Idle => desk.focused \notin desk.minimized

(* The order of windows names each of them once, whatever raised it.       *)
StackOnce ==
  \A i, j \in DOMAIN desk.stack : desk.stack[i] = desk.stack[j] => i = j

(* Nobody has the focus only while no window could take it.                *)
Awaited(there) ==
  Visible(desk, there) = {} \/ pending_activate # None \/ show_desktop_ids # <<>>

(* The focus is lost to nobody only when no visible window of a client     *)
(* that can be looked up is left, one is about to be activated, or Show    *)
(* Desktop hides them: focus_topmost_visible.                              *)
FocusPassesOn ==
  [][desk.focused # None /\ desk'.focused = None => Awaited(connected \ {busy})']_vars

(* "A focused transient dialog must hand focus back to its declared        *)
(* xdg_toplevel parent when it disappears", server.rs:1448.                *)
DialogHandsBack ==
  [][\A w \in Window :
       LET p == <<w[1], parent[w]>>
       IN  /\ desk.focused = w /\ w \in mapped /\ role'[w] = "none" /\ w[1] \in connected'
           /\ p \in mapped /\ role[p] = "toplevel"
           => pending_activate' = p]_vars

(* Surface ids are "per-client", server.rs:2529: the window a shortcut     *)
(* finds by the id of the focused surface is the focused surface.          *)
ShortcutHitsFocused ==
  Idle /\ desk.focused # None => ByBareId(desk.focused[2]) \subseteq {desk.focused}

=============================================================================
