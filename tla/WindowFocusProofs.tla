------------------------- MODULE WindowFocusProofs --------------------------
(***************************************************************************)
(* What WindowFocus promises, for every number of clients, windows and     *)
(* keyboards: the steps of the window manager are first shown to keep what *)
(* is known of a desk, then every action is.                               *)
(***************************************************************************)
EXTENDS WindowFocus, TLAPS

Shape(d) ==
  /\ d = [stack |-> d.stack, focused |-> d.focused, kbd |-> d.kbd,
          minimized |-> d.minimized, heard |-> d.heard]
  /\ d.focused \in Window \cup {None} /\ d.kbd \in Window \cup {None}
  /\ d.heard \in [Keyboard -> Surface \cup {NoSurface}] /\ d.minimized \subseteq Window

(* KbdHeard, FocusIsLive, OneListener and KbdFollowsFocus, of any desk.    *)
Heard(d) ==
  d.kbd # None => \A k \in keyboards : k[1] = d.kbd[1] => d.heard[k] = d.kbd[2]
Live(d) ==
  /\ d.focused # None => role[d.focused] # "none"
  /\ d.kbd # None => role[d.kbd] # "none"
Alone(d) ==
  \A k \in keyboards : d.heard[k] # NoSurface => d.kbd = <<k[1], d.heard[k]>>
Follows(d) == d.focused # None => d.kbd \in {None, d.focused}

Good(d) == Shape(d) /\ Heard(d) /\ Live(d)

(* What an activation leaves of a desk.                                    *)
Activated(d, e, there) ==
  \/ e = d
  \/ \E w \in Window : /\ Stackable(w, there) /\ e.focused = w /\ e.kbd \in {w, None}
                       /\ e.minimized = d.minimized \ {w}

LEMMA EnsureFacts ==
  ASSUME NEW d, Shape(d), NEW w \in Window, NEW there, keyboards \subseteq Keyboard
  PROVE  LET e == EnsureKbdEntered(d, w, there)
         IN  /\ Shape(e) /\ e.kbd \in {w, None}
             /\ e.focused = d.focused /\ e.minimized = d.minimized
             /\ Heard(d) => Heard(e)
             /\ Alone(d) /\ (d.kbd # None => d.kbd = w \/ d.kbd[1] \in there) => Alone(e)
<1> DEFINE e == EnsureKbdEntered(d, w, there)
           l == LeavePrevious(d, w, there)
<1>w. /\ w = <<w[1], w[2]>> /\ w[2] \in Surface /\ w # None /\ w[2] # NoSurface
  BY WindowAssumption DEF Surface, NoSurface
<1>1. /\ l \in [Keyboard -> Surface \cup {NoSurface}]
      /\ \A k \in Keyboard : l[k] \in {d.heard[k], NoSurface}
      /\ Alone(d) /\ (d.kbd # None => d.kbd[1] \in there) => \A k \in keyboards : l[k] = NoSurface
  <2>1. CASE d.kbd # None /\ d.kbd[1] \in there
    <3>1. l = SendLeave(d.heard, d.kbd)
      BY <2>1 DEF LeavePrevious
    <3>2. \A k \in Keyboard : l[k] = IF k \in keyboards /\ k[1] = d.kbd[1] /\ d.heard[k] = d.kbd[2]
                                     THEN NoSurface ELSE d.heard[k]
      BY <3>1 DEF SendLeave
    <3>3. l \in [Keyboard -> Surface \cup {NoSurface}]
      BY <3>1 DEF SendLeave, Shape
    <3>4. ASSUME Alone(d), NEW k \in keyboards PROVE l[k] = NoSurface
      BY <3>2, <3>4 DEF Alone
    <3> QED BY <3>2, <3>3, <3>4
  <2>2. CASE ~(d.kbd # None /\ d.kbd[1] \in there)
    <3>1. l = d.heard
      BY <2>2 DEF LeavePrevious
    <3>2. ASSUME Alone(d), d.kbd = None, NEW k \in keyboards PROVE d.heard[k] = NoSurface
      <4>1. k \in Client \X Nat /\ d.heard[k] \in Nat
        BY WindowAssumption DEF Shape, Surface, NoSurface
      <4>2. <<k[1], d.heard[k]>> \in Client \X Nat
        BY <4>1
      <4> QED BY <3>2, <4>2, WindowAssumption DEF Alone
    <3> QED BY <2>2, <3>1, <3>2 DEF Shape
  <2> QED BY <2>1, <2>2
<1>2. CASE d.kbd = w
  BY <1>2 DEF EnsureKbdEntered
<1>3. CASE d.kbd # w /\ w[1] \in there /\ HasKeyboard(w[1])
  <2>1. e = [d EXCEPT !.heard = SendEnter(l, w), !.kbd = w]
    BY <1>3 DEF EnsureKbdEntered
  <2>2. /\ SendEnter(l, w) \in [Keyboard -> Surface \cup {NoSurface}]
        /\ \A k \in Keyboard : SendEnter(l, w)[k] = IF k \in keyboards /\ k[1] = w[1] THEN w[2] ELSE l[k]
    BY <1>1, <1>w DEF SendEnter
  <2>3. /\ e = [stack |-> d.stack, focused |-> d.focused, kbd |-> w,
                minimized |-> d.minimized, heard |-> SendEnter(l, w)]
    BY <2>1 DEF Shape
  <2>4. /\ e.kbd = w /\ e.heard = SendEnter(l, w) /\ e.focused = d.focused
        /\ e.minimized = d.minimized /\ e.stack = d.stack
    BY <2>3
  <2>5. Shape(e)
    BY <2>2, <2>3, <2>4 DEF Shape
  <2>6. Heard(e)
    BY <2>2, <2>4 DEF Heard
  <2>7. ASSUME Alone(d), d.kbd # None => d.kbd = w \/ d.kbd[1] \in there PROVE Alone(e)
    <3>1. \A k \in keyboards : l[k] = NoSurface
      BY <1>1, <1>3, <2>7
    <3> QED BY <3>1, <2>2, <2>4, <1>w DEF Alone
  <2> QED BY <2>4, <2>5, <2>6, <2>7
<1>4. CASE d.kbd # w /\ ~(w[1] \in there /\ HasKeyboard(w[1]))
  <2>1. e = [d EXCEPT !.heard = l, !.kbd = None]
    BY <1>4 DEF EnsureKbdEntered
  <2>3. /\ e = [stack |-> d.stack, focused |-> d.focused, kbd |-> None,
                minimized |-> d.minimized, heard |-> l]
    BY <2>1 DEF Shape
  <2>4. /\ e.kbd = None /\ e.heard = l /\ e.focused = d.focused
        /\ e.minimized = d.minimized /\ e.stack = d.stack
    BY <2>3
  <2>5. Shape(e) /\ Heard(e)
    BY <1>1, <2>3, <2>4 DEF Shape, Heard
  <2>7. ASSUME Alone(d), d.kbd # None => d.kbd = w \/ d.kbd[1] \in there PROVE Alone(e)
    BY <1>1, <1>4, <2>4, <2>7 DEF Alone
  <2> QED BY <2>4, <2>5, <2>7
<1> QED BY <1>2, <1>3, <1>4

LEMMA ActivateFacts ==
  ASSUME NEW d, Shape(d), NEW w, NEW there, NEW order, keyboards \subseteq Keyboard
  PROVE  LET e == Activate(d, w, there, order)
         IN  /\ Shape(e) /\ Activated(d, e, there)
             /\ w \in Window /\ Stackable(w, there) => e.focused = w
             /\ Heard(d) => Heard(e)
             /\ Alone(d) /\ (d.kbd # None => d.kbd[1] \in there) => Alone(e)
<1>1. CASE ~Stackable(w, there)
  BY <1>1 DEF Activate, Activated
<1>2. CASE Stackable(w, there)
  <2> DEFINE s == IF d.focused # w \/ w \in d.minimized
                  THEN RaiseSurface(d.stack, w, there, order) ELSE d.stack
             f == [d EXCEPT !.stack = s, !.focused = w, !.minimized = d.minimized \ {w}]
             e == EnsureKbdEntered(f, w, there)
  <2>1. w \in Window
    BY <1>2 DEF Stackable
  <2>2. Activate(d, w, there, order) = e
    BY <1>2 DEF Activate
  <2>3. f = [stack |-> s, focused |-> w, kbd |-> d.kbd, minimized |-> d.minimized \ {w}, heard |-> d.heard]
    <3> DEFINE g == [d EXCEPT !.stack = s]
    <3>1. f = [g EXCEPT !.focused = w, !.minimized = d.minimized \ {w}]
      OBVIOUS
    <3> HIDE DEF s
    <3>2. g = [stack |-> s, focused |-> d.focused, kbd |-> d.kbd, minimized |-> d.minimized, heard |-> d.heard]
      BY DEF Shape
    <3> HIDE DEF f, g
    <3> QED BY <3>1, <3>2
  <2>4. /\ f.kbd = d.kbd /\ f.heard = d.heard /\ f.focused = w /\ f.minimized = d.minimized \ {w}
        /\ f.stack = s
    BY <2>3
  <2> HIDE DEF f, s
  <2>5. Shape(f)
    BY <2>1, <2>3, <2>4 DEF Shape
  <2>6. (Heard(d) => Heard(f)) /\ (Alone(d) => Alone(f))
    BY <2>4 DEF Heard, Alone
  <2>7. /\ Shape(e) /\ e.kbd \in {w, None} /\ e.focused = f.focused /\ e.minimized = f.minimized
        /\ Heard(f) => Heard(e)
        /\ Alone(f) /\ (f.kbd # None => f.kbd = w \/ f.kbd[1] \in there) => Alone(e)
    BY <2>1, <2>5, EnsureFacts
  <2> HIDE DEF e
  <2> QED BY <1>2, <2>1, <2>2, <2>4, <2>6, <2>7 DEF Activated
<1> QED BY <1>1, <1>2

LEMMA TopmostFacts ==
  ASSUME NEW d, Shape(d), NEW x, NEW there, NEW order, keyboards \subseteq Keyboard
  PROVE  LET e == FocusTopmost(d, x, there, order)
         IN  /\ Shape(e) /\ Activated(d, e, there)
             /\ Heard(d) => Heard(e)
             /\ Alone(d) /\ (d.kbd # None => d.kbd[1] \in there) => Alone(e)
<1> DEFINE e == FocusTopmost(d, x, there, order)
<1>1. e = d \/ \E w : e = Activate(d, w, there, order)
  BY DEF FocusTopmost
<1>2. CASE e = d
  BY <1>2 DEF Activated
<1>3. CASE \E w : e = Activate(d, w, there, order)
  <2>1. PICK w : e = Activate(d, w, there, order)
    BY <1>3
  <2> QED BY <2>1, ActivateFacts
<1> QED BY <1>1, <1>2, <1>3

LEMMA ActivatedFacts ==
  ASSUME NEW d, NEW e, NEW there, Activated(d, e, there)
  PROVE  /\ Live(d) => Live(e)
         /\ Follows(d) => Follows(e)
         /\ d.focused \notin d.minimized => e.focused \notin e.minimized
         /\ e.minimized \subseteq d.minimized
<1>1. CASE e = d
  BY <1>1
<1>2. ASSUME NEW w \in Window, Stackable(w, there), e.focused = w, e.kbd \in {w, None},
             e.minimized = d.minimized \ {w}
      PROVE  Live(e) /\ Follows(e) /\ e.focused \notin e.minimized /\ e.minimized \subseteq d.minimized
  <2>1. role[w] # "none"
    BY <1>2 DEF Stackable
  <2> QED BY <2>1, <1>2 DEF Live, Follows
<1> QED BY <1>1, <1>2 DEF Activated

LEMMA HideFacts ==
  ASSUME NEW d, Shape(d), NEW w \in Window, keyboards \subseteq Keyboard
  PROVE  LET e == Hide(d, w)
         IN  /\ Shape(e) /\ e.minimized = d.minimized \cup {w}
             /\ e.focused = IF d.focused = w THEN None ELSE d.focused
             /\ e.kbd = IF d.focused = w THEN None ELSE d.kbd
             /\ Heard(d) => Heard(e)
             /\ Live(d) => Live(e)
             /\ Follows(d) => Follows(e)
             /\ Alone(d) /\ Follows(d) => Alone(e)
<1> DEFINE e == Hide(d, w)
<1>w. /\ w = <<w[1], w[2]>> /\ w # None
  BY WindowAssumption
<1>1. CASE d.focused = w
  <2>1. e = [d EXCEPT !.minimized = d.minimized \cup {w}, !.heard = SendLeave(d.heard, w),
                      !.focused = None, !.kbd = None]
    BY <1>1 DEF Hide
  <2>2. /\ SendLeave(d.heard, w) \in [Keyboard -> Surface \cup {NoSurface}]
        /\ \A k \in Keyboard : SendLeave(d.heard, w)[k] =
             IF k \in keyboards /\ k[1] = w[1] /\ d.heard[k] = w[2] THEN NoSurface ELSE d.heard[k]
    BY DEF SendLeave, Shape
  <2> HIDE DEF e
  <2>3. e = [stack |-> d.stack, focused |-> None, kbd |-> None,
             minimized |-> d.minimized \cup {w}, heard |-> SendLeave(d.heard, w)]
    <3> DEFINE m == d.minimized \cup {w}
               h == SendLeave(d.heard, w)
    <3>1. e = [d EXCEPT !.minimized = m, !.heard = h, !.focused = None, !.kbd = None]
      BY <2>1
    <3>2. e = [stack |-> d.stack, focused |-> None, kbd |-> None, minimized |-> m, heard |-> h]
      <4> HIDE DEF m, h
      <4> QED BY <3>1 DEF Shape
    <3> QED BY <3>2
  <2>4. /\ e.focused = None /\ e.kbd = None /\ e.minimized = d.minimized \cup {w}
        /\ e.heard = SendLeave(d.heard, w) /\ e.stack = d.stack
    BY <2>3
  <2>5. Shape(e)
    BY <2>2, <2>3, <2>4 DEF Shape
  <2>6. ASSUME Alone(d), Follows(d) PROVE Alone(e)
    <3>1. d.kbd \in {None, w}
      BY <1>1, <1>w, <2>6 DEF Follows
    <3>2. ASSUME NEW k \in keyboards PROVE e.heard[k] = NoSurface
      <4>1. k \in Client \X Nat /\ d.heard[k] \in Nat
        BY WindowAssumption DEF Shape, Surface, NoSurface
      <4>2. <<k[1], d.heard[k]>> \in Client \X Nat
        BY <4>1
      <4>3. d.heard[k] # NoSurface => k[1] = w[1] /\ d.heard[k] = w[2]
        BY <4>2, <3>1, <2>6, <1>w, WindowAssumption DEF Alone
      <4> QED BY <4>3, <2>2, <2>4
    <3> QED BY <3>2 DEF Alone
  <2>7. Heard(e) /\ Live(e) /\ Follows(e)
    BY <2>4 DEF Heard, Live, Follows
  <2> QED BY <1>1, <2>4, <2>5, <2>6, <2>7 DEF e
<1>2. CASE d.focused # w
  <2>1. e = [stack |-> d.stack, focused |-> d.focused, kbd |-> d.kbd,
             minimized |-> d.minimized \cup {w}, heard |-> d.heard]
    <3> DEFINE m == d.minimized \cup {w}
    <3>1. e = [d EXCEPT !.minimized = m]
      BY <1>2 DEF Hide
    <3> HIDE DEF m, e
    <3>2. e = [stack |-> d.stack, focused |-> d.focused, kbd |-> d.kbd,
               minimized |-> m, heard |-> d.heard]
      BY <3>1 DEF Shape
    <3> QED BY <3>2 DEF m
  <2> HIDE DEF e
  <2>2. /\ e.focused = d.focused /\ e.kbd = d.kbd /\ e.minimized = d.minimized \cup {w}
        /\ e.heard = d.heard /\ e.stack = d.stack
    BY <2>1
  <2>3. Shape(e)
    BY <2>1, <2>2 DEF Shape
  <2> QED BY <1>2, <2>2, <2>3 DEF Heard, Live, Follows, Alone, e
<1> QED BY <1>1, <1>2

LEMMA MinimizeFacts ==
  ASSUME NEW d, Shape(d), NEW w, NEW there, NEW order, keyboards \subseteq Keyboard
  PROVE  LET e == Minimize(d, w, there, order)
         IN  /\ Shape(e)
             /\ Heard(d) => Heard(e)
             /\ Live(d) => Live(e)
             /\ Follows(d) => Follows(e)
             /\ Alone(d) /\ Follows(d) /\ (d.kbd # None => d.kbd[1] \in there) => Alone(e)
             /\ e.minimized \subseteq d.minimized \cup {x \in Window : Toplevel(x, there)}
             /\ d.focused \notin d.minimized => e.focused \notin e.minimized
             /\ d.focused = w /\ Toplevel(w, there) => e.focused \notin e.minimized
             /\ e.kbd # None => e.kbd = d.kbd \/ e.kbd[1] \in there
<1> DEFINE e == Minimize(d, w, there, order)
           h == Hide(d, w)
<1>1. CASE ~Toplevel(w, there)
  BY <1>1 DEF Minimize
<1>2. CASE Toplevel(w, there)
  <2>1. w \in Window
    BY <1>2 DEF Toplevel
  <2>2. /\ Shape(h) /\ h.minimized = d.minimized \cup {w}
        /\ h.focused = IF d.focused = w THEN None ELSE d.focused
        /\ h.kbd = IF d.focused = w THEN None ELSE d.kbd
        /\ Heard(d) => Heard(h)
        /\ Live(d) => Live(h)
        /\ Follows(d) => Follows(h)
        /\ Alone(d) /\ Follows(d) => Alone(h)
    BY <2>1, HideFacts
  <2>3. e = h \/ (d.focused = w /\ e = FocusTopmost(h, w, there, order))
    BY <1>2 DEF Minimize
  <2> HIDE DEF h, e
  <2>4. Shape(e) /\ Activated(h, e, there) /\ (Heard(h) => Heard(e))
        /\ (Alone(h) /\ (h.kbd # None => h.kbd[1] \in there) => Alone(e))
    <3>1. CASE e = h
      BY <3>1, <2>2 DEF Activated
    <3>2. CASE e = FocusTopmost(h, w, there, order)
      BY <3>2, <2>2, TopmostFacts
    <3> QED BY <2>3, <3>1, <3>2
  <2>5. /\ Live(h) => Live(e)
        /\ Follows(h) => Follows(e)
        /\ h.focused \notin h.minimized => e.focused \notin e.minimized
        /\ e.minimized \subseteq h.minimized
    BY <2>4, ActivatedFacts
  <2>6. None \notin h.minimized
    BY <2>2, WindowAssumption DEF Shape
  <2>7. d.focused \notin d.minimized => h.focused \notin h.minimized
    BY <2>2, <2>6
  <2>8. e.kbd = h.kbd \/ e.kbd = None \/ e.kbd[1] \in there
    BY <2>4 DEF Activated, Stackable
  <2>9. w \in {x \in Window : Toplevel(x, there)}
    BY <1>2, <2>1
  <2>10. e.minimized \subseteq d.minimized \cup {x \in Window : Toplevel(x, there)}
    BY <2>2, <2>5, <2>9
  <2>11. d.focused = w => e.focused \notin e.minimized
    BY <2>2, <2>5, <2>6
  <2>12. e.kbd # None => e.kbd = d.kbd \/ e.kbd[1] \in there
    BY <2>2, <2>8
  <2>13. d.kbd # None /\ d.kbd[1] \in there => h.kbd = None \/ h.kbd[1] \in there
    BY <2>2
  <2> QED BY <2>2, <2>4, <2>5, <2>7, <2>10, <2>11, <2>12, <2>13 DEF e
<1> QED BY <1>1, <1>2

LEMMA ForgetFacts ==
  ASSUME NEW d, Shape(d), NEW w \in Window, keyboards \subseteq Keyboard
  PROVE  LET e == Forget(d, w)
         IN  /\ Shape(e) /\ e.minimized = d.minimized \ {w}
             /\ e.focused = IF d.focused = w THEN None ELSE d.focused
             /\ e.kbd = IF d.kbd = w THEN None ELSE d.kbd
             /\ Heard(d) => Heard(e)
             /\ Alone(d) => Alone(e)
<1> DEFINE h == [k \in Keyboard |-> IF k[1] = w[1] /\ d.heard[k] = w[2] THEN NoSurface ELSE d.heard[k]]
           s == Without(d.stack, w)
           m == d.minimized \ {w}
           f == IF d.focused = w THEN None ELSE d.focused
           b == IF d.kbd = w THEN None ELSE d.kbd
           e == Forget(d, w)
<1>1. e = [d EXCEPT !.stack = s, !.minimized = m, !.focused = f, !.kbd = b, !.heard = h]
  <2>1. d = [stack |-> d.stack, focused |-> d.focused, kbd |-> d.kbd,
             minimized |-> d.minimized, heard |-> d.heard]
    BY DEF Shape
  <2> QED BY <2>1 DEF Forget
<1>2. e = [stack |-> s, focused |-> f, kbd |-> b, minimized |-> m, heard |-> h]
  <2> HIDE DEF h, s, m, f, b, e
  <2> QED BY <1>1 DEF Shape
<1>3. h \in [Keyboard -> Surface \cup {NoSurface}]
  BY DEF Shape
<1>4. /\ e.stack = s /\ e.focused = f /\ e.kbd = b /\ e.minimized = m /\ e.heard = h
  BY <1>2
<1>5. Shape(e)
  <2>1. f \in Window \cup {None} /\ b \in Window \cup {None} /\ m \subseteq Window
    BY DEF Shape
  <2> HIDE DEF h, s, m, f, b, e
  <2> QED BY <1>2, <1>3, <1>4, <2>1 DEF Shape
<1>6. Heard(d) => Heard(e)
  <2> SUFFICES ASSUME Heard(d), e.kbd # None, NEW k \in keyboards, k[1] = e.kbd[1]
               PROVE  e.heard[k] = e.kbd[2]
    BY DEF Heard
  <2>1. e.kbd = d.kbd /\ d.kbd # w
    BY <1>4
  <2>2. d.heard[k] = d.kbd[2]
    BY <2>1 DEF Heard
  <2>3. d.kbd = <<d.kbd[1], d.kbd[2]>> /\ w = <<w[1], w[2]>>
    BY <2>1, WindowAssumption DEF Shape
  <2>4. ~(k[1] = w[1] /\ d.heard[k] = w[2])
    BY <2>1, <2>2, <2>3
  <2> QED BY <1>4, <2>1, <2>2, <2>4
<1>7. Alone(d) => Alone(e)
  <2> SUFFICES ASSUME Alone(d), NEW k \in keyboards, e.heard[k] # NoSurface
               PROVE  e.kbd = <<k[1], e.heard[k]>>
    BY DEF Alone
  <2>1. e.heard[k] = d.heard[k] /\ ~(k[1] = w[1] /\ d.heard[k] = w[2])
    BY <1>4
  <2>2. d.kbd = <<k[1], d.heard[k]>>
    BY <2>1 DEF Alone
  <2>3. d.kbd # w
    BY <2>1, <2>2
  <2> QED BY <1>4, <2>1, <2>2, <2>3
<1> QED BY <1>4, <1>5, <1>6, <1>7

-----------------------------------------------------------------------------
(***************************************************************************)
(* The invariants.  Inv holds in every instance.  Calm holds in those      *)
(* where no grab moves the focus without the keyboard: there the keyboard  *)
(* is on the focus or on nothing while there is a focus.  If the VT is     *)
(* kept too, whoever must be told to leave can be told.                    *)
(***************************************************************************)
Base ==
  /\ connected \subseteq Client /\ busy \in connected \cup {NoClient}
  /\ keyboards \subseteq Keyboard
  /\ role \in [Window -> Roles \cup {"none", "plain", "orphan"}]
  /\ mapped \subseteq {w \in Window : role[w] # "none"}
  /\ \A w \in Window : role[w] # "none" => w[1] \in connected
  /\ restoring # <<>> => busy = NoClient

Inv ==
  /\ Base
  /\ desk.minimized \subseteq {w \in Window : role[w] = "toplevel"}
  /\ Good(desk)

NoGrabs == "grab" \notin Allow
VTKept == "vt" \notin Allow

Calm ==
  /\ VTKept => Alone(desk)
  /\ Follows(desk)
  /\ desk.focused \in desk.minimized =>
       busy # NoClient /\ desk.focused[1] = busy /\ pending_minimize = desk.focused

LEMMA DeskStep ==
  ASSUME Inv, Base', Shape(desk'), Heard(desk'), Live(desk'), UNCHANGED <<role, keyboards>>,
         desk'.minimized \subseteq {w \in Window : role[w] = "toplevel"}
  PROVE  Inv'
BY DEF Inv, Good, Heard, Live, Shape

LEMMA CalmStep ==
  ASSUME VTKept => Alone(desk'), Follows(desk'), desk'.focused \notin desk'.minimized,
         UNCHANGED keyboards
  PROVE  Calm'
BY DEF Calm, Alone, Follows

(* A step that leaves the focus where it is, and hides no window.          *)
LEMMA CalmKeeps ==
  ASSUME Calm, VTKept => Alone(desk)', desk'.focused = desk.focused,
         desk'.kbd \in {desk.kbd, desk.focused, None}, desk'.minimized \subseteq desk.minimized,
         UNCHANGED pending_minimize, busy' = busy \/ busy = NoClient
  PROVE  Calm'
BY DEF Calm, Follows

LEMMA WindowPair == \A w \in Window : w = <<w[1], w[2]>> /\ w # None /\ w[1] \in Client /\ w[1] # NoClient
BY WindowAssumption

(* Who has the keyboard can be told to leave while no client is served.    *)
LEMMA KbdIsThere ==
  ASSUME Inv PROVE desk.kbd # None => desk.kbd \in Window /\ desk.kbd[1] \in connected
BY DEF Inv, Base, Good, Live, Shape

(* An activation between batches.                                          *)
LEMMA ActivateStep ==
  ASSUME Inv, NEW w, NEW order, busy = NoClient, desk' = Activate(desk, w, Clients, order),
         UNCHANGED <<role, keyboards>>, Base'
  PROVE  Inv' /\ (Calm => Calm')
<1>1. Clients = connected
  BY WindowAssumption DEF Clients, Inv, Base
<1>2. /\ Shape(desk') /\ Activated(desk, desk', connected)
      /\ Heard(desk) => Heard(desk')
      /\ Alone(desk) /\ (desk.kbd # None => desk.kbd[1] \in connected) => Alone(desk')
  BY <1>1, ActivateFacts DEF Inv, Base, Good
<1>3. /\ Live(desk) => Live(desk')
      /\ Follows(desk) => Follows(desk')
      /\ desk.focused \notin desk.minimized => desk'.focused \notin desk'.minimized
      /\ desk'.minimized \subseteq desk.minimized
  BY <1>2, ActivatedFacts
<1>4. Inv'
  BY <1>2, <1>3, DeskStep DEF Inv, Good
<1>5. Calm => Calm'
  BY <1>2, <1>3, CalmStep, KbdIsThere DEF Calm
<1> QED BY <1>4, <1>5

(* A minimization between batches.                                         *)
LEMMA MinimizeStep ==
  ASSUME Inv, NEW w, NEW order, busy = NoClient, desk' = Minimize(desk, w, Clients, order),
         UNCHANGED <<role, keyboards>>, Base'
  PROVE  Inv' /\ (Calm => Calm')
<1>1. Clients = connected
  BY WindowAssumption DEF Clients, Inv, Base
<1>2. /\ Shape(desk')
      /\ Heard(desk) => Heard(desk')
      /\ Live(desk) => Live(desk')
      /\ Follows(desk) => Follows(desk')
      /\ Alone(desk) /\ Follows(desk) /\ (desk.kbd # None => desk.kbd[1] \in connected) => Alone(desk')
      /\ desk'.minimized \subseteq desk.minimized \cup {x \in Window : Toplevel(x, connected)}
      /\ desk.focused \notin desk.minimized => desk'.focused \notin desk'.minimized
  BY <1>1, MinimizeFacts DEF Inv, Base, Good
<1>3. desk'.minimized \subseteq {x \in Window : role[x] = "toplevel"}
  BY <1>2 DEF Inv, Toplevel
<1>4. Inv'
  BY <1>2, <1>3, DeskStep DEF Inv, Good
<1>5. Calm => Calm'
  BY <1>2, CalmStep, KbdIsThere DEF Calm
<1> QED BY <1>4, <1>5

(* A desk with another order of windows, other minimized windows and       *)
(* another focus.                                                          *)
Put(d, s, m, f) ==
  [stack |-> s, focused |-> f, kbd |-> d.kbd, minimized |-> m, heard |-> d.heard]

LEMMA SameFields ==
  ASSUME NEW d, Shape(d)
  PROVE  /\ \A s : [d EXCEPT !.stack = s] = Put(d, s, d.minimized, d.focused)
         /\ \A s, f : [d EXCEPT !.stack = s, !.focused = f] = Put(d, s, d.minimized, f)
         /\ \A s, m : [d EXCEPT !.stack = s, !.minimized = m] = Put(d, s, m, d.focused)
         /\ \A m : [d EXCEPT !.minimized = m] = Put(d, d.stack, m, d.focused)
         /\ \A f : [d EXCEPT !.focused = f] = Put(d, d.stack, d.minimized, f)
<1>1. d = [stack |-> d.stack, focused |-> d.focused, kbd |-> d.kbd,
           minimized |-> d.minimized, heard |-> d.heard]
  BY DEF Shape
<1>2. \A s : [d EXCEPT !.stack = s] = Put(d, s, d.minimized, d.focused)
  BY <1>1 DEF Put
<1>3. \A m : [d EXCEPT !.minimized = m] = Put(d, d.stack, m, d.focused)
  BY <1>1 DEF Put
<1>4. \A f : [d EXCEPT !.focused = f] = Put(d, d.stack, d.minimized, f)
  BY <1>1 DEF Put
<1>5. \A s, f : [d EXCEPT !.stack = s, !.focused = f] = Put(d, s, d.minimized, f)
  <2> TAKE s, f
  <2>1. [d EXCEPT !.stack = s, !.focused = f] = [[d EXCEPT !.stack = s] EXCEPT !.focused = f]
    OBVIOUS
  <2>2. [Put(d, s, d.minimized, d.focused) EXCEPT !.focused = f] = Put(d, s, d.minimized, f)
    BY DEF Put
  <2> QED BY <1>2, <2>1, <2>2
<1>6. \A s, m : [d EXCEPT !.stack = s, !.minimized = m] = Put(d, s, m, d.focused)
  <2> TAKE s, m
  <2>1. [d EXCEPT !.stack = s, !.minimized = m] = [[d EXCEPT !.stack = s] EXCEPT !.minimized = m]
    OBVIOUS
  <2>2. [Put(d, s, d.minimized, d.focused) EXCEPT !.minimized = m] = Put(d, s, m, d.focused)
    BY DEF Put
  <2> QED BY <1>2, <2>1, <2>2
<1> QED BY <1>2, <1>3, <1>4, <1>5, <1>6

LEMMA PutFacts ==
  ASSUME NEW d, Shape(d), NEW s, NEW m \in SUBSET Window, NEW f \in Window \cup {None}
  PROVE  LET e == Put(d, s, m, f)
         IN  /\ Shape(e) /\ e.focused = f /\ e.kbd = d.kbd /\ e.minimized = m
             /\ e.heard = d.heard
             /\ Heard(d) => Heard(e)
             /\ Alone(d) => Alone(e)
BY DEF Put, Shape, Heard, Alone

(* The same, as a step of the server.                                      *)
LEMMA PutStep ==
  ASSUME Inv, Base', NEW s, NEW m, NEW f, desk' = Put(desk, s, m, f),
         m \subseteq {w \in Window : role'[w] = "toplevel"},
         f = None \/ (f \in Window /\ role'[f] # "none"),
         desk.kbd # None => role'[desk.kbd] # "none",
         UNCHANGED keyboards
  PROVE  /\ Inv'
         /\ desk'.focused = f /\ desk'.kbd = desk.kbd /\ desk'.minimized = m
         /\ Alone(desk) => Alone(desk)'
<1>1. f \in Window \cup {None} /\ m \in SUBSET Window /\ Shape(desk)
  BY DEF Inv, Good, Shape
<1> DEFINE e == Put(desk, s, m, f)
<1>2. /\ Shape(e) /\ e.focused = f /\ e.kbd = desk.kbd /\ e.minimized = m
      /\ Heard(desk) => Heard(e)
      /\ Alone(desk) => Alone(e)
  BY <1>1, PutFacts
<1>3. desk' = e
  OBVIOUS
<1> HIDE DEF e
<1>4. Shape(desk)' /\ Live(desk)'
  BY <1>2, <1>3 DEF Shape, Live
<1>5. Heard(desk)' /\ (Alone(desk) => Alone(desk)')
  BY <1>2, <1>3 DEF Inv, Good, Heard, Alone
<1> QED BY <1>2, <1>3, <1>4, <1>5 DEF Inv, Good

(* A step that moves no focus and hides no window.                         *)
LEMMA OrderStep ==
  ASSUME Inv, Base', NEW s, NEW m, desk' = Put(desk, s, m, desk.focused), m \subseteq desk.minimized,
         m \subseteq {w \in Window : role'[w] = "toplevel"},
         \A w \in Window : role[w] # "none" => role'[w] # "none",
         UNCHANGED keyboards
  PROVE  /\ Inv' /\ (UNCHANGED <<busy, pending_minimize>> /\ Calm => Calm')
<1>1. /\ desk.focused # None => role'[desk.focused] # "none"
      /\ desk.kbd # None => role'[desk.kbd] # "none"
      /\ desk.focused \in Window \cup {None}
  BY DEF Inv, Good, Live, Shape
<1>2. /\ Inv'
      /\ desk'.focused = desk.focused /\ desk'.kbd = desk.kbd /\ desk'.minimized = m
      /\ Alone(desk) => Alone(desk)'
  BY <1>1, PutStep
<1> QED BY <1>2, CalmKeeps DEF Calm

(* A step that changes nothing of the desk.                                *)
LEMMA RoleStep ==
  ASSUME Inv, Base', UNCHANGED <<keyboards, desk>>,
         \A w \in Window : role[w] # "none" => role'[w] # "none",
         \A w \in Window : role[w] = "toplevel" => role'[w] = "toplevel"
  PROVE  Inv' /\ (UNCHANGED pending_minimize /\ (busy' = busy \/ busy = NoClient) /\ Calm => Calm')
<1>1. Inv'
  BY DEF Inv, Good, Shape, Heard, Live
<1>2. Alone(desk) => Alone(desk)'
  BY DEF Alone
<1> QED BY <1>1, <1>2, CalmKeeps DEF Calm

-----------------------------------------------------------------------------
(***************************************************************************)
(* Every action.                                                           *)
(***************************************************************************)
LEMMA ConnectStep ==
  ASSUME Inv, NEW c \in Client, Connect(c) PROVE Inv' /\ (Calm => Calm')
<1>1. Base'
  BY DEF Inv, Base, Connect, Idle, windowVars, desktopVars
<1> QED BY <1>1, RoleStep DEF Connect, windowVars, pendingVars

LEMMA BeginBatchStep ==
  ASSUME Inv, NEW c \in Client, BeginBatch(c) PROVE Inv' /\ (Calm => Calm')
<1>1. Base'
  BY DEF Inv, Base, BeginBatch, Idle, windowVars, desktopVars
<1> QED BY <1>1, RoleStep DEF BeginBatch, Idle, windowVars, pendingVars

LEMMA CreateSurfaceStep ==
  ASSUME Inv, NEW w \in Window, CreateSurface(w) PROVE Inv' /\ (Calm => Calm')
<1>1. Base'
  BY WindowPair DEF Inv, Base, CreateSurface, desktopVars
<1>2. \A x \in Window : /\ role[x] # "none" => role'[x] # "none"
                        /\ role[x] = "toplevel" => role'[x] = "toplevel"
  BY DEF Inv, Base, CreateSurface
<1> QED BY <1>1, <1>2, RoleStep DEF CreateSurface, pendingVars

LEMMA TakeRoleStep ==
  ASSUME Inv, NEW w \in Window, NEW r, TakeRole(w, r) PROVE Inv' /\ (Calm => Calm')
<1>1. r # "none"
  BY RoleAssumption DEF TakeRole
<1>2. Base'
  BY <1>1, WindowPair DEF Inv, Base, TakeRole, desktopVars
<1>3. \A x \in Window : /\ role[x] # "none" => role'[x] # "none"
                        /\ role[x] = "toplevel" => role'[x] = "toplevel"
  BY <1>1 DEF Inv, Base, TakeRole
<1> QED BY <1>2, <1>3, RoleStep DEF TakeRole, pendingVars

LEMMA DestroyLayerStep ==
  ASSUME Inv, NEW w \in Window, DestroyLayer(w) PROVE Inv' /\ (Calm => Calm')
<1>1. Base'
  BY WindowPair DEF Inv, Base, DestroyLayer, desktopVars
<1>2. \A x \in Window : /\ role[x] # "none" => role'[x] # "none"
                        /\ role[x] = "toplevel" => role'[x] = "toplevel"
  BY DEF Inv, Base, DestroyLayer
<1> QED BY <1>1, <1>2, RoleStep DEF DestroyLayer, pendingVars

LEMMA BeginRestoreStep ==
  ASSUME Inv, BeginRestore PROVE Inv' /\ (Calm => Calm')
<1>1. Base'
  BY DEF Inv, Base, BeginRestore, Idle, windowVars
<1> QED BY <1>1, RoleStep DEF BeginRestore, windowVars, pendingVars

LEMMA DestroyToplevelStep ==
  ASSUME Inv, NEW w \in Window, DestroyToplevel(w) PROVE Inv' /\ (Calm => Calm')
<1>1. Base'
  BY WindowPair DEF Inv, Base, DestroyToplevel, desktopVars
<1>2. desk' = Put(desk, Without(desk.stack, w), desk.minimized \ {w}, desk.focused)
  BY SameFields DEF DestroyToplevel, Inv, Good
<1>3. /\ \A x \in Window : role[x] # "none" => role'[x] # "none"
      /\ desk.minimized \ {w} \subseteq {x \in Window : role'[x] = "toplevel"}
  BY DEF Inv, Base, DestroyToplevel
<1> QED BY <1>1, <1>2, <1>3, OrderStep DEF DestroyToplevel, pendingVars

(* The order of windows changes, and nothing else of the desk.             *)
LEMMA StackStep ==
  ASSUME Inv, Base', NEW s, desk' = [desk EXCEPT !.stack = s],
         UNCHANGED <<role, keyboards, busy, pending_minimize>>
  PROVE  Inv' /\ (Calm => Calm')
<1>1. desk' = Put(desk, s, desk.minimized, desk.focused)
  BY SameFields DEF Inv, Good
<1> QED BY <1>1, OrderStep DEF Inv

LEMMA SetParentStep ==
  ASSUME Inv, NEW w \in Window, NEW p, SetParent(w, p) PROVE Inv' /\ (Calm => Calm')
<1>1. Base'
  BY DEF Inv, Base, SetParent, desktopVars
<1>2. (\E s : desk' = [desk EXCEPT !.stack = s]) \/ desk' = desk
  BY DEF SetParent
<1>3. CASE \E s : desk' = [desk EXCEPT !.stack = s]
  BY <1>1, <1>3, StackStep DEF SetParent, pendingVars
<1>4. CASE desk' = desk
  BY <1>1, <1>4, RoleStep DEF SetParent, pendingVars
<1> QED BY <1>2, <1>3, <1>4

LEMMA MapStep ==
  ASSUME Inv, NEW w \in Window, Map(w) PROVE Inv' /\ (Calm => Calm')
<1>1. role[w] # "none"
  BY RoleAssumption DEF Map
<1>2. Base'
  BY <1>1 DEF Inv, Base, Map, desktopVars
<1>3. (\E s : desk' = [desk EXCEPT !.stack = s]) \/ desk' = desk
  BY DEF Map
<1>4. CASE \E s : desk' = [desk EXCEPT !.stack = s]
  BY <1>2, <1>4, StackStep DEF Map
<1>5. CASE desk' = desk
  BY <1>2, <1>5, RoleStep DEF Map
<1> QED BY <1>3, <1>4, <1>5

LEMMA RecommitStep ==
  ASSUME Inv, NEW w \in Window, Recommit(w) PROVE Inv' /\ (Calm => Calm')
<1>1. Base'
  BY DEF Inv, Base, Recommit, windowVars, desktopVars
<1>2. \E s : desk' = [desk EXCEPT !.stack = s]
  BY DEF Recommit
<1> QED BY <1>1, <1>2, StackStep DEF Recommit, windowVars, pendingVars

LEMMA UnmapStep ==
  ASSUME Inv, NEW w \in Window, Unmap(w) PROVE Inv' /\ (Calm => Calm')
<1>1. Base'
  BY DEF Inv, Base, Unmap, desktopVars
<1>2. \E s : desk' = [desk EXCEPT !.stack = s]
  BY DEF Unmap
<1> QED BY <1>1, <1>2, StackStep DEF Unmap

LEMMA SetMinimizedStep ==
  ASSUME Inv, NEW w \in Window, SetMinimized(w) PROVE Inv' /\ (Calm => Calm')
<1>1. Base'
  BY DEF Inv, Base, SetMinimized, windowVars, desktopVars
<1>2. desk' = Put(desk, desk.stack, desk.minimized \cup {w}, desk.focused)
  BY SameFields DEF SetMinimized, Inv, Good
<1>3. /\ desk.minimized \cup {w} \subseteq {x \in Window : role'[x] = "toplevel"}
      /\ desk.focused = None \/ (desk.focused \in Window /\ role'[desk.focused] # "none")
      /\ desk.kbd # None => role'[desk.kbd] # "none"
  BY DEF Inv, Good, Live, Shape, SetMinimized, windowVars
<1>4. /\ Inv' /\ desk'.focused = desk.focused /\ desk'.kbd = desk.kbd
      /\ desk'.minimized = desk.minimized \cup {w}
      /\ Alone(desk) => Alone(desk)'
  BY <1>1, <1>2, <1>3, PutStep DEF SetMinimized
<1>5. Calm => Calm'
  BY <1>4, WindowPair DEF Calm, Follows, SetMinimized
<1> QED BY <1>4, <1>5

(* What one keyboard object hears changes.                                 *)
LEMMA GetKeyboardStep ==
  ASSUME Inv, NEW k \in Keyboard, GetKeyboard(k) PROVE Inv' /\ (Calm => Calm')
<1> DEFINE v == IF desk.kbd # None /\ desk.kbd[1] = k[1] THEN desk.kbd[2] ELSE NoSurface
           h == [desk.heard EXCEPT ![k] = v]
<1>1. Base'
  BY DEF Inv, Base, GetKeyboard, windowVars, desktopVars
<1>2. v \in Surface \cup {NoSurface}
  BY DEF Inv, Good, Shape, Surface
<1>3. h \in [Keyboard -> Surface \cup {NoSurface}] /\ h[k] = v
      /\ \A j \in Keyboard \ {k} : h[j] = desk.heard[j]
  BY <1>2 DEF Inv, Good, Shape
<1>4. desk' = [desk EXCEPT !.heard = h]
  BY DEF GetKeyboard
<1> HIDE DEF h
<1>5. desk' = [stack |-> desk.stack, focused |-> desk.focused, kbd |-> desk.kbd,
               minimized |-> desk.minimized, heard |-> h]
  BY <1>4 DEF Inv, Good, Shape
<1>6. /\ desk'.focused = desk.focused /\ desk'.kbd = desk.kbd /\ desk'.heard = h
      /\ desk'.minimized = desk.minimized /\ desk'.stack = desk.stack
  BY <1>5
<1>7. keyboards' = keyboards \cup {k} /\ keyboards \subseteq Keyboard /\ k \notin keyboards
  BY DEF GetKeyboard, Inv, Base
<1>8. Shape(desk)'
  BY <1>3, <1>5, <1>6 DEF Inv, Good, Shape
<1>9. Heard(desk)' /\ Live(desk)'
  BY <1>3, <1>6, <1>7 DEF Inv, Good, Heard, Live, GetKeyboard, windowVars
<1>10. Inv'
  BY <1>1, <1>6, <1>8, <1>9 DEF Inv, Good, GetKeyboard, windowVars
<1>11. Alone(desk) => Alone(desk)'
  <2> SUFFICES ASSUME Alone(desk), NEW j \in keyboards', desk'.heard[j] # NoSurface
               PROVE  desk'.kbd = <<j[1], desk'.heard[j]>>
    BY DEF Alone
  <2>1. CASE j = k
    <3>1. desk.kbd # None /\ desk.kbd[1] = k[1] /\ h[k] = desk.kbd[2]
      BY <2>1, <1>3, <1>6
    <3>2. desk.kbd = <<desk.kbd[1], desk.kbd[2]>>
      BY <3>1, WindowPair DEF Inv, Good, Shape
    <3> QED BY <2>1, <3>1, <3>2, <1>6
  <2>2. CASE j # k
    BY <2>2, <1>3, <1>6, <1>7 DEF Alone
  <2> QED BY <2>1, <2>2
<1> QED BY <1>6, <1>10, <1>11, CalmKeeps DEF GetKeyboard, pendingVars, Calm

LEMMA ReleaseKeyboardStep ==
  ASSUME Inv, NEW k \in Keyboard, ReleaseKeyboard(k) PROVE Inv' /\ (Calm => Calm')
<1> DEFINE h == [desk.heard EXCEPT ![k] = NoSurface]
<1>1. Base'
  BY DEF Inv, Base, ReleaseKeyboard, windowVars, desktopVars
<1>3. h \in [Keyboard -> Surface \cup {NoSurface}] /\ \A j \in Keyboard \ {k} : h[j] = desk.heard[j]
  BY DEF Inv, Good, Shape
<1>4. desk' = [desk EXCEPT !.heard = h]
  BY DEF ReleaseKeyboard
<1> HIDE DEF h
<1>5. desk' = [stack |-> desk.stack, focused |-> desk.focused, kbd |-> desk.kbd,
               minimized |-> desk.minimized, heard |-> h]
  BY <1>4 DEF Inv, Good, Shape
<1>6. /\ desk'.focused = desk.focused /\ desk'.kbd = desk.kbd /\ desk'.heard = h
      /\ desk'.minimized = desk.minimized /\ desk'.stack = desk.stack
  BY <1>5
<1>7. keyboards' = keyboards \ {k} /\ keyboards \subseteq Keyboard
  BY DEF ReleaseKeyboard, Inv, Base
<1>8. Shape(desk)'
  BY <1>3, <1>5, <1>6 DEF Inv, Good, Shape
<1>9. Heard(desk)' /\ Live(desk)'
  BY <1>3, <1>6, <1>7 DEF Inv, Good, Heard, Live, ReleaseKeyboard, windowVars
<1>10. Inv'
  BY <1>1, <1>6, <1>8, <1>9 DEF Inv, Good, ReleaseKeyboard, windowVars
<1>11. Alone(desk) => Alone(desk)'
  BY <1>3, <1>6, <1>7 DEF Alone
<1> QED BY <1>6, <1>10, <1>11, CalmKeeps DEF ReleaseKeyboard, pendingVars, Calm

(* The window that is destroyed is of the client being served, so that no  *)
(* window that can take the focus from it is.                              *)
LEMMA DestroySurfaceStep ==
  ASSUME Inv, NEW w \in Window, DestroySurface(w) PROVE Inv' /\ (Calm => Calm')
<1> DEFINE h == Forget(desk, w)
<1>1. Base'
  BY WindowPair DEF Inv, Base, DestroySurface, desktopVars
<1>2. /\ Shape(h) /\ h.minimized = desk.minimized \ {w}
      /\ h.focused = IF desk.focused = w THEN None ELSE desk.focused
      /\ h.kbd = IF desk.kbd = w THEN None ELSE desk.kbd
      /\ Heard(h) /\ (Alone(desk) => Alone(h))
  BY ForgetFacts DEF Inv, Base, Good
<1>3. PICK e : /\ desk' = e
               /\ \/ e = h
                  \/ desk.focused = w /\ \E order : e = FocusTopmost(h, w, Clients, order)
                  \/ desk.focused = w /\ \E s : e = [h EXCEPT !.stack = s]
  BY DEF DestroySurface
<1> HIDE DEF h
<1>4. /\ Shape(e) /\ Heard(e)
      /\ \/ Activated(h, e, Clients)
         \/ e.focused = h.focused /\ e.kbd = h.kbd /\ e.minimized = h.minimized
      /\ Alone(desk) /\ Follows(desk) => Alone(e)
  <2>1. CASE e = h
    BY <2>1, <1>2
  <2>2. ASSUME desk.focused = w, NEW order, e = FocusTopmost(h, w, Clients, order) PROVE <1>4!:
    <3>1. /\ Shape(e) /\ Activated(h, e, Clients) /\ Heard(e)
          /\ Alone(h) /\ (h.kbd # None => h.kbd[1] \in Clients) => Alone(e)
      BY <1>2, <2>2, TopmostFacts DEF Inv, Base
    <3>2. Follows(desk) => h.kbd = None
      BY <1>2, <2>2, WindowPair DEF Follows
    <3> QED BY <1>2, <3>1, <3>2
  <2>3. ASSUME desk.focused = w, NEW s, e = [h EXCEPT !.stack = s] PROVE <1>4!:
    <3>1. e = Put(h, s, h.minimized, h.focused)
      BY <1>2, <2>3, SameFields
    <3>2. h.minimized \in SUBSET Window /\ h.focused \in Window \cup {None}
      BY <1>2 DEF Shape
    <3> QED BY <3>1, <3>2, <1>2, PutFacts
  <2> QED BY <1>3, <2>1, <2>2, <2>3
<1>5. /\ e.minimized \subseteq desk.minimized \ {w}
      /\ \/ e.focused = h.focused /\ e.kbd = h.kbd
         \/ \E x \in Window : /\ x # w /\ role[x] # "none" /\ e.focused = x /\ e.kbd \in {x, None}
                              /\ x \notin e.minimized
  <2>1. CASE e.focused = h.focused /\ e.kbd = h.kbd /\ e.minimized = h.minimized
    BY <2>1, <1>2
  <2>2. CASE e = h
    BY <2>2, <1>2
  <2>3. ASSUME NEW x \in Window, Stackable(x, Clients), e.focused = x, e.kbd \in {x, None},
               e.minimized = h.minimized \ {x}
        PROVE  <1>5!:
    <3>1. x # w /\ role[x] # "none"
      BY <2>3 DEF Stackable, Clients, DestroySurface
    <3> QED BY <2>3, <3>1, <1>2
  <2> QED BY <1>4, <2>1, <2>2, <2>3 DEF Activated
<1>6. \A x \in Window : x # w => role'[x] = role[x]
  BY DEF DestroySurface, Inv, Base
<1>7. /\ e.focused # w /\ e.kbd # w
      /\ e.focused # None => role'[e.focused] # "none"
      /\ e.kbd # None => role'[e.kbd] # "none"
  BY <1>2, <1>5, <1>6, WindowPair DEF Inv, Good, Live, Shape
<1>8. desk'.minimized \subseteq {x \in Window : role'[x] = "toplevel"}
  BY <1>3, <1>5, <1>6 DEF Inv
<1>9. Inv'
  <2>1. Live(desk)' /\ Shape(desk)' /\ Heard(desk)'
    BY <1>3, <1>4, <1>7 DEF Live, Shape, Heard, DestroySurface
  <2> QED BY <1>1, <1>8, <2>1 DEF Inv, Good
<1>10. Calm => Calm'
  <2> SUFFICES ASSUME Calm PROVE Calm'
    OBVIOUS
  <2>1. VTKept => Alone(desk)'
    BY <1>3, <1>4 DEF Calm, Alone, DestroySurface
  <2>2. Follows(desk)'
    BY <1>2, <1>3, <1>5 DEF Calm, Follows
  <2>3. None \notin e.minimized
    BY <1>5, WindowPair DEF Inv
  <2>4. e.focused \in e.minimized => e.focused = desk.focused /\ desk.focused \in desk.minimized
    BY <1>2, <1>5, <2>3
  <2> QED BY <1>3, <2>1, <2>2, <2>4 DEF Calm, DestroySurface
<1> QED BY <1>9, <1>10

(* All that a client owned is forgotten at once.                           *)
LEMMA ForgetClientFacts ==
  ASSUME Inv, NEW c \in Client
  PROVE  LET h == ForgetClient(c)
         IN  /\ Shape(h) /\ h.minimized = desk.minimized \ Of(c)
             /\ h.focused = IF desk.focused # None /\ desk.focused[1] = c THEN None ELSE desk.focused
             /\ h.kbd = IF desk.kbd # None /\ desk.kbd[1] = c THEN None ELSE desk.kbd
             /\ Heard(h) /\ (Alone(desk) => Alone(h))
<1> DEFINE s == Those(desk.stack, Window \ Of(c))
           v == [k \in Keyboard |-> IF k[1] = c THEN NoSurface ELSE desk.heard[k]]
           f == IF desk.focused # None /\ desk.focused[1] = c THEN None ELSE desk.focused
           b == IF desk.kbd # None /\ desk.kbd[1] = c THEN None ELSE desk.kbd
           m == desk.minimized \ Of(c)
           h == ForgetClient(c)
<1>1. h = [stack |-> s, focused |-> f, kbd |-> b, minimized |-> m, heard |-> v]
  BY DEF ForgetClient
<1>2. h.stack = s /\ h.focused = f /\ h.kbd = b /\ h.minimized = m /\ h.heard = v
  BY <1>1
<1>3. /\ v \in [Keyboard -> Surface \cup {NoSurface}]
      /\ f \in Window \cup {None} /\ b \in Window \cup {None} /\ m \subseteq Window
      /\ \A k \in Keyboard : v[k] = IF k[1] = c THEN NoSurface ELSE desk.heard[k]
  BY DEF Inv, Good, Shape
<1>4. Shape(h)
  <2> HIDE DEF h, s, v, f, b, m
  <2> QED BY <1>1, <1>2, <1>3 DEF Shape
<1>5. keyboards \subseteq Keyboard /\ Heard(desk)
  BY DEF Inv, Base, Good
<1> HIDE DEF h, v, s
<1>6. Heard(h)
  BY <1>2, <1>3, <1>5 DEF Heard
<1>7. Alone(desk) => Alone(h)
  <2> SUFFICES ASSUME Alone(desk), NEW k \in keyboards, h.heard[k] # NoSurface
               PROVE  h.kbd = <<k[1], h.heard[k]>>
    BY DEF Alone
  <2>1. k[1] # c /\ h.heard[k] = desk.heard[k]
    BY <1>2, <1>3, <1>5
  <2>2. desk.kbd = <<k[1], desk.heard[k]>>
    BY <2>1 DEF Alone
  <2> QED BY <2>1, <2>2, <1>2
<1> HIDE DEF f, b, m
<1> QED BY <1>2, <1>4, <1>6, <1>7 DEF h, f, b, m

LEMMA DisconnectStep ==
  ASSUME Inv, NEW c \in Client, Disconnect(c) PROVE Inv' /\ (Calm => Calm')
<1> DEFINE h == ForgetClient(c)
<1>1. Base'
  BY DEF Inv, Base, Disconnect, Of, desktopVars
<1>2. /\ Shape(h) /\ h.minimized = desk.minimized \ Of(c)
      /\ h.focused = IF desk.focused # None /\ desk.focused[1] = c THEN None ELSE desk.focused
      /\ h.kbd = IF desk.kbd # None /\ desk.kbd[1] = c THEN None ELSE desk.kbd
      /\ Heard(h) /\ (Alone(desk) => Alone(h))
  BY ForgetClientFacts
<1>3. PICK e : /\ desk' = e
               /\ \/ e = h
                  \/ /\ desk.focused # None /\ desk.focused[1] = c
                     /\ \E order : e = FocusTopmost(h, None, Clients, order)
  BY DEF Disconnect
<1> HIDE DEF h
<1>4. Shape(e) /\ Heard(e) /\ Activated(h, e, Clients) /\ (Alone(desk) /\ Follows(desk) => Alone(e))
  <2>1. CASE e = h
    BY <2>1, <1>2 DEF Activated
  <2>2. ASSUME desk.focused # None, desk.focused[1] = c, NEW order,
               e = FocusTopmost(h, None, Clients, order) PROVE <1>4!:
    <3>1. /\ Shape(e) /\ Activated(h, e, Clients) /\ Heard(e)
          /\ Alone(h) /\ (h.kbd # None => h.kbd[1] \in Clients) => Alone(e)
      BY <1>2, <2>2, TopmostFacts DEF Inv, Base
    <3>2. Follows(desk) => h.kbd = None
      BY <1>2, <2>2 DEF Follows
    <3> QED BY <1>2, <3>1, <3>2
  <2> QED BY <1>3, <2>1, <2>2
<1>5. /\ e.minimized \subseteq desk.minimized \ Of(c)
      /\ \/ e.focused = h.focused /\ e.kbd = h.kbd
         \/ \E x \in Window : /\ x[1] # c /\ role[x] # "none" /\ e.focused = x /\ e.kbd \in {x, None}
                              /\ x \notin e.minimized
  <2>1. CASE e = h
    BY <2>1, <1>2
  <2>2. ASSUME NEW x \in Window, Stackable(x, Clients), e.focused = x, e.kbd \in {x, None},
               e.minimized = h.minimized \ {x}
        PROVE  <1>5!:
    <3>1. x[1] # c /\ role[x] # "none"
      BY <2>2 DEF Stackable, Clients, Disconnect
    <3> QED BY <2>2, <3>1, <1>2
  <2> QED BY <1>4, <2>1, <2>2 DEF Activated
<1>6. \A x \in Window : x[1] # c => role'[x] = role[x]
  BY DEF Disconnect
<1>7. /\ e.focused # None => role'[e.focused] # "none"
      /\ e.kbd # None => role'[e.kbd] # "none"
  BY <1>2, <1>5, <1>6 DEF Inv, Good, Live, Shape
<1>8. desk'.minimized \subseteq {x \in Window : role'[x] = "toplevel"}
  BY <1>3, <1>5, <1>6 DEF Inv, Of
<1>9. keyboards' \subseteq keyboards
  BY DEF Disconnect
<1>10. Inv'
  <2>1. Live(desk)' /\ Shape(desk)' /\ Heard(desk)'
    BY <1>3, <1>4, <1>7, <1>9 DEF Live, Shape, Heard
  <2> QED BY <1>1, <1>8, <2>1 DEF Inv, Good
<1>11. Calm => Calm'
  <2> SUFFICES ASSUME Calm PROVE Calm'
    OBVIOUS
  <2>1. VTKept => Alone(desk)'
    BY <1>3, <1>4, <1>9 DEF Calm, Alone
  <2>2. Follows(desk)'
    BY <1>2, <1>3, <1>5 DEF Calm, Follows
  <2>3. None \notin e.minimized
    BY <1>5, WindowPair DEF Inv
  <2>4. e.focused \notin e.minimized
    <3>1. e.focused \in e.minimized => e.focused = desk.focused /\ desk.focused \in desk.minimized /\ desk.focused[1] # c
      BY <1>2, <1>5, <2>3
    <3> QED BY <3>1 DEF Calm, Disconnect
  <2> QED BY <1>3, <2>1, <2>2, <2>4 DEF Calm
<1> QED BY <1>10, <1>11

(* What was put off is done: a window that minimized itself while it had   *)
(* the focus gives it away, whatever is activated after it.                *)
LEMMA EndBatchStep ==
  ASSUME Inv, NEW c \in Client, EndBatch(c) PROVE Inv' /\ (Calm => Calm')
<1>1. Base'
  BY DEF Inv, Base, EndBatch, windowVars, desktopVars
<1>2. PICK order : desk' = Flush(order)
  BY DEF EndBatch
<1> DEFINE h == Minimize(desk, pending_minimize, connected, order)
           e == Activate(h, pending_activate, connected, order)
<1>3. desk' = e
  BY <1>2 DEF Flush
<1>4. /\ Shape(h) /\ Heard(h) /\ Live(h)
      /\ Follows(desk) => Follows(h)
      /\ Alone(desk) /\ Follows(desk) /\ (desk.kbd # None => desk.kbd[1] \in connected) => Alone(h)
      /\ h.minimized \subseteq desk.minimized \cup {x \in Window : Toplevel(x, connected)}
      /\ desk.focused \notin desk.minimized => h.focused \notin h.minimized
      /\ desk.focused = pending_minimize /\ Toplevel(pending_minimize, connected) => h.focused \notin h.minimized
      /\ h.kbd # None => h.kbd = desk.kbd \/ h.kbd[1] \in connected
  BY MinimizeFacts DEF Inv, Base, Good
<1> HIDE DEF h
<1>5. /\ Shape(e) /\ Activated(h, e, connected) /\ Heard(e)
      /\ Alone(h) /\ (h.kbd # None => h.kbd[1] \in connected) => Alone(e)
  BY <1>4, ActivateFacts DEF Inv, Base
<1> HIDE DEF e
<1>6. /\ Live(e) /\ (Follows(h) => Follows(e))
      /\ h.focused \notin h.minimized => e.focused \notin e.minimized
      /\ e.minimized \subseteq h.minimized
  BY <1>4, <1>5, ActivatedFacts
<1>7. UNCHANGED <<role, keyboards>>
  BY DEF EndBatch, windowVars
<1>8. Inv'
  <2>1. e.minimized \subseteq {x \in Window : role[x] = "toplevel"}
    BY <1>4, <1>6 DEF Inv, Toplevel
  <2> QED BY <1>1, <1>3, <1>5, <1>6, <1>7, <2>1, DeskStep
<1>9. Calm => Calm'
  <2> SUFFICES ASSUME Calm PROVE Calm'
    OBVIOUS
  <2>1. desk.focused \in desk.minimized => Toplevel(pending_minimize, connected) /\ pending_minimize = desk.focused
    BY DEF Calm, Toplevel, Inv, Base
  <2>2. e.focused \notin e.minimized
    BY <1>4, <1>6, <2>1
  <2>3. (VTKept => Alone(e)) /\ Follows(e)
    BY <1>4, <1>5, <1>6, KbdIsThere DEF Calm
  <2> QED BY <1>3, <1>7, <2>2, <2>3, CalmStep
<1> QED BY <1>8, <1>9

(* The keyboard is taken to a window, between batches or by a virtual      *)
(* keyboard's client; d is the desk with the focus where it will be.       *)
LEMMA EnsureStep ==
  ASSUME Inv, Base', NEW w \in Window, role[w] # "none", NEW f \in Window \cup {None},
         f # None => role[f] # "none",
         desk' = EnsureKbdEntered(Put(desk, desk.stack, desk.minimized, f), w, Clients),
         UNCHANGED <<role, keyboards>>
  PROVE  /\ Inv' /\ desk'.focused = f /\ desk'.kbd \in {w, None} /\ desk'.minimized = desk.minimized
         /\ Alone(desk) /\ (desk.kbd # None => desk.kbd = w \/ desk.kbd[1] \in Clients) => Alone(desk)'
<1> DEFINE d == Put(desk, desk.stack, desk.minimized, f)
           e == EnsureKbdEntered(d, w, Clients)
<1>1. /\ Shape(d) /\ d.focused = f /\ d.kbd = desk.kbd /\ d.minimized = desk.minimized
      /\ Heard(d) /\ (Alone(desk) => Alone(d))
  <2>1. Shape(desk) /\ Heard(desk) /\ desk.minimized \in SUBSET Window
    BY DEF Inv, Good, Shape
  <2> QED BY <2>1, PutFacts
<1>2. desk' = e
  OBVIOUS
<1> HIDE DEF d
<1>3. /\ Shape(e) /\ e.kbd \in {w, None} /\ e.focused = d.focused /\ e.minimized = d.minimized
      /\ Heard(e)
      /\ Alone(d) /\ (d.kbd # None => d.kbd = w \/ d.kbd[1] \in Clients) => Alone(e)
  BY <1>1, EnsureFacts DEF Inv, Base
<1> HIDE DEF e
<1>4. Live(e)
  BY <1>1, <1>3 DEF Live
<1>5. Inv'
  BY <1>1, <1>2, <1>3, <1>4, DeskStep DEF Inv
<1>6. Alone(e) => Alone(desk)'
  BY <1>2 DEF Alone
<1> QED BY <1>1, <1>2, <1>3, <1>5, <1>6

LEMMA ForwardVirtualKeyStep ==
  ASSUME Inv, NEW c \in Client, ForwardVirtualKey(c) PROVE Inv' /\ (Calm => Calm')
<1>1. Base'
  BY DEF Inv, Base, ForwardVirtualKey, windowVars, desktopVars
<1>2. desk.focused \in Window /\ role[desk.focused] # "none"
  BY DEF Inv, Good, Live, Shape, ForwardVirtualKey
<1>3. Put(desk, desk.stack, desk.minimized, desk.focused) = desk
  BY DEF Put, Inv, Good, Shape
<1>4. /\ Inv' /\ desk'.focused = desk.focused /\ desk'.kbd \in {desk.focused, None}
      /\ desk'.minimized = desk.minimized
      /\ Alone(desk) /\ (desk.kbd # None => desk.kbd = desk.focused \/ desk.kbd[1] \in Clients) => Alone(desk)'
  BY <1>1, <1>2, <1>3, EnsureStep DEF ForwardVirtualKey, windowVars
<1> QED BY <1>4, CalmKeeps DEF Calm, Follows, ForwardVirtualKey, pendingVars

(* The keyboard is taken to the focus, or to where the focus goes with it. *)
LEMMA EnsureIdleStep ==
  ASSUME Inv, NEW w \in Window, role[w] # "none", busy = NoClient,
         \/ desk' = EnsureKbdEntered(desk, w, Clients) /\ desk.focused \in {w, None}
         \/ desk' = EnsureKbdEntered([desk EXCEPT !.focused = w], w, Clients) /\ role[w] # "toplevel",
         Base', UNCHANGED <<role, keyboards>>
  PROVE  Inv' /\ (Calm => Calm')
<1>1. PICK f \in {desk.focused, w} :
        /\ desk' = EnsureKbdEntered(Put(desk, desk.stack, desk.minimized, f), w, Clients)
        /\ f \in {w, None} /\ (f = desk.focused \/ role[w] # "toplevel")
  <2>1. Put(desk, desk.stack, desk.minimized, desk.focused) = desk
    BY DEF Put, Inv, Good, Shape
  <2>2. [desk EXCEPT !.focused = w] = Put(desk, desk.stack, desk.minimized, w)
    BY SameFields DEF Inv, Good
  <2> QED BY <2>1, <2>2
<1>2. f \in Window \cup {None} /\ (f # None => role[f] # "none")
  BY <1>1
<1>3. /\ Inv' /\ desk'.focused = f /\ desk'.kbd \in {w, None} /\ desk'.minimized = desk.minimized
      /\ Alone(desk) /\ (desk.kbd # None => desk.kbd = w \/ desk.kbd[1] \in Clients) => Alone(desk)'
  BY <1>1, <1>2, EnsureStep
<1>4. Clients = connected
  BY WindowAssumption DEF Clients, Inv, Base
<1>5. Calm => Calm'
  <2> SUFFICES ASSUME Calm PROVE Calm'
    OBVIOUS
  <2>1. VTKept => Alone(desk)'
    BY <1>3, <1>4, KbdIsThere DEF Calm
  <2>2. Follows(desk)'
    BY <1>1, <1>3 DEF Follows
  <2>3. desk'.focused \notin desk'.minimized
    BY <1>1, <1>3, WindowPair DEF Calm, Inv
  <2> QED BY <2>1, <2>2, <2>3 DEF Calm
<1> QED BY <1>3, <1>5

LEMMA ClickStep ==
  ASSUME Inv, NEW w \in Window, Click(w) PROVE Inv' /\ (Calm => Calm')
<1>1. Base' /\ busy = NoClient /\ UNCHANGED <<role, keyboards>> /\ role[w] # "none"
  BY DEF Inv, Base, Click, Idle, OnlyDesk, UnderPointer, windowVars, desktopVars
<1>2. PICK order :
        desk' = IF Stackable(w, Clients)
                THEN IF desk.focused # w THEN Activate(desk, w, Clients, order)
                     ELSE EnsureKbdEntered(desk, w, Clients)
                ELSE IF role[w] = "panel"
                THEN EnsureKbdEntered([desk EXCEPT !.focused = w], w, Clients)
                ELSE desk
  BY DEF Click
<1>3. CASE desk' = Activate(desk, w, Clients, order)
  BY <1>1, <1>3, ActivateStep
<1>4. CASE desk' = EnsureKbdEntered(desk, w, Clients) /\ desk.focused = w
  BY <1>1, <1>4, EnsureIdleStep
<1>5. CASE desk' = EnsureKbdEntered([desk EXCEPT !.focused = w], w, Clients) /\ role[w] = "panel"
  BY <1>1, <1>5, EnsureIdleStep
<1>6. CASE desk' = desk
  BY <1>1, <1>6, RoleStep DEF Click, OnlyDesk, pendingVars
<1> QED BY <1>2, <1>3, <1>4, <1>5, <1>6

LEMMA KeyStep ==
  ASSUME Inv, Key PROVE Inv' /\ (Calm => Calm')
<1>1. Base' /\ busy = NoClient /\ UNCHANGED <<role, keyboards>>
  BY DEF Inv, Base, Key, Idle, OnlyDesk, windowVars, desktopVars
<1>2. PICK w \in Window : /\ IF desk.focused # None THEN w = desk.focused ELSE w \in UnderPointer
                          /\ desk' = EnsureKbdEntered(desk, w, Clients)
  BY DEF Key
<1>3. role[w] # "none" /\ desk.focused \in {w, None}
  BY <1>2 DEF Inv, Good, Live, UnderPointer
<1> QED BY <1>1, <1>2, <1>3, EnsureIdleStep

LEMMA ActivateByShellStep ==
  ASSUME Inv, NEW w \in Window, ActivateByShell(w) PROVE Inv' /\ (Calm => Calm')
<1>1. Base' /\ busy = NoClient /\ UNCHANGED <<role, keyboards>>
  BY DEF Inv, Base, ActivateByShell, Idle, OnlyDesk, windowVars, desktopVars
<1> QED BY <1>1, ActivateStep DEF ActivateByShell

LEMMA MinimizeByShellStep ==
  ASSUME Inv, NEW w \in Window, MinimizeByShell(w) PROVE Inv' /\ (Calm => Calm')
<1>1. Base' /\ busy = NoClient /\ UNCHANGED <<role, keyboards>>
  BY DEF Inv, Base, MinimizeByShell, Idle, OnlyDesk, windowVars, desktopVars
<1> QED BY <1>1, MinimizeStep DEF MinimizeByShell

LEMMA MinimizeShortcutStep ==
  ASSUME Inv, MinimizeShortcut PROVE Inv' /\ (Calm => Calm')
<1>1. Base' /\ busy = NoClient /\ UNCHANGED <<role, keyboards>>
  BY DEF Inv, Base, MinimizeShortcut, Idle, OnlyDesk, windowVars, desktopVars
<1> QED BY <1>1, MinimizeStep DEF MinimizeShortcut

LEMMA RestoreNextStep ==
  ASSUME Inv, RestoreNext PROVE Inv' /\ (Calm => Calm')
<1>1. Base' /\ busy = NoClient /\ UNCHANGED <<role, keyboards>>
  BY DEF Inv, Base, RestoreNext, windowVars
<1> QED BY <1>1, ActivateStep DEF RestoreNext

LEMMA HideDesktopStep ==
  ASSUME Inv, HideDesktop PROVE Inv' /\ (Calm => Calm')
<1> DEFINE v == Visible(desk, Clients)
           d == IF desk.focused \in v THEN Hide(desk, desk.focused) ELSE desk
           m == d.minimized \cup v
           e == Put(d, d.stack, m, d.focused)
<1>1. Base' /\ busy = NoClient /\ UNCHANGED <<role, keyboards>>
  BY DEF Inv, Base, HideDesktop, Idle, windowVars
<1>2. v \subseteq {w \in Window : role[w] = "toplevel"}
  BY DEF Visible, Toplevel
<1>3. desk' = [d EXCEPT !.minimized = m]
  BY DEF HideDesktop
<1>4. /\ Shape(d) /\ Heard(d) /\ Live(d)
      /\ Follows(desk) => Follows(d)
      /\ Alone(desk) /\ Follows(desk) => Alone(d)
      /\ desk.minimized \subseteq d.minimized /\ d.minimized \subseteq desk.minimized \cup v
      /\ d.focused = IF desk.focused \in v THEN None ELSE desk.focused
  <2>1. CASE desk.focused \in v
    <3>1. desk.focused \in Window
      BY <2>1, <1>2
    <3>2. d = Hide(desk, desk.focused)
      BY <2>1
    <3> HIDE DEF v, d
    <3> QED BY <2>1, <3>1, <3>2, HideFacts DEF Inv, Base, Good
  <2>2. CASE desk.focused \notin v
    BY <2>2 DEF Inv, Good
  <2> QED BY <2>1, <2>2
<1> HIDE DEF d
<1>5. desk' = e
  BY <1>3, <1>4, SameFields
<1>6. m \in SUBSET Window /\ d.focused \in Window \cup {None}
  BY <1>2, <1>4 DEF Inv, Shape
<1>7. /\ Shape(e) /\ e.focused = d.focused /\ e.kbd = d.kbd /\ e.minimized = m
      /\ Heard(e) /\ (Alone(d) => Alone(e))
  <2> HIDE DEF m
  <2> QED BY <1>4, <1>6, PutFacts
<1> HIDE DEF e
<1>8. Live(e) /\ (Follows(d) => Follows(e))
  BY <1>4, <1>7 DEF Live, Follows
<1>9. Inv'
  <2>1. e.minimized \subseteq {w \in Window : role[w] = "toplevel"}
    BY <1>2, <1>4, <1>7 DEF Inv
  <2> QED BY <1>1, <1>5, <1>7, <1>8, <2>1, DeskStep
<1>10. Calm => Calm'
  <2> SUFFICES ASSUME Calm PROVE Calm'
    OBVIOUS
  <2>1. None \notin m
    BY <1>6, WindowPair
  <2>2. e.focused \notin e.minimized
    BY <1>1, <1>4, <1>7, <2>1 DEF Calm
  <2> QED BY <1>1, <1>4, <1>5, <1>7, <1>8, <2>2, CalmStep DEF Calm
<1> QED BY <1>9, <1>10

(* The focus moves without the keyboard, and no window is hidden.          *)
LEMMA GrabStep ==
  ASSUME Inv, Base', NEW w \in Window, role[w] # "none", NEW s, NEW m, m \subseteq desk.minimized,
         desk' = Put(desk, s, m, w), UNCHANGED <<role, keyboards>>
  PROVE  Inv'
<1>1. m \subseteq {x \in Window : role'[x] = "toplevel"}
  BY DEF Inv
<1>2. desk.kbd # None => role'[desk.kbd] # "none"
  BY DEF Inv, Good, Live
<1> QED BY <1>1, <1>2, PutStep

LEMMA GrabActions ==
  ASSUME Inv, NEW w \in Window,
         \/ ShowWindowMenu(w) \/ RequestGrab(w) \/ SetPosition(w)
         \/ PressFrame(w) \/ BeginMoveGrab(w)
  PROVE  Inv' /\ "grab" \in Allow
<1>0. \A s, f : [desk EXCEPT !.stack = s, !.focused = f] = Put(desk, s, desk.minimized, f)
  BY SameFields DEF Inv, Good
<1>1. CASE ShowWindowMenu(w)
  <2>1. Base' /\ UNCHANGED <<role, keyboards>> /\ role[w] # "none"
    BY <1>1 DEF Inv, Base, ShowWindowMenu, windowVars, desktopVars
  <2>2. desk' = Put(desk, OnTop(desk.stack, w), desk.minimized, w)
    BY <1>1, <1>0 DEF ShowWindowMenu
  <2> QED BY <1>1, <2>1, <2>2, GrabStep DEF ShowWindowMenu
<1>2. CASE RequestGrab(w)
  <2>1. Base' /\ UNCHANGED <<role, keyboards>> /\ role[w] # "none"
    BY <1>2 DEF Inv, Base, RequestGrab, windowVars, desktopVars
  <2>2. desk' = Put(desk, OnTop(desk.stack, w), desk.minimized, w)
    BY <1>2, <1>0 DEF RequestGrab
  <2> QED BY <1>2, <2>1, <2>2, GrabStep DEF RequestGrab
<1>3. CASE SetPosition(w)
  <2>1. Base' /\ UNCHANGED <<role, keyboards>> /\ role[w] # "none"
    BY <1>3 DEF Inv, Base, SetPosition, windowVars, desktopVars
  <2>2. desk' = Put(desk, OnTop(desk.stack, w), desk.minimized \ {w}, w)
    <3> DEFINE s == OnTop(desk.stack, w)
               m == desk.minimized \ {w}
    <3>1. desk' = [desk EXCEPT !.stack = s, !.focused = w, !.minimized = m]
      BY <1>3 DEF SetPosition
    <3> HIDE DEF s, m
    <3>2. desk' = [[desk EXCEPT !.stack = s, !.focused = w] EXCEPT !.minimized = m]
      BY <3>1
    <3>3. [desk EXCEPT !.stack = s, !.focused = w] = Put(desk, s, desk.minimized, w)
      BY <1>0
    <3>4. [Put(desk, s, desk.minimized, w) EXCEPT !.minimized = m] = Put(desk, s, m, w)
      BY DEF Put
    <3> QED BY <3>2, <3>3, <3>4 DEF s, m
  <2> QED BY <1>3, <2>1, <2>2, GrabStep DEF SetPosition
<1>4. CASE PressFrame(w)
  <2>1. Base' /\ UNCHANGED <<role, keyboards>> /\ role[w] # "none"
    BY <1>4 DEF Inv, Base, PressFrame, OnlyDesk, windowVars, desktopVars
  <2>2. \E order : desk' = Put(desk, RaiseSurface(desk.stack, w, Clients, order), desk.minimized, w)
    <3>1. PICK order : desk' = [desk EXCEPT !.stack = RaiseSurface(@, w, Clients, order), !.focused = w]
      BY <1>4 DEF PressFrame
    <3> DEFINE s == RaiseSurface(desk.stack, w, Clients, order)
    <3>2. desk' = [desk EXCEPT !.stack = s, !.focused = w]
      BY <3>1
    <3> HIDE DEF s
    <3>3. desk' = Put(desk, s, desk.minimized, w)
      BY <3>2, <1>0
    <3> QED BY <3>3 DEF s
  <2> QED BY <1>4, <2>1, <2>2, GrabStep DEF PressFrame
<1>5. CASE BeginMoveGrab(w)
  <2>1. Base' /\ UNCHANGED <<role, keyboards>> /\ role[w] # "none"
    BY <1>5 DEF Inv, Base, BeginMoveGrab, OnlyDesk, windowVars, desktopVars
  <2>2. desk' = Put(desk, OnTop(desk.stack, w), desk.minimized, w)
    BY <1>5, <1>0 DEF BeginMoveGrab
  <2> QED BY <1>5, <2>1, <2>2, GrabStep DEF BeginMoveGrab
<1> QED BY <1>1, <1>2, <1>3, <1>4, <1>5

LEMMA ResetInputStateStep ==
  ASSUME Inv, ResetInputState PROVE Inv' /\ (Calm => Calm')
<1>1. Base' /\ UNCHANGED <<role, keyboards>>
  BY DEF Inv, Base, ResetInputState, OnlyDesk, windowVars, desktopVars
<1>2. desk' = [stack |-> desk.stack, focused |-> desk.focused, kbd |-> None,
               minimized |-> desk.minimized, heard |-> desk.heard]
  BY DEF ResetInputState, Inv, Good, Shape
<1>3. /\ desk'.focused = desk.focused /\ desk'.kbd = None /\ desk'.minimized = desk.minimized
      /\ desk'.heard = desk.heard /\ desk'.stack = desk.stack
  BY <1>2
<1>4. Shape(desk') /\ Heard(desk') /\ Live(desk')
  BY <1>2, <1>3 DEF Inv, Good, Shape, Heard, Live
<1>5. Inv'
  BY <1>1, <1>3, <1>4, DeskStep DEF Inv
<1>6. Calm => Calm'
  BY <1>3 DEF Calm, Follows, VTKept, ResetInputState, OnlyDesk, pendingVars
<1> QED BY <1>5, <1>6

-----------------------------------------------------------------------------
LEMMA InitHolds == Init => Inv /\ Calm
<1> SUFFICES ASSUME Init PROVE Inv /\ Calm
  OBVIOUS
<1>1. /\ desk.focused = None /\ desk.kbd = None /\ desk.minimized = {}
      /\ desk.heard = [k \in Keyboard |-> NoSurface] /\ desk.stack = <<>>
  BY DEF Init
<1>2. Good(desk)
  BY <1>1 DEF Init, Good, Shape, Heard, Live
<1>3. Base
  BY DEF Init, Base
<1>4. Inv
  BY <1>1, <1>2, <1>3 DEF Inv
<1>5. Calm
  BY <1>1 DEF Calm, Alone, Follows, Init
<1> QED BY <1>4, <1>5

LEMMA NextKeeps ==
  ASSUME Inv, Next PROVE Inv' /\ (NoGrabs /\ Calm => Calm')
<1>1. ASSUME NEW c \in Client, Connect(c) \/ BeginBatch(c) \/ EndBatch(c) \/ Disconnect(c)
      PROVE  Inv' /\ (Calm => Calm')
  BY <1>1, ConnectStep, BeginBatchStep, EndBatchStep, DisconnectStep
<1>2. ASSUME NEW c \in Client, Request(c)
      PROVE  Inv' /\ (NoGrabs /\ Calm => Calm')
  <2>1. ASSUME NEW k \in Keyboard, GetKeyboard(k) \/ ReleaseKeyboard(k)
        PROVE  Inv' /\ (Calm => Calm')
    BY <2>1, GetKeyboardStep, ReleaseKeyboardStep
  <2>2. ASSUME NEW w \in Window,
               \/ CreateSurface(w) \/ (\E r \in Roles : TakeRole(w, r))
               \/ DestroyToplevel(w) \/ DestroyLayer(w) \/ DestroySurface(w)
        PROVE  Inv' /\ (Calm => Calm')
    BY <2>2, CreateSurfaceStep, TakeRoleStep, DestroyToplevelStep, DestroyLayerStep, DestroySurfaceStep
  <2>3. ASSUME NEW w \in Window,
               \/ (\E p \in Surface \cup {NoSurface} : SetParent(w, p))
               \/ Map(w) \/ Recommit(w) \/ Unmap(w) \/ SetMinimized(w)
        PROVE  Inv' /\ (Calm => Calm')
    BY <2>3, SetParentStep, MapStep, RecommitStep, UnmapStep, SetMinimizedStep
  <2>4. ASSUME NEW w \in Window, ShowWindowMenu(w) \/ RequestGrab(w) \/ SetPosition(w)
        PROVE  Inv' /\ ~NoGrabs
    BY <2>4, GrabActions DEF NoGrabs
  <2>5. ASSUME ForwardVirtualKey(c) PROVE Inv' /\ (Calm => Calm')
    BY <2>5, ForwardVirtualKeyStep
  <2> QED BY <1>2, <2>1, <2>2, <2>3, <2>4, <2>5 DEF Request, Of
<1>3. ASSUME Input
      PROVE  Inv' /\ (NoGrabs /\ Calm => Calm')
  <2>1. ASSUME NEW w \in Window, Click(w) \/ ActivateByShell(w) \/ MinimizeByShell(w)
        PROVE  Inv' /\ (Calm => Calm')
    BY <2>1, ClickStep, ActivateByShellStep, MinimizeByShellStep
  <2>2. ASSUME NEW w \in Window, PressFrame(w) \/ BeginMoveGrab(w)
        PROVE  Inv' /\ ~NoGrabs
    BY <2>2, GrabActions DEF NoGrabs
  <2>3. ASSUME Key \/ MinimizeShortcut \/ HideDesktop \/ BeginRestore \/ RestoreNext
        PROVE  Inv' /\ (Calm => Calm')
    BY <2>3, KeyStep, MinimizeShortcutStep, HideDesktopStep, BeginRestoreStep, RestoreNextStep
  <2>4. ASSUME ResetInputState PROVE Inv' /\ (Calm => Calm')
    BY <2>4, ResetInputStateStep
  <2> QED BY <1>3, <2>1, <2>2, <2>3, <2>4 DEF Input
<1> QED BY <1>1, <1>2, <1>3 DEF Next

LEMMA StutterKeeps ==
  ASSUME Inv, UNCHANGED vars PROVE Inv' /\ (Calm => Calm')
BY DEF vars, windowVars, pendingVars, desktopVars, Inv, Base, Good, Shape, Heard, Live, Calm, Alone, Follows

(* Inv is an invariant of every instance.                                  *)
THEOREM Invariance == Spec => []Inv
<1>1. Inv /\ [Next]_vars => Inv'
  BY NextKeeps, StutterKeeps
<1> QED BY <1>1, InitHolds, PTL DEF Spec

(* Every keyboard object of the client the compositor counts as entered    *)
(* heard of it, whatever the clients, the user and the session do: an      *)
(* object made later (wl_seat.get_keyboard), an enter that could not be    *)
(* delivered to a client being served (ensure_kbd_entered).                *)
THEOREM KeyboardsAreTold == Spec => []KbdHeard
<1>1. Inv => KbdHeard
  BY DEF Inv, Good, Heard, KbdHeard
<1> QED BY <1>1, Invariance, PTL

(* No name of a surface outlives the surface as the focus or as what the   *)
(* keyboard is on: not through wl_surface.destroy, and not through the     *)
(* loss of the client, though ids are used again.                          *)
THEOREM NoStaleFocus == Spec => []FocusIsLive
<1>1. Inv => FocusIsLive
  BY DEF Inv, Good, Live, FocusIsLive
<1> QED BY <1>1, Invariance, PTL

(* Where no interactive move takes the focus without the keyboard, the     *)
(* keyboard is on the focus or on nothing; if the VT is kept too, whoever  *)
(* loses the keyboard is told, at once.                                    *)
THEOREM Calmness == ASSUME NoGrabs PROVE Spec => []Calm
<1>1. Inv /\ Calm /\ [Next]_vars => Calm'
  BY NextKeeps, StutterKeeps
<1> QED BY <1>1, InitHolds, Invariance, PTL DEF Spec

(* No second keyboard object believes that its surface has the keyboard.   *)
(* Not so after a VT switch: reset_input_state forgets the holder without  *)
(* a leave.                                                                *)
THEOREM NobodyElseListens == ASSUME NoGrabs, VTKept PROVE Spec => []OneListener
<1>1. Calm => OneListener
  BY DEF Calm, Alone, OneListener
<1> QED BY <1>1, Calmness, PTL

(* The keyboard is where the focus is, or nowhere, between batches, also   *)
(* when the VT was left and taken back.                                    *)
THEOREM KeyboardFollows == ASSUME NoGrabs PROVE Spec => []KbdFollowsFocus
<1>1. Calm => KbdFollowsFocus
  BY DEF Calm, Follows, KbdFollowsFocus
<1> QED BY <1>1, Calmness, PTL

(* A window that minimizes itself while it has the focus, in a batch that  *)
(* may go on, does not have the focus when the batch is over.              *)
THEOREM HiddenLosesFocus == ASSUME NoGrabs PROVE Spec => []HiddenHasNoFocus
<1>1. Calm => HiddenHasNoFocus
  BY DEF Calm, HiddenHasNoFocus, Idle
<1> QED BY <1>1, Calmness, PTL

=============================================================================
