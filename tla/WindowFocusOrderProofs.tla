----------------------- MODULE WindowFocusOrderProofs -----------------------
(***************************************************************************)
(* What WindowFocus promises about the order of windows: it names each     *)
(* window once, whatever raises it, and the focus is lost to nobody only   *)
(* when no window of the order can take it.                                *)
(***************************************************************************)
EXTENDS WindowFocusProofs, FiniteSetTheorems, WellFoundedInduction

-----------------------------------------------------------------------------
(***************************************************************************)
(* Numbers: inclusion is a well-founded order on the intervals from 0, so  *)
(* a set of numbers has a least element, and there is induction over sets. *)
(***************************************************************************)
LEMMA LeastUpTo ==
  ASSUME NEW n \in Nat, NEW T, T \subseteq 0 .. n, T # {}
  PROVE  \E x \in T : \A y \in T : x <= y
<1> DEFINE I == {0 .. x : x \in T}
           R == StrictSubsetOrdering(0 .. n)
<1>1. IsWellFoundedOn(R, SUBSET (0 .. n))
  <2>1. IsFiniteSet(0 .. n)
    BY FS_Interval
  <2>2. FiniteSubsetsOf(0 .. n) = SUBSET (0 .. n)
    BY <2>1, FS_FiniteSubsetsOfFinite
  <2> QED BY <2>2, FS_StrictSubsetOrderingWellFounded
<1>2. I \subseteq SUBSET (0 .. n) /\ I # {}
  <2>1. \A x \in T : 0 .. x \subseteq 0 .. n
    OBVIOUS
  <2> QED BY <2>1
<1>3. PICK a \in I : \A b \in I : ~(<<b, a>> \in R)
  <2> HIDE DEF I
  <2> QED BY <1>1, <1>2, WFMin
<1>4. PICK x \in T : a = 0 .. x
  OBVIOUS
<1>5. ASSUME NEW y \in T, y < x PROVE FALSE
  <2>1. 0 .. y \in I /\ 0 .. y \subseteq 0 .. x /\ x \in 0 .. x /\ x \notin 0 .. y
    BY <1>5
  <2>2. 0 .. y # 0 .. x /\ 0 .. y \in SUBSET (0 .. n) /\ 0 .. x \in SUBSET (0 .. n)
    BY <2>1
  <2>3. <<0 .. y, 0 .. x>> \in R
    BY <2>1, <2>2 DEF StrictSubsetOrdering
  <2> QED BY <2>1, <2>3, <1>3, <1>4
<1> QED BY <1>5

LEMMA SetInduction ==
  ASSUME NEW T \in SUBSET Nat, 0 \in T, \A n \in T : n + 1 \in T
  PROVE  Nat \subseteq T
<1> SUFFICES ASSUME NEW m \in Nat, m \notin T PROVE FALSE
  OBVIOUS
<1> DEFINE U == (0 .. m) \ T
<1>1. PICK x \in U : \A y \in U : x <= y
  <2>1. U \subseteq 0 .. m /\ m \in U
    OBVIOUS
  <2> HIDE DEF U
  <2> QED BY <2>1, LeastUpTo
<1>2. x # 0 /\ x - 1 \in (0 .. m) /\ x - 1 \in T
  BY <1>1
<1>3. (x - 1) + 1 \in T
  BY <1>2
<1> QED BY <1>1, <1>3

LEMMA Greatest ==
  ASSUME NEW n \in Nat, NEW T, T \subseteq 1 .. n, T # {}
  PROVE  \E x \in T : \A y \in T : y <= x
<1> DEFINE U == {n - x : x \in T}
<1>1. U \subseteq 0 .. n /\ U # {}
  <2>1. \A x \in T : n - x \in 0 .. n
    OBVIOUS
  <2>2. PICK x \in T : TRUE
    OBVIOUS
  <2> QED BY <2>1, <2>2
<1>2. PICK u \in U : \A v \in U : u <= v
  <2> HIDE DEF U
  <2> QED BY <1>1, LeastUpTo
<1>3. PICK x \in T : u = n - x
  OBVIOUS
<1>4. \A y \in T : n - y \in U
  OBVIOUS
<1>5. \A y \in T : n - x <= n - y
  BY <1>2, <1>3, <1>4
<1> QED BY <1>5

-----------------------------------------------------------------------------
(***************************************************************************)
(* Sequences.                                                              *)
(***************************************************************************)
Elements(q) == {q[i] : i \in DOMAIN q}
Once(q) == \A i, j \in DOMAIN q : q[i] = q[j] => i = j

LEMMA AppendFacts ==
  ASSUME NEW A, NEW q \in Seq(A), NEW x \in A
  PROVE  /\ Append(q, x) \in Seq(A)
         /\ Elements(Append(q, x)) = Elements(q) \cup {x}
         /\ Once(q) /\ x \notin Elements(q) => Once(Append(q, x))
<1>1. /\ Append(q, x) \in Seq(A) /\ DOMAIN q = 1 .. Len(q) /\ Len(q) \in Nat
      /\ DOMAIN Append(q, x) = 1 .. Len(q) + 1
      /\ \A i \in 1 .. Len(q) : Append(q, x)[i] = q[i]
      /\ Append(q, x)[Len(q) + 1] = x
  OBVIOUS
<1>2. Elements(Append(q, x)) = Elements(q) \cup {x}
  <2>1. \A y \in Elements(Append(q, x)) : y \in Elements(q) \cup {x}
    BY <1>1 DEF Elements
  <2>2. \A y \in Elements(q) : y \in Elements(Append(q, x))
    BY <1>1 DEF Elements
  <2>3. x \in Elements(Append(q, x))
    BY <1>1 DEF Elements
  <2> QED BY <2>1, <2>2, <2>3
<1>3. ASSUME Once(q), x \notin Elements(q) PROVE Once(Append(q, x))
  <2> SUFFICES ASSUME NEW i \in 1 .. Len(q) + 1, NEW j \in 1 .. Len(q) + 1,
                      Append(q, x)[i] = Append(q, x)[j]
               PROVE  i = j
    BY <1>1 DEF Once
  <2>1. \A k \in 1 .. Len(q) : q[k] # x
    BY <1>1, <1>3 DEF Elements
  <2> QED BY <1>1, <1>3, <2>1 DEF Once
<1> QED BY <1>1, <1>2, <1>3

LEMMA ConcatFacts ==
  ASSUME NEW A, NEW p \in Seq(A), NEW q \in Seq(A)
  PROVE  /\ p \o q \in Seq(A)
         /\ Once(p) /\ Once(q) /\ Elements(p) \cap Elements(q) = {} => Once(p \o q)
<1>1. /\ p \o q \in Seq(A) /\ Len(p) \in Nat /\ Len(q) \in Nat
      /\ DOMAIN p = 1 .. Len(p) /\ DOMAIN q = 1 .. Len(q)
      /\ DOMAIN (p \o q) = 1 .. Len(p) + Len(q)
      /\ \A i \in 1 .. Len(p) + Len(q) : (p \o q)[i] = IF i <= Len(p) THEN p[i] ELSE q[i - Len(p)]
  OBVIOUS
<1>2. ASSUME Once(p), Once(q), Elements(p) \cap Elements(q) = {} PROVE Once(p \o q)
  <2> SUFFICES ASSUME NEW i \in 1 .. Len(p) + Len(q), NEW j \in 1 .. Len(p) + Len(q),
                      (p \o q)[i] = (p \o q)[j]
               PROVE  i = j
    BY <1>1 DEF Once
  <2>1. \A k \in 1 .. Len(p), l \in 1 .. Len(q) : p[k] # q[l]
    BY <1>1, <1>2 DEF Elements
  <2>2. CASE i <= Len(p) /\ j <= Len(p)
    BY <1>1, <1>2, <2>2 DEF Once
  <2>3. CASE i > Len(p) /\ j > Len(p)
    <3>1. i - Len(p) \in 1 .. Len(q) /\ j - Len(p) \in 1 .. Len(q)
      BY <1>1, <2>3
    <3>2. q[i - Len(p)] = q[j - Len(p)]
      BY <1>1, <2>3
    <3>3. i - Len(p) = j - Len(p)
      BY <1>1, <1>2, <3>1, <3>2 DEF Once
    <3> QED BY <1>1, <3>3
  <2>4. CASE i <= Len(p) /\ j > Len(p)
    <3>1. i \in 1 .. Len(p) /\ j - Len(p) \in 1 .. Len(q)
      BY <1>1, <2>4
    <3> QED BY <1>1, <2>1, <2>4, <3>1
  <2>5. CASE i > Len(p) /\ j <= Len(p)
    <3>1. j \in 1 .. Len(p) /\ i - Len(p) \in 1 .. Len(q)
      BY <1>1, <2>5
    <3> QED BY <1>1, <2>1, <2>5, <3>1
  <2> QED BY <1>1, <2>2, <2>3, <2>4, <2>5
<1> QED BY <1>1, <1>2

(* The function that Those chooses exists.                                 *)
IsKept(f, s, S, n) ==
  f = [i \in 0 .. n |-> IF i = 0 THEN <<>>
                        ELSE IF s[i] \in S THEN Append(f[i - 1], s[i]) ELSE f[i - 1]]

LEMMA KeptExists ==
  ASSUME NEW s, NEW S, NEW n \in Nat
  PROVE  \E f : IsKept(f, s, S, n)
<1> DEFINE T == {m \in Nat : \E f : IsKept(f, s, S, m)}
<1>1. 0 \in T
  <2>1. IsKept([i \in 0 .. 0 |-> <<>>], s, S, 0)
    BY DEF IsKept
  <2> QED BY <2>1
<1>2. ASSUME NEW m \in T PROVE m + 1 \in T
  <2>1. PICK f : IsKept(f, s, S, m)
    OBVIOUS
  <2> DEFINE last == IF s[m + 1] \in S THEN Append(f[m], s[m + 1]) ELSE f[m]
             g == [i \in 0 .. m + 1 |-> IF i = m + 1 THEN last ELSE f[i]]
  <2>2. \A i \in 0 .. m : f[i] = IF i = 0 THEN <<>>
                                 ELSE IF s[i] \in S THEN Append(f[i - 1], s[i]) ELSE f[i - 1]
    BY <2>1 DEF IsKept
  <2>3. \A i \in 0 .. m : g[i] = f[i]
    OBVIOUS
  <2>4. g[m + 1] = last
    OBVIOUS
  <2>5. \A i \in 0 .. m + 1 :
          g[i] = IF i = 0 THEN <<>>
                 ELSE IF s[i] \in S THEN Append(g[i - 1], s[i]) ELSE g[i - 1]
    <3> SUFFICES ASSUME NEW i \in 0 .. m + 1
                 PROVE  g[i] = IF i = 0 THEN <<>>
                               ELSE IF s[i] \in S THEN Append(g[i - 1], s[i]) ELSE g[i - 1]
      OBVIOUS
    <3> HIDE DEF g
    <3>1. CASE i = m + 1
      <4>1. i # 0 /\ i - 1 = m /\ g[i - 1] = f[m]
        BY <3>1, <2>3
      <4> QED BY <3>1, <4>1, <2>4
    <3>2. CASE i \in 0 .. m /\ i # 0
      <4>1. i - 1 \in 0 .. m
        BY <3>2
      <4> QED BY <3>2, <4>1, <2>2, <2>3
    <3>3. CASE i = 0
      BY <3>3, <2>2, <2>3
    <3> QED BY <3>1, <3>2, <3>3
  <2>6. g = [i \in 0 .. m + 1 |-> g[i]]
    OBVIOUS
  <2> HIDE DEF g
  <2>7. IsKept(g, s, S, m + 1)
    BY <2>5, <2>6 DEF IsKept
  <2> QED BY <2>7
<1> HIDE DEF T
<1>3. n \in T
  <2>1. T \in SUBSET Nat
    BY DEF T
  <2> QED BY <1>1, <1>2, <2>1, SetInduction
<1> QED BY <1>3 DEF T

(* Those keeps of a sequence what is in the set, and names it as often.    *)
LEMMA ThoseFacts ==
  ASSUME NEW A, NEW s \in Seq(A), NEW S
  PROVE  /\ Those(s, S) \in Seq(A)
         /\ Elements(Those(s, S)) = Elements(s) \cap S
         /\ Once(s) => Once(Those(s, S))
<1> DEFINE n == Len(s)
           f == CHOOSE f : IsKept(f, s, S, n)
<1>n. n \in Nat /\ DOMAIN s = 1 .. n /\ \A i \in 1 .. n : s[i] \in A
  OBVIOUS
<1>1. Those(s, S) = f[n]
  BY DEF Those, IsKept
<1>2. IsKept(f, s, S, n)
  BY <1>n, KeptExists
<1> HIDE DEF f
<1>3. \A i \in 0 .. n : f[i] = IF i = 0 THEN <<>>
                               ELSE IF s[i] \in S THEN Append(f[i - 1], s[i]) ELSE f[i - 1]
  BY <1>2 DEF IsKept
<1> DEFINE Fine(i) == /\ f[i] \in Seq(A)
                      /\ Elements(f[i]) = {s[j] : j \in 1 .. i} \cap S
                      /\ Once(s) => Once(f[i])
           T == {i \in Nat : i <= n => Fine(i)}
<1>4. 0 \in T
  <2>1. f[0] = <<>>
    BY <1>3, <1>n
  <2>2. Elements(f[0]) = {} /\ Once(f[0]) /\ f[0] \in Seq(A)
    BY <2>1 DEF Elements, Once
  <2>3. {s[j] : j \in 1 .. 0} = {}
    OBVIOUS
  <2> QED BY <2>2, <2>3
<1>5. ASSUME NEW i \in T PROVE i + 1 \in T
  <2> SUFFICES ASSUME i + 1 <= n PROVE Fine(i + 1)
    OBVIOUS
  <2>1. i \in Nat /\ i + 1 \in 1 .. n /\ Fine(i)
    BY <1>n
  <2>2. f[i + 1] = IF s[i + 1] \in S THEN Append(f[i], s[i + 1]) ELSE f[i]
    BY <1>3, <2>1
  <2>3. {s[j] : j \in 1 .. i + 1} = {s[j] : j \in 1 .. i} \cup {s[i + 1]}
    <3>1. 1 .. i + 1 = (1 .. i) \cup {i + 1}
      BY <2>1
    <3> QED BY <3>1
  <2>4. s[i + 1] \in A
    BY <1>n, <2>1
  <2>5. CASE s[i + 1] \in S
    <3>1. f[i + 1] = Append(f[i], s[i + 1])
      BY <2>2, <2>5
    <3>2. /\ f[i + 1] \in Seq(A) /\ Elements(f[i + 1]) = Elements(f[i]) \cup {s[i + 1]}
          /\ Once(f[i]) /\ s[i + 1] \notin Elements(f[i]) => Once(f[i + 1])
      BY <2>1, <2>4, <3>1, AppendFacts
    <3>3. Once(s) => s[i + 1] \notin {s[j] : j \in 1 .. i}
      BY <1>n, <2>1 DEF Once
    <3> QED BY <2>1, <2>3, <2>5, <3>2, <3>3
  <2>6. CASE s[i + 1] \notin S
    BY <2>1, <2>2, <2>3, <2>6
  <2> QED BY <2>5, <2>6
<1>6. n \in T
  <2> HIDE DEF T
  <2>1. T \in SUBSET Nat
    BY DEF T
  <2> QED BY <1>4, <1>5, <1>n, <2>1, SetInduction
<1>7. Fine(n)
  BY <1>6, <1>n
<1> QED BY <1>1, <1>7, <1>n DEF Elements

-----------------------------------------------------------------------------
(***************************************************************************)
(* The window manager's steps and the order of windows.                    *)
(***************************************************************************)
Ordered(d) == d.stack \in Seq(Window) /\ Once(d.stack)

LEMMA WithoutFacts ==
  ASSUME NEW s \in Seq(Window), NEW w
  PROVE  /\ Without(s, w) \in Seq(Window)
         /\ Elements(Without(s, w)) = Elements(s) \ {w}
         /\ Once(s) => Once(Without(s, w))
<1>1. Elements(s) \subseteq Window
  BY DEF Elements
<1> QED BY <1>1, ThoseFacts DEF Without

LEMMA OnTopFacts ==
  ASSUME NEW s \in Seq(Window), NEW w \in Window
  PROVE  /\ OnTop(s, w) \in Seq(Window)
         /\ Once(s) => Once(OnTop(s, w))
BY WithoutFacts, AppendFacts DEF OnTop

(* The order in which the maps of clients and objects are iterated names   *)
(* each window at most once.                                               *)
LEMMA OrderIsOnce ==
  ASSUME NEW order \in HashOrders PROVE order \in Seq(Window) /\ Once(order)
<1> DEFINE T == {x \in Window : ParentOf(x) # NoSurface}
<1>1. Cardinality(T) \in Nat
  BY WindowAssumption, FS_Subset, FS_CardinalityType
<1>2. /\ order \in [1 .. Cardinality(T) -> T]
      /\ \A i, j \in DOMAIN order : order[i] = order[j] => i = j
  BY DEF HashOrders
<1>3. order \in Seq(T)
  <2> HIDE DEF T
  <2> QED BY <1>1, <1>2
<1>4. DOMAIN order = 1 .. Len(order) /\ Len(order) \in Nat /\ order \in [1 .. Len(order) -> T]
  <2> HIDE DEF T
  <2> QED BY <1>3
<1>5. order \in [1 .. Len(order) -> Window]
  BY <1>4
<1>6. order \in Seq(Window)
  <2> HIDE DEF T
  <2> QED BY <1>4, <1>5
<1> QED BY <1>2, <1>6 DEF Once

LEMMA RaiseFacts ==
  ASSUME NEW s \in Seq(Window), NEW w \in Window, NEW there, NEW order \in HashOrders
  PROVE  /\ RaiseSurface(s, w, there, order) \in Seq(Window)
         /\ Once(s) => Once(RaiseSurface(s, w, there, order))
<1> DEFINE kids == Children(w, there)
           p == Those(OnTop(s, w), Window \ kids)
           q == Those(order, kids)
<1>1. RaiseSurface(s, w, there, order) = p \o q
  BY DEF RaiseSurface
<1>2. OnTop(s, w) \in Seq(Window) /\ (Once(s) => Once(OnTop(s, w)))
  BY OnTopFacts
<1>3. p \in Seq(Window) /\ Elements(p) \cap kids = {} /\ (Once(s) => Once(p))
  BY <1>2, ThoseFacts
<1>4. q \in Seq(Window) /\ Elements(q) \subseteq kids /\ Once(q)
  BY OrderIsOnce, ThoseFacts
<1> HIDE DEF p, q, kids
<1> QED BY <1>1, <1>3, <1>4, ConcatFacts

LEMMA EnsureKeepsOrder ==
  ASSUME NEW d, Shape(d), NEW w, NEW there
  PROVE  EnsureKbdEntered(d, w, there).stack = d.stack
<1>1. \A h, k : /\ [d EXCEPT !.heard = h, !.kbd = k].stack = d.stack
  BY DEF Shape
<1> QED BY <1>1 DEF EnsureKbdEntered

LEMMA ActivateKeepsOrder ==
  ASSUME NEW d, Shape(d), Ordered(d), NEW w, NEW there, NEW order \in HashOrders
  PROVE  Ordered(Activate(d, w, there, order))
<1>1. CASE ~Stackable(w, there)
  BY <1>1 DEF Activate
<1>2. CASE Stackable(w, there)
  <2> DEFINE s == IF d.focused # w \/ w \in d.minimized
                  THEN RaiseSurface(d.stack, w, there, order) ELSE d.stack
             m == d.minimized \ {w}
             f == [d EXCEPT !.stack = s, !.focused = w, !.minimized = m]
  <2>1. w \in Window
    BY <1>2 DEF Stackable
  <2>2. s \in Seq(Window) /\ Once(s)
    BY <2>1, RaiseFacts DEF Ordered
  <2>3. Activate(d, w, there, order) = EnsureKbdEntered(f, w, there)
    BY <1>2 DEF Activate
  <2>4. Shape(f) /\ f.stack = s
    <3>1. m \subseteq Window
      BY DEF Shape
    <3> HIDE DEF s, m
    <3>2. f = [stack |-> s, focused |-> w, kbd |-> d.kbd, minimized |-> m, heard |-> d.heard]
      <4>1. f = [[d EXCEPT !.stack = s] EXCEPT !.focused = w, !.minimized = m]
        OBVIOUS
      <4>2. [d EXCEPT !.stack = s] = Put(d, s, d.minimized, d.focused)
        BY SameFields
      <4>3. [Put(d, s, d.minimized, d.focused) EXCEPT !.focused = w] = Put(d, s, d.minimized, w)
        BY DEF Put
      <4>4. [Put(d, s, d.minimized, w) EXCEPT !.minimized = m] = Put(d, s, m, w)
        BY DEF Put
      <4>5. f = [[[d EXCEPT !.stack = s] EXCEPT !.focused = w] EXCEPT !.minimized = m]
        BY <4>1
      <4> QED BY <4>2, <4>3, <4>4, <4>5 DEF Put
    <3> HIDE DEF f
    <3> QED BY <2>1, <3>1, <3>2 DEF Shape
  <2> HIDE DEF s, f
  <2> QED BY <2>2, <2>3, <2>4, EnsureKeepsOrder DEF Ordered
<1> QED BY <1>1, <1>2

(* focus_topmost_visible: a window takes the focus if one is visible.      *)
LEMMA TopmostKeepsOrder ==
  ASSUME NEW d, Shape(d), Ordered(d), NEW x, NEW there, NEW order \in HashOrders,
         keyboards \subseteq Keyboard
  PROVE  LET e == FocusTopmost(d, x, there, order)
         IN  /\ Ordered(e)
             /\ e.focused \in Window \/ (e = d /\ Visible(d, there) \subseteq {x})
<1> DEFINE e == FocusTopmost(d, x, there, order)
           able(i) == d.stack[i] # x /\ d.stack[i] \in Visible(d, there)
           T == {i \in DOMAIN d.stack : able(i)}
           last == CHOOSE i \in DOMAIN d.stack : able(i) /\ \A j \in DOMAIN d.stack : able(j) => j <= i
<1>1. CASE T = {}
  <2>1. e = d
    BY <1>1 DEF FocusTopmost
  <2>2. \A y \in Visible(d, there) : \E i \in DOMAIN d.stack : d.stack[i] = y
    BY DEF Visible, Stacked
  <2> QED BY <1>1, <2>1, <2>2
<1>2. CASE T # {}
  <2>1. e = Activate(d, d.stack[last], there, order)
    BY <1>2 DEF FocusTopmost
  <2>2. T \subseteq 1 .. Len(d.stack) /\ Len(d.stack) \in Nat
    BY DEF Ordered
  <2>3. \E i \in T : \A j \in T : j <= i
    <3> HIDE DEF T
    <3> QED BY <1>2, <2>2, Greatest
  <2>4. able(last)
    BY <2>3
  <2>5. d.stack[last] \in Window /\ Stackable(d.stack[last], there)
    BY <2>4 DEF Visible, Toplevel, Stackable
  <2> HIDE DEF last
  <2>6. e.focused = d.stack[last]
    BY <2>1, <2>5, ActivateFacts
  <2> QED BY <2>1, <2>5, <2>6, ActivateKeepsOrder
<1> QED BY <1>1, <1>2

LEMMA HideKeepsOrder ==
  ASSUME NEW d, Shape(d), NEW w
  PROVE  Hide(d, w).stack = d.stack
<1>1. \A m, h, f, k : [d EXCEPT !.minimized = m, !.heard = h, !.focused = f, !.kbd = k].stack = d.stack
  BY DEF Shape
<1>2. \A m : [d EXCEPT !.minimized = m].stack = d.stack
  BY DEF Shape
<1> QED BY <1>1, <1>2 DEF Hide

(* minimize_surface_for: the focus passes on unless Show Desktop hides     *)
(* the windows.                                                            *)
LEMMA MinimizeKeepsOrder ==
  ASSUME NEW d, Shape(d), Ordered(d), NEW w, NEW there, NEW order \in HashOrders,
         keyboards \subseteq Keyboard
  PROVE  LET e == Minimize(d, w, there, order)
         IN  /\ Ordered(e)
             /\ \/ e.focused = d.focused \/ e.focused \in Window
                \/ show_desktop_ids # <<>> \/ Visible(e, there) = {}
<1> DEFINE e == Minimize(d, w, there, order)
           h == Hide(d, w)
<1>1. CASE ~Toplevel(w, there)
  BY <1>1 DEF Minimize
<1>2. CASE Toplevel(w, there)
  <2>1. w \in Window
    BY <1>2 DEF Toplevel
  <2>2. /\ Shape(h) /\ h.minimized = d.minimized \cup {w} /\ h.stack = d.stack
        /\ h.focused = IF d.focused = w THEN None ELSE d.focused
    BY <2>1, HideFacts, HideKeepsOrder
  <2>3. Ordered(h) /\ w \notin Visible(h, there)
    BY <2>2 DEF Ordered, Visible
  <2>4. CASE d.focused = w /\ show_desktop_ids = <<>>
    <3>1. e = FocusTopmost(h, w, there, order)
      BY <1>2, <2>4 DEF Minimize
    <3> HIDE DEF h, e
    <3> QED BY <3>1, <2>2, <2>3, TopmostKeepsOrder DEF e
  <2>5. CASE ~(d.focused = w /\ show_desktop_ids = <<>>)
    <3>1. e = h
      BY <1>2, <2>5 DEF Minimize
    <3> HIDE DEF h, e
    <3> QED BY <3>1, <2>2, <2>3, <2>5 DEF e
  <2> QED BY <2>4, <2>5
<1> QED BY <1>1, <1>2

LEMMA ForgetKeepsOrder ==
  ASSUME NEW d, Shape(d), Ordered(d), NEW w
  PROVE  Ordered(Forget(d, w))
<1> DEFINE s == Without(d.stack, w)
<1>1. Forget(d, w).stack = s
  <2>1. \A m, f, b, h : [d EXCEPT !.stack = s, !.minimized = m, !.focused = f, !.kbd = b, !.heard = h].stack = s
    <3> HIDE DEF s
    <3> QED BY DEF Shape
  <2> QED BY <2>1 DEF Forget
<1> QED BY <1>1, WithoutFacts DEF Ordered

-----------------------------------------------------------------------------
(***************************************************************************)
(* Every action: what is not on the desk, the order of windows, and that   *)
(* the focus passes on.                                                    *)
(***************************************************************************)
Rest ==
  /\ parent \in [Window -> Surface \cup {NoSurface}]
  /\ \A w \in Window : parent[w] # NoSurface => <<w[1], parent[w]>> \in Window
  /\ keyboards \subseteq {k \in Keyboard : k[1] \in connected}
  /\ pending_activate \in (Client \X Surface) \cup {None}
  /\ pending_minimize \in Window \cup {None}
  /\ show_desktop_ids \in Seq(Window) /\ restoring \in Seq(Window)
  /\ restoring # <<>> => show_desktop_ids = <<>>

IInv == Inv /\ Rest /\ Ordered(desk)

Passes == desk.focused # None /\ desk'.focused = None => Awaited(connected \ {busy})'

Fine == Rest' /\ Ordered(desk)' /\ Passes

LEMMA SurfaceOf == \A w \in Window : w[2] \in Surface /\ w \in Client \X Surface
BY WindowAssumption DEF Surface

LEMMA NoneIsNoPair == None \notin Client \X Surface /\ NoSurface \notin Surface
BY WindowAssumption DEF Surface, NoSurface

(* The desk stays as it is.                                                *)
LEMMA SameDesk ==
  ASSUME IInv, UNCHANGED desk, Rest' PROVE Fine
BY DEF IInv, Fine, Ordered, Passes

(* Only the order of windows changes.                                      *)
LEMMA StackOnly ==
  ASSUME IInv, NEW s \in Seq(Window), Once(s), desk' = [desk EXCEPT !.stack = s], Rest'
  PROVE  Fine
<1>1. desk' = Put(desk, s, desk.minimized, desk.focused)
  BY SameFields DEF IInv, Inv, Good
<1>2. desk'.stack = s /\ desk'.focused = desk.focused
  BY <1>1 DEF Put
<1> QED BY <1>2 DEF Fine, Ordered, Passes

LEMMA PlainSteps ==
  ASSUME IInv, NEW w \in Window, NEW r,
         CreateSurface(w) \/ TakeRole(w, r) \/ DestroyLayer(w)
  PROVE  Fine
<1>1. CASE CreateSurface(w)
  BY <1>1, SameDesk DEF CreateSurface, pendingVars, desktopVars, IInv, Rest
<1>2. CASE TakeRole(w, r)
  BY <1>2, SameDesk DEF TakeRole, pendingVars, desktopVars, IInv, Rest
<1>3. CASE DestroyLayer(w)
  BY <1>3, SameDesk DEF DestroyLayer, pendingVars, desktopVars, IInv, Rest
<1> QED BY <1>1, <1>2, <1>3

LEMMA DestroyToplevelOrder ==
  ASSUME IInv, NEW w \in Window, DestroyToplevel(w) PROVE Fine
<1>1. Rest'
  BY DEF DestroyToplevel, pendingVars, desktopVars, IInv, Rest
<1>2. desk' = Put(desk, Without(desk.stack, w), desk.minimized \ {w}, desk.focused)
  BY SameFields DEF DestroyToplevel, IInv, Inv, Good
<1>3. desk'.stack = Without(desk.stack, w) /\ desk'.focused = desk.focused
  BY <1>2 DEF Put
<1> QED BY <1>1, <1>3, WithoutFacts DEF Fine, Passes, Ordered, IInv

(* A client's parent is one of its own windows.                            *)
LEMMA SetParentOrder ==
  ASSUME IInv, NEW w \in Window, NEW p \in Surface \cup {NoSurface}, SetParent(w, p) PROVE Fine
<1>1. Rest'
  BY DEF SetParent, pendingVars, desktopVars, IInv, Rest
<1>2. CASE p # NoSurface /\ {w, <<w[1], p>>} \subseteq mapped
  <2>1. PICK order \in HashOrders :
          desk' = [desk EXCEPT !.stack =
                     RaiseSurface(RaiseSurface(@, <<w[1], p>>, Clients, order), w, Clients, order)]
    BY <1>2 DEF SetParent
  <2>2. <<w[1], p>> \in Window
    BY <1>2 DEF SetParent
  <2> DEFINE q == RaiseSurface(desk.stack, <<w[1], p>>, Clients, order)
             s == RaiseSurface(q, w, Clients, order)
  <2>3. q \in Seq(Window) /\ Once(q)
    BY <2>2, RaiseFacts DEF IInv, Ordered
  <2>4. s \in Seq(Window) /\ Once(s)
    <3> HIDE DEF q
    <3> QED BY <2>3, RaiseFacts
  <2>5. desk' = [desk EXCEPT !.stack = s]
    BY <2>1
  <2> HIDE DEF s
  <2> QED BY <1>1, <2>4, <2>5, StackOnly
<1>3. CASE ~(p # NoSurface /\ {w, <<w[1], p>>} \subseteq mapped)
  BY <1>1, <1>3, SameDesk DEF SetParent
<1> QED BY <1>2, <1>3

LEMMA MapOrder ==
  ASSUME IInv, NEW w \in Window, Map(w) PROVE Fine
<1>1. Rest'
  BY SurfaceOf DEF Map, desktopVars, IInv, Rest
<1>2. CASE role[w] = "panel"
  BY <1>1, <1>2, SameDesk DEF Map
<1>3. CASE role[w] # "panel"
  <2>1. PICK order \in HashOrders : desk' = [desk EXCEPT !.stack = RaiseSurface(@, w, Clients, order)]
    BY <1>3 DEF Map
  <2> DEFINE s == RaiseSurface(desk.stack, w, Clients, order)
  <2>2. s \in Seq(Window) /\ Once(s)
    BY RaiseFacts DEF IInv, Ordered
  <2>3. desk' = [desk EXCEPT !.stack = s]
    BY <2>1
  <2> HIDE DEF s
  <2> QED BY <1>1, <2>2, <2>3, StackOnly
<1> QED BY <1>2, <1>3

(* track_mapped_toplevel takes back only what is not in the order.         *)
LEMMA RecommitOrder ==
  ASSUME IInv, NEW w \in Window, Recommit(w) PROVE Fine
<1>1. Rest'
  BY DEF Recommit, windowVars, pendingVars, desktopVars, IInv, Rest
<1> DEFINE s == IF w \in mapped THEN Append(desk.stack, w) ELSE Without(desk.stack, w)
<1>2. s \in Seq(Window) /\ Once(s)
  <2>1. CASE w \in mapped
    <3>1. w \notin Elements(desk.stack)
      BY <2>1 DEF Recommit, Stacked, Elements
    <3> QED BY <2>1, <3>1, AppendFacts DEF IInv, Ordered
  <2>2. CASE w \notin mapped
    BY <2>2, WithoutFacts DEF IInv, Ordered
  <2> QED BY <2>1, <2>2
<1>3. desk' = [desk EXCEPT !.stack = s]
  BY DEF Recommit
<1> HIDE DEF s
<1> QED BY <1>1, <1>2, <1>3, StackOnly

LEMMA UnmapOrder ==
  ASSUME IInv, NEW w \in Window, Unmap(w) PROVE Fine
<1> DEFINE dropped == IF role[w] \in {"toplevel", "orphan", "dialog"}
                      THEN Without(desk.stack, w) ELSE desk.stack
           p == <<w[1], parent[w]>>
           s == IF desk.focused = w /\ ParentOf(w) # NoSurface THEN OnTop(dropped, p) ELSE dropped
<1>1. ParentOf(w) # NoSurface => p \in Window
  BY DEF ParentOf, IInv, Rest
<1>2. dropped \in Seq(Window) /\ Once(dropped)
  BY WithoutFacts DEF IInv, Ordered
<1>3. s \in Seq(Window) /\ Once(s)
  <2> HIDE DEF dropped
  <2> QED BY <1>1, <1>2, OnTopFacts
<1>4. desk' = [desk EXCEPT !.stack = s] /\ pending_activate' \in {p, pending_activate}
      /\ (pending_activate' = p => p \in Window \/ p = pending_activate)
  BY <1>1 DEF Unmap
<1>5. Rest'
  BY <1>4, SurfaceOf DEF Unmap, desktopVars, IInv, Rest
<1> HIDE DEF s
<1> QED BY <1>3, <1>4, <1>5, StackOnly

LEMMA KeyboardOrder ==
  ASSUME IInv, NEW k \in Keyboard, GetKeyboard(k) \/ ReleaseKeyboard(k) PROVE Fine
<1>1. \E h : desk' = [desk EXCEPT !.heard = h]
  BY DEF GetKeyboard, ReleaseKeyboard
<1>2. \A h : /\ [desk EXCEPT !.heard = h].stack = desk.stack
             /\ [desk EXCEPT !.heard = h].focused = desk.focused
  BY DEF IInv, Inv, Good, Shape
<1>3. desk'.stack = desk.stack /\ desk'.focused = desk.focused
  BY <1>1, <1>2
<1>4. keyboards' \subseteq {j \in Keyboard : j[1] \in connected}
  <2>1. CASE GetKeyboard(k)
    <3>1. k[1] \in connected
      BY <2>1, WindowAssumption DEF GetKeyboard, IInv, Inv, Base
    <3> QED BY <2>1, <3>1 DEF GetKeyboard, IInv, Rest
  <2>2. CASE ReleaseKeyboard(k)
    BY <2>2 DEF ReleaseKeyboard, IInv, Rest
  <2> QED BY <2>1, <2>2
<1>5. Rest'
  BY <1>4 DEF GetKeyboard, ReleaseKeyboard, windowVars, pendingVars, desktopVars, IInv, Rest
<1> QED BY <1>3, <1>5 DEF Fine, Passes, Ordered, IInv

LEMMA SetMinimizedOrder ==
  ASSUME IInv, NEW w \in Window, SetMinimized(w) PROVE Fine
<1>1. Rest'
  BY DEF SetMinimized, windowVars, desktopVars, IInv, Rest
<1>2. desk' = Put(desk, desk.stack, desk.minimized \cup {w}, desk.focused)
  BY SameFields DEF SetMinimized, IInv, Inv, Good
<1>3. desk'.stack = desk.stack /\ desk'.focused = desk.focused
  BY <1>2 DEF Put
<1> QED BY <1>1, <1>3 DEF Fine, Passes, Ordered, IInv

(* The focus is moved by hand, to a window that is raised.                 *)
LEMMA GrabOrder ==
  ASSUME IInv, NEW w \in Window, NEW s \in Seq(Window), Once(s), NEW m,
         desk' = Put(desk, s, m, w), Rest'
  PROVE  Fine
<1>1. desk'.stack = s /\ desk'.focused = w /\ w # None
  BY WindowPair DEF Put
<1> QED BY <1>1 DEF Fine, Passes, Ordered

LEMMA GrabActionsOrder ==
  ASSUME IInv, NEW w \in Window,
         \/ ShowWindowMenu(w) \/ RequestGrab(w) \/ SetPosition(w)
         \/ PressFrame(w) \/ BeginMoveGrab(w)
  PROVE  Fine
<1>0. \A s, f : [desk EXCEPT !.stack = s, !.focused = f] = Put(desk, s, desk.minimized, f)
  BY SameFields DEF IInv, Inv, Good
<1>t. OnTop(desk.stack, w) \in Seq(Window) /\ Once(OnTop(desk.stack, w))
  BY OnTopFacts DEF IInv, Ordered
<1>1. CASE ShowWindowMenu(w)
  <2>1. Rest'
    BY <1>1, SurfaceOf DEF ShowWindowMenu, windowVars, desktopVars, IInv, Rest
  <2>2. desk' = Put(desk, OnTop(desk.stack, w), desk.minimized, w)
    BY <1>1, <1>0 DEF ShowWindowMenu
  <2> QED BY <1>t, <2>1, <2>2, GrabOrder
<1>2. CASE RequestGrab(w)
  <2>1. Rest'
    BY <1>2 DEF RequestGrab, windowVars, pendingVars, desktopVars, IInv, Rest
  <2>2. desk' = Put(desk, OnTop(desk.stack, w), desk.minimized, w)
    BY <1>2, <1>0 DEF RequestGrab
  <2> QED BY <1>t, <2>1, <2>2, GrabOrder
<1>3. CASE SetPosition(w)
  <2>1. Rest'
    BY <1>3 DEF SetPosition, windowVars, pendingVars, desktopVars, IInv, Rest
  <2> DEFINE s == OnTop(desk.stack, w)
             m == desk.minimized \ {w}
  <2>2. desk' = [desk EXCEPT !.stack = s, !.focused = w, !.minimized = m]
    BY <1>3 DEF SetPosition
  <2>3. s \in Seq(Window) /\ Once(s)
    BY <1>t
  <2> HIDE DEF s, m
  <2>4. desk' = [[desk EXCEPT !.stack = s, !.focused = w] EXCEPT !.minimized = m]
    BY <2>2
  <2>5. [Put(desk, s, desk.minimized, w) EXCEPT !.minimized = m] = Put(desk, s, m, w)
    BY DEF Put
  <2>6. desk' = Put(desk, s, m, w)
    BY <1>0, <2>4, <2>5
  <2> QED BY <2>1, <2>3, <2>6, GrabOrder
<1>4. CASE PressFrame(w)
  <2>1. Rest'
    BY <1>4 DEF PressFrame, OnlyDesk, windowVars, pendingVars, desktopVars, IInv, Rest
  <2>2. PICK order \in HashOrders :
          desk' = [desk EXCEPT !.stack = RaiseSurface(@, w, Clients, order), !.focused = w]
    BY <1>4 DEF PressFrame
  <2> DEFINE s == RaiseSurface(desk.stack, w, Clients, order)
  <2>3. s \in Seq(Window) /\ Once(s)
    BY RaiseFacts DEF IInv, Ordered
  <2>4. desk' = [desk EXCEPT !.stack = s, !.focused = w]
    BY <2>2
  <2> HIDE DEF s
  <2>5. desk' = Put(desk, s, desk.minimized, w)
    BY <1>0, <2>4
  <2> QED BY <2>1, <2>3, <2>5, GrabOrder
<1>5. CASE BeginMoveGrab(w)
  <2>1. Rest'
    BY <1>5 DEF BeginMoveGrab, OnlyDesk, windowVars, pendingVars, desktopVars, IInv, Rest
  <2>2. desk' = Put(desk, OnTop(desk.stack, w), desk.minimized, w)
    BY <1>5, <1>0 DEF BeginMoveGrab
  <2> QED BY <1>t, <2>1, <2>2, GrabOrder
<1> QED BY <1>1, <1>2, <1>3, <1>4, <1>5

(* A step of the window manager between batches or by a request.           *)
LEMMA EnsureOrder ==
  ASSUME IInv, NEW d, Shape(d), d.stack = desk.stack, d.focused = desk.focused \/ d.focused \in Window,
         NEW w \in Window, desk' = EnsureKbdEntered(d, w, Clients), Rest'
  PROVE  Fine
<1>1. desk'.stack = desk.stack
  BY EnsureKeepsOrder
<1>2. desk'.focused = d.focused
  BY EnsureFacts DEF IInv, Inv, Base
<1> QED BY <1>1, <1>2, WindowPair DEF Fine, Passes, Ordered, IInv

LEMMA ActivateOrder ==
  ASSUME IInv, NEW w, NEW order \in HashOrders, desk' = Activate(desk, w, Clients, order), Rest'
  PROVE  Fine
<1>1. Ordered(desk')
  BY ActivateKeepsOrder DEF IInv, Inv, Good
<1>2. desk'.focused = desk.focused \/ desk'.focused \in Window
  BY ActivateFacts DEF IInv, Inv, Base, Good, Activated
<1> QED BY <1>1, <1>2, WindowPair DEF Fine, Passes, Ordered

LEMMA MinimizeOrder ==
  ASSUME IInv, NEW w, NEW order \in HashOrders, desk' = Minimize(desk, w, Clients, order), Rest',
         UNCHANGED <<role, connected, busy, show_desktop_ids>>
  PROVE  Fine
<1>1. /\ Ordered(desk')
      /\ \/ desk'.focused = desk.focused \/ desk'.focused \in Window
         \/ show_desktop_ids # <<>> \/ Visible(desk', Clients) = {}
  BY MinimizeKeepsOrder DEF IInv, Inv, Base, Good
<1>2. Visible(desk, connected \ {busy})' = Visible(desk', Clients)
  BY DEF Visible, Toplevel, Stacked, Clients
<1> QED BY <1>1, <1>2, WindowPair DEF Fine, Passes, Ordered, Awaited

LEMMA ForwardVirtualKeyOrder ==
  ASSUME IInv, NEW c, ForwardVirtualKey(c) PROVE Fine
<1>1. Rest'
  BY DEF ForwardVirtualKey, windowVars, pendingVars, desktopVars, IInv, Rest
<1>2. desk.focused \in Window /\ Shape(desk)
  BY DEF ForwardVirtualKey, IInv, Inv, Good, Shape
<1> QED BY <1>1, <1>2, EnsureOrder DEF ForwardVirtualKey

LEMMA ClickOrder ==
  ASSUME IInv, NEW w \in Window, Click(w) PROVE Fine
<1>1. Rest'
  BY DEF Click, OnlyDesk, windowVars, pendingVars, desktopVars, IInv, Rest
<1>2. PICK order \in HashOrders :
        desk' = IF Stackable(w, Clients)
                THEN IF desk.focused # w THEN Activate(desk, w, Clients, order)
                     ELSE EnsureKbdEntered(desk, w, Clients)
                ELSE IF role[w] = "panel"
                THEN EnsureKbdEntered([desk EXCEPT !.focused = w], w, Clients)
                ELSE desk
  BY DEF Click
<1>s. Shape(desk)
  BY DEF IInv, Inv, Good
<1>3. CASE desk' = Activate(desk, w, Clients, order)
  BY <1>1, <1>3, ActivateOrder
<1>4. CASE desk' = EnsureKbdEntered(desk, w, Clients)
  BY <1>1, <1>4, <1>s, EnsureOrder
<1>5. CASE desk' = EnsureKbdEntered([desk EXCEPT !.focused = w], w, Clients)
  <2>1. [desk EXCEPT !.focused = w] = Put(desk, desk.stack, desk.minimized, w)
    BY <1>s, SameFields
  <2> DEFINE d == Put(desk, desk.stack, desk.minimized, w)
  <2>2. Shape(d) /\ d.focused = w
    <3>1. desk.minimized \in SUBSET Window
      BY <1>s DEF Shape
    <3> QED BY <1>s, <3>1, PutFacts
  <2>3. d.stack = desk.stack
    BY DEF Put
  <2>4. desk' = EnsureKbdEntered(d, w, Clients)
    BY <1>5, <2>1
  <2> HIDE DEF d
  <2> QED BY <1>1, <2>2, <2>3, <2>4, EnsureOrder
<1>6. CASE desk' = desk
  BY <1>1, <1>6, SameDesk
<1> QED BY <1>2, <1>3, <1>4, <1>5, <1>6

LEMMA ShellSteps ==
  ASSUME IInv, NEW w \in Window,
         \/ Key \/ ActivateByShell(w) \/ MinimizeByShell(w) \/ MinimizeShortcut
         \/ RestoreNext \/ ResetInputState
  PROVE  Fine
<1>1. CASE Key
  <2>1. Rest'
    BY <1>1 DEF Key, OnlyDesk, windowVars, pendingVars, desktopVars, IInv, Rest
  <2>2. PICK x \in Window : desk' = EnsureKbdEntered(desk, x, Clients)
    BY <1>1 DEF Key
  <2> QED BY <2>1, <2>2, EnsureOrder DEF IInv, Inv, Good
<1>2. CASE ActivateByShell(w)
  <2>1. Rest'
    BY <1>2 DEF ActivateByShell, OnlyDesk, windowVars, pendingVars, desktopVars, IInv, Rest
  <2> QED BY <1>2, <2>1, ActivateOrder DEF ActivateByShell
<1>3. CASE MinimizeByShell(w)
  <2>1. Rest' /\ UNCHANGED <<role, connected, busy, show_desktop_ids>>
    BY <1>3 DEF MinimizeByShell, OnlyDesk, windowVars, pendingVars, desktopVars, IInv, Rest
  <2> QED BY <1>3, <2>1, MinimizeOrder DEF MinimizeByShell
<1>4. CASE MinimizeShortcut
  <2>1. Rest' /\ UNCHANGED <<role, connected, busy, show_desktop_ids>>
    BY <1>4 DEF MinimizeShortcut, OnlyDesk, windowVars, pendingVars, desktopVars, IInv, Rest
  <2> QED BY <1>4, <2>1, MinimizeOrder DEF MinimizeShortcut
<1>5. CASE RestoreNext
  <2>1. Tail(restoring) \in Seq(Window)
    BY <1>5 DEF RestoreNext, IInv, Rest
  <2>2. Rest'
    BY <1>5, <2>1 DEF RestoreNext, windowVars, pendingVars, IInv, Rest
  <2> QED BY <1>5, <2>2, ActivateOrder DEF RestoreNext
<1>6. CASE ResetInputState
  <2>1. Rest'
    BY <1>6 DEF ResetInputState, OnlyDesk, windowVars, pendingVars, desktopVars, IInv, Rest
  <2>2. desk'.stack = desk.stack /\ desk'.focused = desk.focused
    BY <1>6 DEF ResetInputState, IInv, Inv, Good, Shape
  <2> QED BY <2>1, <2>2 DEF Fine, Passes, Ordered, IInv
<1> QED BY <1>1, <1>2, <1>3, <1>4, <1>5, <1>6

(* Show Desktop remembers what it hides, so that somebody waits for the    *)
(* focus.                                                                  *)
LEMMA HideDesktopOrder ==
  ASSUME IInv, HideDesktop PROVE Fine
<1> DEFINE v == Visible(desk, Clients)
           d == IF desk.focused \in v THEN Hide(desk, desk.focused) ELSE desk
           m == d.minimized \cup v
<1>1. v \subseteq Elements(desk.stack) /\ v \subseteq Window /\ v # {}
  BY DEF Visible, Stacked, Elements, Toplevel, HideDesktop
<1>2. Those(desk.stack, v) \in Seq(Window) /\ Those(desk.stack, v) # <<>>
  <2>1. /\ Those(desk.stack, v) \in Seq(Window)
        /\ Elements(Those(desk.stack, v)) = Elements(desk.stack) \cap v
    <3> HIDE DEF v
    <3> QED BY ThoseFacts DEF IInv, Ordered
  <2>2. Elements(<<>>) = {}
    BY DEF Elements
  <2> HIDE DEF v
  <2> QED BY <1>1, <2>1, <2>2
<1>3. show_desktop_ids' = Those(desk.stack, v)
  <2>1. Those(desk.stack, v) = Those(desk.stack, Visible(desk, Clients))
    OBVIOUS
  <2> QED BY <2>1 DEF HideDesktop
<1>4. desk' = [d EXCEPT !.minimized = m]
  BY DEF HideDesktop
<1>5. Shape(d) /\ d.stack = desk.stack
  <2>1. CASE desk.focused \in v
    <3>1. desk.focused \in Window
      BY <1>1, <2>1
    <3> QED BY <2>1, <3>1, HideFacts, HideKeepsOrder DEF IInv, Inv, Base, Good
  <2>2. CASE desk.focused \notin v
    BY <2>2 DEF IInv, Inv, Good
  <2> QED BY <2>1, <2>2
<1> HIDE DEF d, m
<1>6. desk' = Put(d, d.stack, m, d.focused)
  BY <1>4, <1>5, SameFields
<1>7. desk'.stack = desk.stack
  BY <1>5, <1>6 DEF Put
<1> HIDE DEF v
<1>8. Rest'
  BY <1>2, <1>3 DEF HideDesktop, Idle, windowVars, pendingVars, IInv, Rest
<1>9. show_desktop_ids' # <<>>
  BY <1>2, <1>3
<1> QED BY <1>7, <1>8, <1>9 DEF Fine, Passes, Ordered, Awaited, IInv

(* What was put off may take the focus from the window that had it.        *)
LEMMA EndBatchOrder ==
  ASSUME IInv, NEW c \in Client, EndBatch(c) PROVE Fine
<1>1. Rest'
  BY DEF EndBatch, windowVars, desktopVars, IInv, Rest
<1>2. PICK order \in HashOrders : desk' = Flush(order)
  BY DEF EndBatch
<1> DEFINE h == Minimize(desk, pending_minimize, connected, order)
           e == Activate(h, pending_activate, connected, order)
<1>3. desk' = e
  BY <1>2 DEF Flush
<1>4. /\ Ordered(h)
      /\ \/ h.focused = desk.focused \/ h.focused \in Window
         \/ show_desktop_ids # <<>> \/ Visible(h, connected) = {}
  BY MinimizeKeepsOrder DEF IInv, Inv, Base, Good
<1>5. Shape(h)
  BY MinimizeFacts DEF IInv, Inv, Base, Good
<1> HIDE DEF h
<1>6. Ordered(e) /\ (e = h \/ e.focused \in Window)
  <2>1. Activated(h, e, connected)
    BY <1>5, ActivateFacts DEF IInv, Inv, Base
  <2>2. Ordered(e)
    BY <1>4, <1>5, ActivateKeepsOrder
  <2> HIDE DEF e
  <2> QED BY <2>1, <2>2 DEF Activated
<1> HIDE DEF e
<1>7. /\ connected' = connected /\ busy' = NoClient /\ role' = role
      /\ show_desktop_ids' = show_desktop_ids /\ connected \ {NoClient} = connected
  BY WindowAssumption DEF EndBatch, windowVars, desktopVars, IInv, Inv, Base
<1>8. Visible(desk, connected \ {busy})' = Visible(e, connected)
  BY <1>3, <1>7 DEF Visible, Toplevel, Stacked
<1>9. Passes
  BY <1>3, <1>4, <1>6, <1>7, <1>8, WindowPair DEF Passes, Awaited
<1> QED BY <1>1, <1>3, <1>6, <1>9 DEF Fine, Ordered

(* The loss of a client takes the focus of its windows to the others.      *)
LEMMA DisconnectOrder ==
  ASSUME IInv, NEW c \in Client, Disconnect(c) PROVE Fine
<1>1. Rest'
  BY DEF Disconnect, Of, pendingVars, desktopVars, IInv, Rest
<1> DEFINE h == ForgetClient(c)
<1>2. PICK order \in HashOrders :
        desk' = IF desk.focused # None /\ desk.focused[1] = c
                THEN FocusTopmost(h, None, Clients, order) ELSE h
  BY DEF Disconnect
<1>3. /\ Shape(h)
      /\ h.focused = IF desk.focused # None /\ desk.focused[1] = c THEN None ELSE desk.focused
  BY ForgetClientFacts DEF IInv
<1>4. Ordered(h)
  <2>1. h.stack = Those(desk.stack, Window \ Of(c))
    BY DEF ForgetClient
  <2> QED BY <2>1, ThoseFacts DEF IInv, Ordered
<1> HIDE DEF h
<1>5. Clients = (connected \ {busy})'
  BY WindowAssumption DEF Clients, Disconnect, IInv, Inv, Base
<1>6. \A x \in Window : x[1] \in Clients => role'[x] = role[x]
  BY DEF Disconnect, Clients
<1>7. Visible(desk, connected \ {busy})' = Visible(desk', Clients)
  BY <1>5, <1>6 DEF Visible, Toplevel, Stacked
<1>8. CASE desk.focused # None /\ desk.focused[1] = c
  <2>1. desk' = FocusTopmost(h, None, Clients, order)
    BY <1>2, <1>8
  <2>2. Ordered(desk') /\ (desk'.focused \in Window \/ Visible(desk', Clients) \subseteq {None})
    BY <1>3, <1>4, <2>1, TopmostKeepsOrder DEF IInv, Inv, Base
  <2>3. Visible(desk', Clients) \subseteq Window
    BY DEF Visible, Toplevel
  <2>4. Visible(desk', Clients) \subseteq {None} => Visible(desk', Clients) = {}
    BY <2>3, WindowPair
  <2> QED BY <1>1, <1>7, <2>2, <2>4, WindowPair DEF Fine, Passes, Ordered, Awaited
<1>9. CASE ~(desk.focused # None /\ desk.focused[1] = c)
  BY <1>1, <1>2, <1>3, <1>4, <1>9 DEF Fine, Passes, Ordered
<1> QED BY <1>8, <1>9

(* wl_surface.destroy gives the focus to the parent, at the end of the     *)
(* batch, or to the topmost window of another client.                      *)
LEMMA DestroySurfaceOrder ==
  ASSUME IInv, NEW w \in Window, DestroySurface(w) PROVE Fine
<1> DEFINE h == Forget(desk, w)
           p == <<w[1], parent[w]>>
<1>1. /\ Shape(h) /\ h.focused = IF desk.focused = w THEN None ELSE desk.focused
  BY ForgetFacts DEF IInv, Inv, Base, Good
<1>2. Ordered(h)
  BY ForgetKeepsOrder DEF IInv, Inv, Good
<1>p. ParentOf(w) # NoSurface => p \in Window
  BY DEF ParentOf, IInv, Rest
<1>3. CASE desk.focused = w /\ ParentOf(w) # NoSurface
  <2>1. p \in Window /\ pending_activate' = p
    BY <1>3, <1>p DEF DestroySurface
  <2>2. Rest'
    BY <1>3, <2>1, SurfaceOf DEF DestroySurface, desktopVars, IInv, Rest
  <2> DEFINE s == OnTop(h.stack, p)
  <2>3. desk' = [h EXCEPT !.stack = s]
    BY <1>3 DEF DestroySurface
  <2>4. s \in Seq(Window) /\ Once(s)
    <3> HIDE DEF h
    <3> QED BY <1>2, <2>1, OnTopFacts DEF Ordered
  <2> HIDE DEF h, s
  <2>5. desk'.stack = s
    BY <1>1, <2>3, SameFields DEF Put
  <2>6. pending_activate' # None
    BY <2>1, WindowPair
  <2> QED BY <2>2, <2>4, <2>5, <2>6 DEF Fine, Passes, Ordered, Awaited
<1>4. CASE ~(desk.focused = w /\ ParentOf(w) # NoSurface)
  <2>1. Rest'
    BY <1>4 DEF DestroySurface, desktopVars, IInv, Rest
  <2>2. PICK order \in HashOrders :
          desk' = IF desk.focused = w THEN FocusTopmost(h, w, Clients, order) ELSE h
    BY <1>4 DEF DestroySurface
  <2> HIDE DEF h
  <2>3. CASE desk.focused = w
    <3>1. desk' = FocusTopmost(h, w, Clients, order)
      BY <2>2, <2>3
    <3>2. Ordered(desk') /\ (desk'.focused \in Window \/ Visible(desk', Clients) \subseteq {w})
      BY <1>1, <1>2, <3>1, TopmostKeepsOrder DEF IInv, Inv, Base
    <3>3. /\ (connected \ {busy})' = Clients /\ w[1] \notin Clients
          /\ \A x \in Window : x # w => role'[x] = role[x]
      BY DEF DestroySurface, Clients, IInv, Inv, Base
    <3>4. Visible(desk, connected \ {busy})' \subseteq Visible(desk', Clients) \ {w}
      BY <3>3 DEF Visible, Toplevel, Stacked
    <3>5. desk'.focused \in Window \/ Visible(desk, connected \ {busy})' = {}
      BY <3>2, <3>4
    <3> QED BY <2>1, <3>2, <3>5, WindowPair DEF Fine, Passes, Ordered, Awaited
  <2>4. CASE desk.focused # w
    BY <1>1, <1>2, <2>1, <2>2, <2>4 DEF Fine, Passes, Ordered
  <2> QED BY <2>3, <2>4
<1> QED BY <1>3, <1>4

-----------------------------------------------------------------------------
LEMMA EveryStep ==
  ASSUME IInv, Next PROVE Fine
<1>1. ASSUME NEW c \in Client, Request(c) PROVE Fine
  <2>1. ASSUME NEW k \in Keyboard, GetKeyboard(k) \/ ReleaseKeyboard(k) PROVE Fine
    BY <2>1, KeyboardOrder
  <2>2. ASSUME NEW w \in Window,
               \/ CreateSurface(w) \/ (\E r \in Roles : TakeRole(w, r)) \/ DestroyLayer(w)
        PROVE  Fine
    BY <1>1, <2>2, PlainSteps
  <2>3. ASSUME NEW w \in Window,
               \/ DestroyToplevel(w) \/ DestroySurface(w)
               \/ (\E p \in Surface \cup {NoSurface} : SetParent(w, p))
               \/ Map(w) \/ Recommit(w) \/ Unmap(w) \/ SetMinimized(w)
        PROVE  Fine
    BY <2>3, DestroyToplevelOrder, DestroySurfaceOrder, SetParentOrder, MapOrder, RecommitOrder,
       UnmapOrder, SetMinimizedOrder
  <2>4. ASSUME NEW w \in Window, ShowWindowMenu(w) \/ RequestGrab(w) \/ SetPosition(w) PROVE Fine
    BY <2>4, GrabActionsOrder
  <2>5. ASSUME ForwardVirtualKey(c) PROVE Fine
    BY <2>5, ForwardVirtualKeyOrder
  <2> QED BY <1>1, <2>1, <2>2, <2>3, <2>4, <2>5 DEF Request, Of
<1>2. ASSUME NEW c \in Client, Connect(c) \/ BeginBatch(c) PROVE Fine
  <2>1. CASE Connect(c)
    BY <2>1, SameDesk DEF Connect, windowVars, pendingVars, desktopVars, IInv, Rest
  <2>2. CASE BeginBatch(c)
    BY <2>2, SameDesk DEF BeginBatch, windowVars, pendingVars, desktopVars, IInv, Rest
  <2> QED BY <1>2, <2>1, <2>2
<1>3. ASSUME NEW c \in Client, EndBatch(c) \/ Disconnect(c) PROVE Fine
  BY <1>3, EndBatchOrder, DisconnectOrder
<1>4. ASSUME NEW w \in Window,
             \/ Click(w) \/ PressFrame(w) \/ BeginMoveGrab(w)
             \/ ActivateByShell(w) \/ MinimizeByShell(w)
      PROVE  Fine
  BY <1>4, ClickOrder, GrabActionsOrder, ShellSteps
<1>5. ASSUME Key \/ MinimizeShortcut \/ ResetInputState \/ RestoreNext PROVE Fine
  <2>1. CASE \E w : w \in Window
    BY <1>5, <2>1, ShellSteps
  <2>2. CASE Window = {}
    BY <1>5, <2>2 DEF Key, MinimizeShortcut, ResetInputState, RestoreNext, IInv, Inv, Good, Shape, Rest
  <2> QED BY <2>1, <2>2
<1>6. ASSUME HideDesktop \/ BeginRestore PROVE Fine
  <2>1. CASE BeginRestore
    BY <2>1, SameDesk DEF BeginRestore, windowVars, pendingVars, IInv, Rest
  <2> QED BY <1>6, <2>1, HideDesktopOrder
<1> QED BY <1>1, <1>2, <1>3, <1>4, <1>5, <1>6 DEF Next, Input

LEMMA IInvHolds ==
  /\ Init => IInv
  /\ IInv /\ [Next]_vars => IInv'
<1>1. ASSUME Init PROVE IInv
  <2>1. Inv
    BY <1>1, InitHolds
  <2>2. Rest
    BY <1>1 DEF Init, Rest
  <2>3. desk.stack = <<>>
    BY <1>1 DEF Init
  <2>4. Ordered(desk)
    BY <2>3 DEF Ordered, Once
  <2> QED BY <2>1, <2>2, <2>4 DEF IInv
<1>2. ASSUME IInv, Next PROVE IInv'
  BY <1>2, NextKeeps, EveryStep DEF IInv, Fine
<1>3. ASSUME IInv, UNCHANGED vars PROVE IInv'
  BY <1>3, StutterKeeps DEF IInv, vars, windowVars, pendingVars, desktopVars, Rest, Ordered
<1> QED BY <1>1, <1>2, <1>3

THEOREM OrderInvariance == Spec => []IInv
BY IInvHolds, PTL DEF Spec

(* The tables and the desk keep their shape, and only toplevels are        *)
(* minimized.                                                              *)
THEOREM TypeCorrect == Spec => []TypeOK
<1>1. ASSUME IInv PROVE TypeOK
  <2>1. desk \in Desk
    BY <1>1 DEF IInv, Inv, Good, Shape, Ordered, Desk
  <2> QED BY <1>1, <2>1 DEF IInv, Inv, Base, Rest, TypeOK
<1> QED BY <1>1, OrderInvariance, PTL

(* raise_surface, set_parent, unmapping and what track_mapped_toplevel     *)
(* takes back may all put a window into the order: no window is in it      *)
(* twice.                                                                  *)
THEOREM NoWindowTwice == Spec => []StackOnce
<1>1. IInv => StackOnce
  BY DEF IInv, Ordered, Once, StackOnce
<1> QED BY <1>1, OrderInvariance, PTL

(* focus_topmost_visible: after a window, a client or the focus of a       *)
(* minimized window is gone, nobody has the focus only if nobody could.    *)
THEOREM FocusIsPassedOn == Spec => FocusPassesOn
<1>1. IInv /\ [Next]_vars =>
        [desk.focused # None /\ desk'.focused = None => Awaited(connected \ {busy})']_vars
  BY EveryStep DEF Fine, Passes
<1> QED BY <1>1, OrderInvariance, PTL DEF Spec, FocusPassesOn

=============================================================================
