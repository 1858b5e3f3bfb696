--------------------------- MODULE DriFlipProofs ----------------------------
(***************************************************************************)
(* Proofs about DriFlip, for screens of any size, any damage and any       *)
(* number of framebuffer ids: the buffer that is drawn into next is right  *)
(* up to the spans that are copied in any case, no framebuffer is removed  *)
(* while the CRTC uses it, and the backend implements Display.             *)
(***************************************************************************)
EXTENDS DriFlip, FiniteSetTheorems, WellFoundedInduction, TLAPS

(* No frame is composed while a flip is outstanding: without this the      *)
(* statements below are wrong.                                             *)
NoScreenshots == "screenshot" \notin Allow

(* What is presented can be shown: SetCrtc does not fail either.  This is  *)
(* what the contents of the buffers need.                                  *)
Orderly == NoScreenshots /\ "fail" \notin Allow

(* The framebuffer the CRTC shows, or will show once the flip is done.     *)
Target == IF flip_pending THEN pending_fb_id ELSE scanout

(* The buffers after the rows that copy_damaged has still to write: the    *)
(* steps of an update in place change bufs, and not this.                  *)
Finished == [bufs EXCEPT ![front] = Copied(@, frame, due)]

(* What the software path knows of its two buffers. *)
CopiesKnown ==
  /\ fb_valid => shadow = frame
  /\ active = "yes" /\ full_copies <= 1 => Finished[front] = shadow
  /\ active = "yes" /\ full_copies = 0 =>
       \A c \in Cell : Finished[Back][c] = shadow[c] \/ In(c[2], row_span_prev[c[1]])

(* Rows are still to be written only in an update in place. *)
InPlace ==
  Copying => /\ active = "yes" /\ presented /\ ~use_page_flip
             /\ fb_valid /\ full_copies <= 1

(* Which of the framebuffers is on its way to the screen. *)
Aimed ==
  active = "yes" =>
    /\ Target \in {front, gpu_fb, direct} \ {NoFb}
    /\ ~use_page_flip => ~flip_pending
    /\ direct # NoFb => Target = direct

(* The front buffer is the one on its way there unless full copies are     *)
(* due, and always if there are no page flips.                             *)
FrontAimed ==
  active = "yes" =>
    /\ full_copies <= 1 \/ ~use_page_flip => Target = front
    /\ direct # NoFb => full_copies = 2

(* Where a flip is between its submission and its completion, and which    *)
(* events can be unread.                                                   *)
InFlight ==
  /\ active = "yes" =>
       /\ flip_pending =>
            \/ queued = pending_fb_id /\ scanout # pending_fb_id /\ pending_fb_id \notin drm_events
            \/ queued = NoFb /\ scanout = pending_fb_id
       /\ ~flip_pending => queued = NoFb
       /\ polled => drm_events \subseteq {scanout} /\ (queued # NoFb => drm_events = {})
       /\ ~presented => ~flip_pending
  /\ active # "yes" => ~flip_pending /\ ~presented
  /\ active = "no" => queued = NoFb /\ (polled => drm_events = {})

(* What is registered, and what waits to be removed. *)
Registered ==
  /\ ~flip_pending => retire = {}
  /\ pending_fb_id \notin retire
  /\ gpu_fb # NoFb => pic[gpu_fb] # NoFb /\ gpu_fb # direct /\ gpu_fb \notin retire
  /\ direct # NoFb => pic[direct] # NoFb /\ direct \notin retire
  /\ active # "leaving" => InUseIsRegistered

FlipInv == TypeOK /\ Aimed /\ InFlight /\ Registered /\ InPlace
CopyInv == CopiesKnown /\ FrontAimed
IInv == FlipInv /\ CopyInv

-----------------------------------------------------------------------------
(***************************************************************************)
(* The spans that are copied.                                              *)
(***************************************************************************)

(* Inclusion is a well-founded order on the sets of numbers up to n.       *)
LEMMA SubsetsWellFounded ==
  ASSUME NEW n \in Nat
  PROVE  IsWellFoundedOn(StrictSubsetOrdering(0 .. n), SUBSET (0 .. n))
<1>1. IsFiniteSet(0 .. n)
  BY FS_Interval
<1>2. FiniteSubsetsOf(0 .. n) = SUBSET (0 .. n)
  BY <1>1, FS_FiniteSubsetsOfFinite
<1> QED  BY <1>2, FS_StrictSubsetOrderingWellFounded

(* A set of numbers up to n that is not empty has a least and a greatest   *)
(* element.                                                                *)
LEMMA MinIsLeast ==
  ASSUME NEW n \in Nat, NEW S, S \subseteq 0 .. n, S # {}
  PROVE  Min(S) \in S /\ \A y \in S : Min(S) <= y
<1> DEFINE T == {0 .. x : x \in S}
<1>1. T \subseteq SUBSET (0 .. n)
  <2>1. \A x \in S : 0 .. x \subseteq 0 .. n
    OBVIOUS
  <2> QED  BY <2>1
<1>2. T # {}
  OBVIOUS
<1>3. PICK a \in T : \A b \in T : ~(<<b, a>> \in StrictSubsetOrdering(0 .. n))
  <2> HIDE DEF T
  <2> QED  BY SubsetsWellFounded, <1>1, <1>2, WFMin
<1>4. PICK x \in S : a = 0 .. x
  OBVIOUS
<1>5. ASSUME NEW y \in S PROVE x <= y
  <2>1. SUFFICES ASSUME y < x PROVE FALSE
    OBVIOUS
  <2>2. 0 .. y \in T /\ 0 .. y \subseteq 0 .. x /\ x \in 0 .. x /\ x \notin 0 .. y
    BY <2>1
  <2>3. <<0 .. y, 0 .. x>> \in StrictSubsetOrdering(0 .. n)
    BY <2>2, <1>1, <1>4 DEF StrictSubsetOrdering
  <2> QED  BY <2>2, <2>3, <1>3, <1>4
<1> QED  BY <1>5 DEF Min

(* See MinIsLeast.                                                         *)
LEMMA MaxIsGreatest ==
  ASSUME NEW n \in Nat, NEW S, S \subseteq 0 .. n, S # {}
  PROVE  Max(S) \in S /\ \A y \in S : y <= Max(S)
<1> DEFINE U == {n - x : x \in S}
<1>1. U \subseteq 0 .. n /\ U # {}
  <2>1. \A x \in S : n - x \in 0 .. n
    OBVIOUS
  <2> QED  BY <2>1
<1>2. PICK u \in U : \A v \in U : u <= v
  <2> HIDE DEF U
  <2> QED  BY <1>1, MinIsLeast
<1>3. PICK x \in S : u = n - x
  OBVIOUS
<1>4. \A y \in S : y <= x
  <2>1. TAKE y \in S
  <2>2. u <= n - y
    BY <1>2
  <2> QED  BY <2>2, <1>3
<1> QED  BY <1>4 DEF Max

(* What a present writes of a row is a span of the row, and covers every   *)
(* pixel inside the damage that differs from the shadow.                   *)
LEMMA NewSpanCovers ==
  ASSUME TypeOK, NEW p \in Picture, NEW d \in Damage, NEW y \in Row
  PROVE  /\ NewSpan(p, d, y) \in Span
         /\ \A x \in 0 .. W - 1 :
              Inside(<<y, x>>, d) /\ p[<<y, x>>] # shadow[<<y, x>>] => In(x, NewSpan(p, d, y))
<1> DEFINE C == Changed(p, d, y)
<1>1. W \in Nat \ {0} /\ Trim \in Nat
  BY SizeAssumption
<1>2. CASE full_copies > 0
  BY <1>1, <1>2 DEF NewSpan, Whole, Span, In
<1>3. CASE ~(full_copies > 0) /\ C = {}
  <2>1. NewSpan(p, d, y) = Clean
    BY <1>3 DEF NewSpan
  <2>2. \A x \in 0 .. W - 1 : ~(Inside(<<y, x>>, d) /\ p[<<y, x>>] # shadow[<<y, x>>])
    BY <1>3 DEF Changed
  <2>3. Clean \in Span
    BY <1>1 DEF Clean, Span
  <2> QED  BY <2>1, <2>2, <2>3
<1>4. CASE ~(full_copies > 0) /\ C # {} /\ d.x1 - d.x0 <= Trim
  <2>1. C \subseteq 0 .. W - 1 /\ W - 1 \in Nat
    BY <1>1 DEF Changed
  <2>2. Min(C) \in C /\ (\A x \in C : Min(C) <= x) /\ Max(C) \in C /\ \A x \in C : x <= Max(C)
    <3> HIDE DEF C
    <3> QED  BY <2>1, <1>4, MinIsLeast, MaxIsGreatest
  <2>3. NewSpan(p, d, y) = [lo |-> Min(C), hi |-> Max(C) + 1]
    BY <1>4 DEF NewSpan
  <2>4. \A x \in 0 .. W - 1 : Inside(<<y, x>>, d) /\ p[<<y, x>>] # shadow[<<y, x>>] => x \in C
    BY DEF Changed
  <2> HIDE DEF C
  <2>5. \A a \in C : a \in 0 .. W /\ a + 1 \in 0 .. W /\ \A b \in C : a <= b => a < b + 1
    BY <1>1, <2>1
  <2>6. NewSpan(p, d, y) \in Span
    BY <2>2, <2>3, <2>5 DEF Span
  <2>7. \A x \in C : Min(C) <= x /\ x < Max(C) + 1
    BY <2>2, <2>5
  <2> QED  BY <2>3, <2>4, <2>6, <2>7 DEF In
<1>5. CASE ~(full_copies > 0) /\ C # {} /\ ~(d.x1 - d.x0 <= Trim)
  <2>1. NewSpan(p, d, y) = [lo |-> d.x0, hi |-> d.x1]
    BY <1>5 DEF NewSpan
  <2> QED  BY <2>1 DEF Damage, Span, In, Inside
<1> QED  BY <1>2, <1>3, <1>4, <1>5

(* The hull of two spans is a span that covers both.                       *)
LEMMA HullCovers ==
  ASSUME NEW s \in Span, NEW t \in Span
  PROVE  /\ Hull(s, t) \in Span
         /\ \A x \in Int : In(x, s) \/ In(x, t) => In(x, Hull(s, t))
BY SizeAssumption DEF Hull, Empty, In, Span

(* The pixels of a span that is empty: none.                               *)
LEMMA EmptySpan ==
  ASSUME NEW s \in Span, Empty(s), NEW x \in Int
  PROVE  ~In(x, s)
BY DEF Empty, In, Span

(* A buffer that spans of a picture are copied into has its type.          *)
LEMMA CopiedType ==
  ASSUME NEW m \in Memory, NEW p \in Picture, NEW s
  PROVE  Copied(m, p, s) \in Memory
BY DEF Copied, Memory, Picture

(* The spans that are copied are spans.                                    *)
LEMMA WrittenType ==
  ASSUME TypeOK, NEW p \in Picture, NEW d \in Damage
  PROVE  [y \in Row |-> Written(p, d, y)] \in [Row -> Span]
BY NewSpanCovers, HullCovers DEF Written, TypeOK

(* What copy_damaged does to the types.                                    *)
LEMMA CopyType ==
  ASSUME TypeOK, NEW p \in Picture, NEW d \in Damage, NEW back \in Dumb, CopyDamaged(p, d, back)
  PROVE  /\ shadow' \in Picture /\ row_span_prev' \in [Row -> Span]
         /\ full_copies' \in 0 .. 2 /\ bufs' \in [Dumb -> Memory] /\ due' \in [Row -> Span]
<1>1. shadow' \in Picture
  BY DEF CopyDamaged, Copied, TypeOK, Picture
<1>2. row_span_prev' \in [Row -> Span]
  BY NewSpanCovers DEF CopyDamaged
<1>3. full_copies' \in 0 .. 2
  BY DEF CopyDamaged, CopiesLeft, TypeOK
<1>4. bufs' \in [Dumb -> Memory] /\ due' \in [Row -> Span]
  <2>1. bufs[back] \in Memory
    BY DEF TypeOK
  <2>2. Copied(bufs[back], p, [y \in Row |-> Written(p, d, y)]) \in Memory
    BY <2>1, CopiedType
  <2> QED  BY <2>2, WrittenType DEF CopyDamaged, TypeOK
<1> QED  BY <1>1, <1>2, <1>3, <1>4

(* A row of an update in place keeps the types, and what the buffers will  *)
(* be in the end.                                                          *)
LEMMA RowFinished ==
  ASSUME TypeOK, CopyRow
  PROVE  TypeOK' /\ Finished' = Finished
<1>1. PICK y \in Row :
        /\ bufs' = [bufs EXCEPT ![front] = RowWritten(y)]
        /\ due' = [due EXCEPT ![y] = Clean]
        /\ \/ front_present_pending' = TRUE /\ late' = FALSE
           \/ UNCHANGED <<front_present_pending, late>>
  BY DEF CopyRow
<1>2. UNCHANGED <<serverVars, shadow, row_span_prev, full_copies, front, flip_pending,
                  pending_fb_id, use_page_flip, vtVars, fbVars, kernelVars>>
  BY DEF CopyRow
<1>3. bufs[front] \in Memory /\ frame \in Picture /\ front \in Dumb /\ due \in [Row -> Span]
  BY DEF TypeOK
<1>4. Clean \in Span /\ \A x \in Int : ~In(x, Clean)
  BY SizeAssumption DEF Clean, Span, In
<1>5. RowWritten(y) \in Memory
  BY <1>3 DEF RowWritten, Memory, Picture
<1>6. TypeOK'
  <2>1. bufs' \in [Dumb -> Memory] /\ due' \in [Row -> Span]
    BY <1>1, <1>3, <1>4, <1>5 DEF TypeOK
  <2>2. front_present_pending' \in BOOLEAN /\ late' \in BOOLEAN
    BY <1>1 DEF TypeOK
  <2> QED  BY <1>2, <2>1, <2>2 DEF TypeOK, serverVars, vtVars, fbVars, kernelVars
<1>7. Copied(RowWritten(y), frame, due') = Copied(bufs[front], frame, due)
  <2>1. \A c \in Cell : c[1] \in Row /\ c[2] \in Int
    BY SizeAssumption DEF Cell
  <2>2. \A r \in Row : due'[r] = IF r = y THEN Clean ELSE due[r]
    BY <1>1, <1>3
  <2>3. \A c \in Cell :
          (IF In(c[2], due'[c[1]]) THEN frame[c] ELSE RowWritten(y)[c])
            = (IF In(c[2], due[c[1]]) THEN frame[c] ELSE bufs[front][c])
    BY <1>4, <2>1, <2>2 DEF RowWritten
  <2> QED  BY <2>3 DEF Copied
<1>8. bufs'[front] = RowWritten(y)
  BY <1>1, <1>3 DEF TypeOK
<1>9. Finished' = [bufs EXCEPT ![front] = Copied(RowWritten(y), frame, due')]
  <2>1. Finished' = [bufs' EXCEPT ![front] = Copied(RowWritten(y), frame, due')]
    BY <1>2, <1>8 DEF Finished, serverVars
  <2> HIDE DEF Finished
  <2> QED  BY <1>1, <1>3, <2>1 DEF TypeOK
<1> QED  BY <1>6, <1>7, <1>9 DEF Finished

(* Copying spans that are all empty changes nothing.                       *)
LEMMA NothingCopied ==
  ASSUME NEW m \in Memory, NEW p, NEW s \in [Row -> Span], \A y \in Row : Empty(s[y])
  PROVE  Copied(m, p, s) = m
<1>1. \A c \in Cell : c[1] \in Row /\ c[2] \in Int
  BY SizeAssumption DEF Cell
<1>2. \A c \in Cell : ~In(c[2], s[c[1]])
  BY <1>1, EmptySpan
<1> QED  BY <1>2 DEF Copied, Memory

(* When no row is due, the buffers are what they will be.                  *)
LEMMA NothingDue ==
  /\ TypeOK /\ ~Copying => Finished = bufs
  /\ TypeOK' /\ ~Copying' => Finished' = bufs'
<1>1. ASSUME TypeOK, ~Copying PROVE Finished = bufs
  <2>1. Copied(bufs[front], frame, due) = bufs[front]
    BY <1>1, NothingCopied DEF Copying, TypeOK
  <2> QED  BY <1>1, <2>1 DEF Finished, TypeOK
<1>2. ASSUME TypeOK', ~Copying' PROVE Finished' = bufs'
  <2>1. Copied(bufs'[front'], frame', due') = bufs'[front']
    BY <1>2, NothingCopied DEF Copying, TypeOK
  <2> QED  BY <1>2, <2>1 DEF Finished, TypeOK
<1> QED  BY <1>1, <1>2

(* After copy_damaged, shadow and buffer hold the picture, provided that   *)
(* the damage and the spans of the previous present account for every      *)
(* difference; what the shadow had of it is recorded in row_span_prev.     *)
LEMMA CopyShows ==
  ASSUME TypeOK, NEW p \in Picture, NEW d \in Damage, NEW back \in Dumb, CopyDamaged(p, d, back),
         full_copies = 0 => \A c \in Cell :
            /\ p[c] # shadow[c] => Inside(c, d)
            /\ bufs[back][c] = shadow[c] \/ In(c[2], row_span_prev[c[1]])
  PROVE  /\ shadow' = p /\ Copied(bufs[back], p, [y \in Row |-> Written(p, d, y)]) = p
         /\ \A c \in Cell : shadow[c] = p[c] \/ In(c[2], row_span_prev'[c[1]])
<1>1. \A c \in Cell : /\ c[1] \in Row /\ c[2] \in 0 .. W - 1 /\ c[2] \in Int
                      /\ c = <<c[1], c[2]>>
  BY SizeAssumption DEF Cell
<1>2. \A c \in Cell : p[c] # shadow[c] => In(c[2], NewSpan(p, d, c[1]))
  <2>1. TAKE c \in Cell
  <2>2. CASE full_copies = 0
    BY <1>1, <2>2, NewSpanCovers
  <2>3. CASE full_copies # 0
    <3>1. NewSpan(p, d, c[1]) = Whole
      BY <2>3 DEF NewSpan, TypeOK
    <3> QED  BY <1>1, <3>1, SizeAssumption DEF Whole, In
  <2> QED  BY <2>2, <2>3
<1>3. \A c \in Cell : bufs[back][c] # p[c] => In(c[2], Written(p, d, c[1]))
  <2>1. TAKE c \in Cell
  <2>2. NewSpan(p, d, c[1]) \in Span /\ row_span_prev[c[1]] \in Span
    BY <1>1, NewSpanCovers DEF TypeOK
  <2>3. In(c[2], NewSpan(p, d, c[1])) \/ In(c[2], row_span_prev[c[1]]) => In(c[2], Written(p, d, c[1]))
    BY <1>1, <2>2, HullCovers DEF Written
  <2>4. CASE full_copies = 0
    BY <1>2, <2>3, <2>4
  <2>5. CASE full_copies # 0
    <3>1. NewSpan(p, d, c[1]) = Whole
      BY <2>5 DEF NewSpan, TypeOK
    <3> QED  BY <1>1, <2>3, <3>1, SizeAssumption DEF Whole, In
  <2> QED  BY <2>4, <2>5
<1>4. p = [c \in Cell |-> p[c]]
  BY DEF Picture
<1>5. shadow' = p
  <2>1. \A c \in Cell : shadow'[c] = p[c]
    BY <1>1, <1>2 DEF CopyDamaged, Copied
  <2>2. shadow' = [c \in Cell |-> shadow'[c]]
    BY DEF CopyDamaged, Copied
  <2> QED  BY <1>4, <2>1, <2>2
<1>6. Copied(bufs[back], p, [y \in Row |-> Written(p, d, y)]) = p
  <2>1. \A c \in Cell :
          (IF In(c[2], [y \in Row |-> Written(p, d, y)][c[1]]) THEN p[c] ELSE bufs[back][c]) = p[c]
    BY <1>1, <1>3
  <2> QED  BY <1>4, <2>1 DEF Copied
<1>7. \A c \in Cell : shadow[c] = p[c] \/ In(c[2], row_span_prev'[c[1]])
  BY <1>1, <1>2 DEF CopyDamaged
<1> QED  BY <1>5, <1>6, <1>7

(* If nothing is written, no full copy was due and no span was pending.    *)
LEMMA NothingWritten ==
  ASSUME TypeOK, NEW p \in Picture, NEW d \in Damage, ~Wrote(p, d)
  PROVE  /\ full_copies = 0
         /\ \A y \in Row, x \in Int : ~In(x, NewSpan(p, d, y)) /\ ~In(x, row_span_prev[y])
<1>1. \A y \in Row, x \in Int : ~In(x, NewSpan(p, d, y)) /\ ~In(x, row_span_prev[y])
  <2>1. TAKE y \in Row, x \in Int
  <2>2. NewSpan(p, d, y) \in Span /\ row_span_prev[y] \in Span
    BY NewSpanCovers DEF TypeOK
  <2>3. Hull(NewSpan(p, d, y), row_span_prev[y]) \in Span /\ ~In(x, Hull(NewSpan(p, d, y), row_span_prev[y]))
    BY <2>2, HullCovers DEF Wrote, Written, Empty, In, Span
  <2> QED  BY <2>2, <2>3, HullCovers
<1>2. full_copies = 0
  <2>1. SUFFICES ASSUME full_copies > 0 PROVE FALSE
    BY DEF TypeOK
  <2>2. 0 \in Row /\ NewSpan(p, d, 0) = Whole
    BY <2>1, SizeAssumption DEF Row, NewSpan
  <2> QED  BY <1>1, <2>2, SizeAssumption DEF Whole, In
<1> QED  BY <1>1, <1>2

-----------------------------------------------------------------------------
(***************************************************************************)
(* Types.                                                                  *)
(***************************************************************************)

(* The types of what a flip, accepted or refused, changes.                 *)
LEMMA FlipType ==
  ASSUME TypeOK, NEW id \in Dumb \cup FbId, FlipTo(id) \/ FlipRefused
  PROVE  /\ flip_pending' \in BOOLEAN /\ use_page_flip' \in BOOLEAN
         /\ front_present_pending' \in BOOLEAN /\ late' \in BOOLEAN
         /\ pending_fb_id' \in Dumb \cup FbId \cup {NoFb}
         /\ scanout' \in Dumb \cup FbId \cup {Console}
         /\ queued' \in Dumb \cup FbId \cup {NoFb}
         /\ drm_events' \subseteq Dumb \cup FbId
<1>1. CASE FlipTo(id)
  <2>1. CASE flip_pending' = TRUE /\ pending_fb_id' = id /\ late' = FALSE /\ queued' = id
             /\ UNCHANGED <<use_page_flip, scanout>>
    BY <1>1, <2>1 DEF FlipTo, TypeOK
  <2>2. CASE /\ scanout' = id /\ use_page_flip' \in BOOLEAN
             /\ UNCHANGED <<flip_pending, pending_fb_id, late, queued>>
    BY <1>1, <2>2 DEF FlipTo, TypeOK
  <2> QED  BY <1>1, <2>1, <2>2 DEF FlipTo, TypeOK
<1>2. CASE FlipRefused
  BY <1>2 DEF FlipRefused, TypeOK, kernelVars
<1> QED  BY <1>1, <1>2

(* The types of what the retirement of framebuffers changes.               *)
LEMMA RetireType ==
  ASSUME TypeOK, NEW old \in SUBSET FbId, NEW registered \in [FbId -> Picture \cup {NoFb}],
         Retire(old, registered)
  PROVE  retire' \subseteq FbId /\ pic' \in [FbId -> Picture \cup {NoFb}]
BY DEF Retire, Removed, TypeOK

(* A software frame keeps the types.                                       *)
LEMMA PresentDamageType ==
  ASSUME TypeOK, NEW p \in Picture, NEW d \in Damage, PresentDamage(p, d),
         fb_valid' \in BOOLEAN, polled' \in BOOLEAN, presented' \in BOOLEAN, frame' = p,
         active' = active
  PROVE  TypeOK'
<1>1. Back \in Dumb
  BY DEF Back, Dumb, TypeOK
<1>2. /\ shadow' \in Picture /\ row_span_prev' \in [Row -> Span]
      /\ full_copies' \in 0 .. 2 /\ bufs' \in [Dumb -> Memory] /\ due' \in [Row -> Span]
  BY <1>1, CopyType DEF PresentDamage
<1>3. CASE UNCHANGED <<front, flipVars, fbVars, kernelVars>>
  BY <1>2, <1>3 DEF TypeOK, flipVars, fbVars, kernelVars
<1>5. CASE /\ FlipTo(Back) /\ front' = Back /\ direct' = NoFb
           /\ Retire(Held(direct), pic) /\ UNCHANGED gpu_fb
  <2>1. Held(direct) \in SUBSET FbId
    BY DEF Held, TypeOK
  <2>2. pic \in [FbId -> Picture \cup {NoFb}]
    BY DEF TypeOK
  <2>3. retire' \subseteq FbId /\ pic' \in [FbId -> Picture \cup {NoFb}]
    BY <1>5, <2>1, <2>2, RetireType
  <2> QED  BY <1>1, <1>2, <1>5, <2>3, FlipType DEF TypeOK
<1>6. CASE FlipRefused /\ UNCHANGED <<front, fbVars>>
  BY <1>1, <1>2, <1>6, FlipType DEF TypeOK, fbVars
<1> QED  BY <1>3, <1>5, <1>6 DEF PresentDamage

(* So does a frame of the GPU, and a client's buffer.                      *)
LEMMA PresentOtherType ==
  ASSUME TypeOK, NEW p \in Picture, PresentGpu(p) \/ PresentDirect(p),
         fb_valid' \in BOOLEAN, polled' \in BOOLEAN, presented' \in BOOLEAN, frame' = p,
         active' = active
  PROVE  TypeOK'
<1>1. W \in Nat \ {0}
  BY SizeAssumption
<1>2. CASE UNCHANGED <<copyVars, front, flipVars, fbVars, kernelVars>>
  BY <1>2 DEF TypeOK, copyVars, flipVars, fbVars, kernelVars
<1>3. ASSUME NEW id \in FbId, NEW old \in SUBSET FbId, FlipTo(id),
             Retire(old, [pic EXCEPT ![id] = p]), InvalidateShadow, UNCHANGED <<bufs, front>>,
             gpu_fb' \in {id, gpu_fb}, direct' \in {id, NoFb}
      PROVE  TypeOK'
  <2>1. [pic EXCEPT ![id] = p] \in [FbId -> Picture \cup {NoFb}]
    BY DEF TypeOK
  <2>2. retire' \subseteq FbId /\ pic' \in [FbId -> Picture \cup {NoFb}]
    BY <1>3, <2>1, RetireType
  <2>3. /\ row_span_prev' \in [Row -> Span] /\ full_copies' \in 0 .. 2
        /\ shadow' = shadow /\ due' = due
    BY <1>1, <1>3 DEF InvalidateShadow, Whole, Span
  <2>4. gpu_fb' \in FbId \cup {NoFb} /\ direct' \in FbId \cup {NoFb}
    BY <1>3 DEF TypeOK
  <2> QED  BY <1>3, <2>2, <2>3, <2>4, FlipType DEF TypeOK
<1>4. Held(gpu_fb) \in SUBSET FbId /\ Held(direct) \in SUBSET FbId
  BY DEF Held, TypeOK
<1>5. CASE PresentGpu(p)
  BY <1>3, <1>4, <1>5 DEF PresentGpu
<1>6. CASE PresentDirect(p)
  BY <1>2, <1>3, <1>4, <1>6 DEF PresentDirect
<1> QED  BY <1>5, <1>6

(* The initial states have the types.                                      *)
LEMMA InitType == Init => TypeOK
<1>1. SUFFICES ASSUME Init PROVE TypeOK
  OBVIOUS
<1>2. [b \in Dumb |-> [c \in Cell |-> Junk]] \in [Dumb -> Memory]
  BY DEF Memory
<1>3. [y \in Row |-> Whole] \in [Row -> Span]
  BY SizeAssumption DEF Whole, Span
<1>4. [id \in FbId |-> NoFb] \in [FbId -> Picture \cup {NoFb}]
  OBVIOUS
<1>5. 0 \in Dumb /\ 2 \in 0 .. 2
  BY DEF Dumb
<1> HIDE DEF Dumb
<1>6. /\ frame \in Picture /\ shadow \in Picture /\ row_span_prev \in [Row -> Span]
      /\ due \in [Row -> Span]
      /\ bufs \in [Dumb -> Memory] /\ pic \in [FbId -> Picture \cup {NoFb}]
  BY <1>1, <1>2, <1>3, <1>4, SizeAssumption DEF Init, Clean, Span
<1> QED  BY <1>1, <1>5, <1>6 DEF Init, TypeOK

(* The removal of framebuffers keeps the type of pic.                      *)
LEMMA RemovedType ==
  ASSUME NEW f \in [FbId -> Picture \cup {NoFb}], NEW S
  PROVE  Removed(f, S) \in [FbId -> Picture \cup {NoFb}]
BY DEF Removed

(* Every step keeps the types.                                             *)
LEMMA TypeStep == TypeOK /\ [Next]_vars => TypeOK'
<1> SUFFICES ASSUME TypeOK, [Next]_vars PROVE TypeOK'
  OBVIOUS
<1> USE DEF vtVars
<1>1. Full \in Damage
  BY SizeAssumption DEF Full, Damage
<1>2. CASE Composite
  BY <1>2, PresentDamageType DEF Composite
<1>3. CASE CompositeGpu
  BY <1>3, PresentOtherType DEF CompositeGpu
<1>4. CASE CompositeDirect
  BY <1>4, PresentOtherType DEF CompositeDirect
<1>5. CASE Capture
  BY <1>1, <1>5, PresentDamageType DEF Capture, TypeOK
<1>6. CompleteFlip => /\ flip_pending' \in BOOLEAN /\ pending_fb_id' \in Dumb \cup FbId \cup {NoFb}
                      /\ retire' \subseteq FbId /\ pic' \in [FbId -> Picture \cup {NoFb}]
  BY RemovedType DEF CompleteFlip, TypeOK
<1>7. InvalidateShadow => /\ row_span_prev' \in [Row -> Span] /\ full_copies' \in 0 .. 2
                          /\ shadow' = shadow /\ due' = due
  BY SizeAssumption DEF InvalidateShadow, Whole, Span
<1>8. CASE DispatchEvents
  <2>1. /\ flip_pending' \in BOOLEAN /\ pending_fb_id' \in Dumb \cup FbId \cup {NoFb}
        /\ retire' \subseteq FbId /\ pic' \in [FbId -> Picture \cup {NoFb}]
    BY <1>6, <1>8 DEF DispatchEvents, TypeOK
  <2> QED  BY <1>8, <2>1 DEF DispatchEvents, TypeOK, copyVars
<1>9. CASE PollPresentation
  <2>1. /\ flip_pending' \in BOOLEAN /\ pending_fb_id' \in Dumb \cup FbId \cup {NoFb}
        /\ retire' \subseteq FbId /\ pic' \in [FbId -> Picture \cup {NoFb}]
        /\ front_present_pending' \in BOOLEAN
    BY <1>6, <1>9 DEF PollPresentation, TypeOK
  <2> QED  BY <1>9, <2>1 DEF PollPresentation, TypeOK, serverVars, copyVars, kernelVars
<1>10. CASE Vblank
  <2>1. scanout' \in Dumb \cup FbId /\ queued' = NoFb /\ drm_events' \subseteq Dumb \cup FbId
    BY <1>10 DEF Vblank, TypeOK
  <2> QED  BY <1>10, <2>1 DEF Vblank, TypeOK, serverVars, copyVars, flipVars, fbVars
<1>11. CASE TimePasses
  BY <1>11 DEF TimePasses, TypeOK, serverVars, copyVars, fbVars, kernelVars
<1>12. CASE Deactivate
  BY <1>6, <1>7, <1>12 DEF Deactivate, TypeOK, kernelVars
<1>13. CASE RestoreCrtc
  <2>1. bufs' \in [Dumb -> Memory]
    BY <1>13 DEF RestoreCrtc, Memory
  <2>2. drm_events' \subseteq Dumb \cup FbId
    BY <1>13 DEF RestoreCrtc, TypeOK, Held
  <2> QED  BY <1>13, <2>1, <2>2 DEF RestoreCrtc, TypeOK, flipVars, fbVars
<1>14. CASE Activate
  <2>1. pic' \in [FbId -> Picture \cup {NoFb}]
    BY <1>14, RemovedType DEF Activate, TypeOK
  <2> QED  BY <1>7, <1>14, <2>1 DEF Activate, TypeOK
<1>15. CASE UNCHANGED vars
  BY <1>15 DEF vars, serverVars, copyVars, flipVars, fbVars, kernelVars, TypeOK
<1>16. CASE CopyRow
  BY <1>16, RowFinished
<1> QED  BY <1>2, <1>3, <1>4, <1>5, <1>8, <1>9, <1>10, <1>11, <1>12, <1>13, <1>14, <1>15, <1>16
         DEF Next

(* The variables of the backend, and of the kernel as it sees it, keep     *)
(* their types for every size of the screen and every set of framebuffers: *)
(* no span leaves its row, and the count of full copies stays in its range.*)
THEOREM TypeCorrect == Spec => []TypeOK
<1>1. Init => TypeOK
  BY InitType
<1>2. TypeOK /\ [Next]_vars => TypeOK'
  BY TypeStep
<1> QED  BY <1>1, <1>2, PTL DEF Spec

-----------------------------------------------------------------------------
(***************************************************************************)
(* The frames.                                                             *)
(***************************************************************************)

(* The ids of the two kinds of framebuffers are told apart.                *)
LEMMA Ids ==
  /\ \A id \in FbId : id \notin Dumb /\ id # NoFb /\ id # Console
  /\ \A b \in Dumb : b # NoFb /\ b # Console
  /\ NoFb # Console /\ NoFb \notin Picture
<1>1. Picture \subseteq Memory
  BY DEF Picture, Memory
<1> QED  BY <1>1, IdAssumption, FbAssumption DEF Dumb

(* When a frame may be presented, what is on the screen is what was aimed  *)
(* at, no other buffer waits, and every flip event has been read but, at   *)
(* most, that of the buffer on the screen.                                 *)
LEMMA Ready ==
  ASSUME FlipInv, MayPresent
  PROVE  /\ active = "yes" /\ ~flip_pending /\ queued = NoFb /\ Target = scanout
         /\ retire = {} /\ drm_events \subseteq {scanout}
         /\ scanout \in {front, gpu_fb, direct} \ {NoFb}
         /\ front \in Dumb /\ InUseIsRegistered
         /\ use_page_flip => Back = 1 - front /\ Back \in Dumb /\ Back # front /\ scanout # Back
         /\ ~use_page_flip => Back = front
<1>1. active = "yes" /\ ~flip_pending /\ polled
  BY DEF MayPresent, Busy
<1>2. queued = NoFb /\ drm_events \subseteq {scanout}
  BY <1>1 DEF FlipInv, InFlight
<1>3. Target = scanout
  BY <1>1 DEF Target
<1>4. retire = {} /\ InUseIsRegistered
  BY <1>1 DEF FlipInv, Registered
<1>5. scanout \in {front, gpu_fb, direct} \ {NoFb}
  BY <1>1, <1>3 DEF FlipInv, Aimed
<1>6. front \in Dumb /\ gpu_fb \in FbId \cup {NoFb} /\ direct \in FbId \cup {NoFb}
  BY DEF FlipInv, TypeOK
<1>7. 1 - front \in Dumb /\ 1 - front # front
  BY <1>6 DEF Dumb
<1>8. scanout # 1 - front
  BY <1>5, <1>6, <1>7, Ids
<1> QED  BY <1>1, <1>2, <1>3, <1>4, <1>5, <1>6, <1>7, <1>8 DEF Back

(* If there are no page flips, the front buffer is on the screen.          *)
LEMMA ReadyInPlace ==
  ASSUME IInv, MayPresent, ~use_page_flip
  PROVE  Back = front /\ scanout = front /\ direct = NoFb
<1>1. active = "yes" /\ Target = scanout /\ Back = front
  BY Ready DEF IInv
<1>2. scanout = front
  BY <1>1 DEF IInv, CopyInv, FrontAimed
<1>3. direct \in FbId \cup {NoFb} /\ front \in Dumb /\ (direct # NoFb => direct = front)
  BY <1>1, <1>2 DEF IInv, FlipInv, Aimed, TypeOK
<1> QED  BY <1>1, <1>2, <1>3, Ids

(* A flip to a framebuffer that is not on the screen.                      *)
LEMMA FlipInFlight ==
  ASSUME FlipInv, MayPresent, NEW id \in Dumb \cup FbId, id # scanout, FlipTo(id),
         polled' = FALSE, presented' = TRUE, active' = active
  PROVE  /\ InFlight' /\ Target' = id
         /\ \/ flip_pending' /\ queued' = id /\ scanout' = scanout /\ use_page_flip' = use_page_flip
            \/ ~flip_pending' /\ queued' = NoFb /\ scanout' = id
         /\ ~use_page_flip' => ~flip_pending'
         /\ id \in FbId => use_page_flip' = use_page_flip
<1>1. /\ active = "yes" /\ ~flip_pending /\ queued = NoFb /\ drm_events \subseteq {scanout}
  BY Ready
<1>2. use_page_flip \in BOOLEAN /\ (id \in FbId => id \notin Dumb)
  BY Ids DEF FlipInv, TypeOK
<1>3. CASE use_page_flip /\ flip_pending' = TRUE /\ pending_fb_id' = id /\ queued' = id
           /\ UNCHANGED <<use_page_flip, scanout>>
  <2>1. drm_events' = drm_events
    BY DEF FlipTo
  <2>2. InFlight'
    BY <1>1, <1>3, <2>1 DEF InFlight
  <2> QED  BY <1>3, <2>2 DEF Target
<1>4. CASE /\ scanout' = id /\ UNCHANGED <<flip_pending, queued>>
           /\ use_page_flip' \in {use_page_flip, use_page_flip /\ id \notin Dumb}
  <2>1. InFlight'
    BY <1>1, <1>4 DEF InFlight
  <2> QED  BY <1>1, <1>2, <1>4, <2>1 DEF Target
<1> QED  BY <1>3, <1>4 DEF FlipTo

(* What is registered after it, when the framebuffers `old` leave.         *)
LEMMA FlipRegistered ==
  ASSUME FlipInv, MayPresent, NEW id \in Dumb \cup FbId, id # scanout, FlipTo(id),
         polled' = FALSE, presented' = TRUE, active' = active,
         NEW old \in SUBSET FbId, id \notin old,
         NEW registered \in [FbId -> Picture \cup {NoFb}], Retire(old, registered),
         \A i \in FbId : i = id \/ pic[i] # NoFb => registered[i] # NoFb,
         gpu_fb' \in FbId \cup {NoFb}, direct' \in FbId \cup {NoFb},
         gpu_fb' # NoFb => registered[gpu_fb'] # NoFb /\ gpu_fb' \notin old /\ gpu_fb' # direct',
         direct' # NoFb => registered[direct'] # NoFb /\ direct' \notin old
  PROVE  /\ Registered'
         /\ \A i \in FbId : i \notin old \/ flip_pending' => pic'[i] = registered[i]
<1>1. retire = {} /\ ~flip_pending /\ InUseIsRegistered
  BY Ready
<1>2. NoFb \notin FbId
  BY IdAssumption
<1>3. CASE flip_pending' /\ queued' = id /\ scanout' = scanout
  <2>1. retire' = old /\ pic' = registered /\ pending_fb_id' = id
    BY <1>1, <1>3 DEF Retire, FlipTo
  <2>2. InUseIsRegistered'
    BY <1>1, <1>3, <2>1 DEF InUseIsRegistered
  <2> QED  BY <1>3, <2>1, <2>2 DEF Registered
<1>4. CASE ~flip_pending' /\ queued' = NoFb /\ scanout' = id
  <2>1. retire' = {} /\ pic' = Removed(registered, old)
    BY <1>1, <1>4 DEF Retire
  <2>2. \A i \in FbId : i \notin old => pic'[i] = registered[i]
    BY <2>1 DEF Removed
  <2>3. InUseIsRegistered'
    BY <1>2, <1>4, <2>2 DEF InUseIsRegistered
  <2> QED  BY <1>4, <2>1, <2>2, <2>3 DEF Registered
<1> QED  BY <1>3, <1>4, FlipInFlight

(* What a software frame amounts to: nothing to write, the beginning of an *)
(* update in place, a flip to the other buffer, or one that is refused.    *)
LEMMA SoftwareCases ==
  ASSUME FlipInv, MayPresent, NEW p \in Picture, NEW d \in Damage, PresentDamage(p, d)
  PROVE  \/ /\ ~Wrote(p, d) \/ ~use_page_flip
            /\ UNCHANGED <<front, flipVars, fbVars, kernelVars>>
         \/ /\ use_page_flip /\ FlipTo(Back) /\ front' = Back /\ direct' = NoFb
            /\ Retire(Held(direct), pic) /\ UNCHANGED gpu_fb
         \/ "fail" \in Allow /\ FlipRefused /\ UNCHANGED <<front, fbVars>>
<1>1. FlipRefused => "fail" \in Allow
  BY Ready DEF FlipRefused
<1> QED  BY <1>1 DEF PresentDamage

(* Whatever it amounts to, shadow and Back then hold the picture, or will  *)
(* when the rows that are due are written; what the shadow lacked of it is *)
(* in row_span_prev; the other buffer is untouched.                        *)
LEMMA SoftwareCopies ==
  ASSUME IInv, MayPresent, NEW p \in Picture, NEW d \in Damage, PresentDamage(p, d),
         d = Full \/ (fb_valid /\ \A c \in Cell : p[c] # frame[c] => Inside(c, d)),
         frame' = p, TypeOK'
  PROVE  /\ shadow' = p /\ Finished'[Back] = p
         /\ \A c \in Cell : shadow[c] = p[c] \/ In(c[2], row_span_prev'[c[1]])
         /\ \A b \in Dumb \ {Back} : Finished'[b] = bufs[b]
         /\ full_copies' = 0 => full_copies <= 1
         /\ full_copies' <= 1
         /\ Copying' => ~use_page_flip /\ Wrote(p, d) /\ bufs' = bufs
         /\ ~Copying' => Finished' = bufs'
         /\ ~Wrote(p, d) => full_copies = 0 /\ full_copies' = 0 /\ shadow = p
<1>1. Back \in Dumb /\ active = "yes"
  BY Ready DEF IInv
<1>2. CopyDamaged(p, d, Back)
  BY DEF PresentDamage
<1>3. \A c \in Cell : Inside(c, Full)
  BY SizeAssumption DEF Inside, Full, Cell, Row
<1>4. fb_valid => shadow = frame
  BY DEF IInv, CopyInv, CopiesKnown
<1>5. full_copies = 0 =>
        \A c \in Cell : bufs[Back][c] = shadow[c] \/ In(c[2], row_span_prev[c[1]])
  <2>1. Finished = bufs
    BY NothingDue DEF MayPresent, IInv, FlipInv
  <2> QED  BY <1>1, <2>1 DEF IInv, CopyInv, CopiesKnown
<1> DEFINE spans == [y \in Row |-> Written(p, d, y)]
<1>6. /\ shadow' = p /\ Copied(bufs[Back], p, spans) = p
      /\ \A c \in Cell : shadow[c] = p[c] \/ In(c[2], row_span_prev'[c[1]])
  BY <1>1, <1>2, <1>3, <1>4, <1>5, CopyShows DEF IInv, FlipInv
<1>10. ~Copying' => Finished' = bufs'
  BY NothingDue
<1>7. /\ Finished'[Back] = p
      /\ \A b \in Dumb \ {Back} : Finished'[b] = bufs[b]
      /\ Copying' => ~use_page_flip /\ Wrote(p, d) /\ bufs' = bufs
  <2>1. bufs \in [Dumb -> Memory] /\ ~Copying
    BY DEF IInv, FlipInv, TypeOK, MayPresent
  <2>2. CASE use_page_flip
    <3>1. bufs' = [bufs EXCEPT ![Back] = Copied(@, p, spans)] /\ due' = due
      BY <1>2, <2>2 DEF CopyDamaged
    <3>2. ~Copying'
      BY <2>1, <3>1 DEF Copying
    <3> QED  BY <1>1, <1>6, <1>10, <2>1, <3>1, <3>2
  <2>3. CASE ~use_page_flip
    <3>1. bufs' = bufs /\ due' = spans
      BY <1>2, <2>3 DEF CopyDamaged
    <3>2. Back = front /\ front' = front
      BY <2>3 DEF Back, PresentDamage
    <3>3. Finished' = [bufs EXCEPT ![front] = p]
      BY <1>6, <3>1, <3>2 DEF Finished
    <3>4. Copying' => Wrote(p, d)
      BY <3>1 DEF Copying, Wrote
    <3> QED  BY <1>1, <2>1, <2>3, <3>1, <3>2, <3>3, <3>4
  <2> QED  BY <2>2, <2>3
<1>8. (full_copies' = 0 => full_copies <= 1) /\ full_copies' <= 1
  BY <1>2 DEF CopyDamaged, CopiesLeft, IInv, FlipInv, TypeOK
<1>9. ASSUME ~Wrote(p, d) PROVE full_copies = 0 /\ full_copies' = 0 /\ shadow = p
  <2>1. full_copies = 0
    BY <1>9, NothingWritten DEF IInv, FlipInv
  <2>2. \A y \in Row, x \in Int : ~In(x, NewSpan(p, d, y))
    BY <1>9, NothingWritten DEF IInv, FlipInv
  <2>3. \A c \in Cell : c[1] \in Row /\ c[2] \in Int
    BY SizeAssumption DEF Cell
  <2>4. \A c \in Cell : shadow'[c] = shadow[c]
    BY <1>2, <2>2, <2>3 DEF CopyDamaged, Copied
  <2>5. \A c \in Cell : shadow[c] = p[c]
    BY <1>6, <2>4
  <2>6. shadow \in Picture
    BY DEF IInv, FlipInv, TypeOK
  <2>7. shadow = p
    BY <2>5, <2>6 DEF Picture
  <2>8. full_copies' = 0
    BY <1>2, <2>1 DEF CopyDamaged, CopiesLeft
  <2> QED  BY <2>1, <2>7, <2>8
<1> QED  BY <1>6, <1>7, <1>8, <1>9, <1>10

(* Rows are left due only without page flips.                              *)
LEMMA CompositeInPlace ==
  ASSUME FlipInv, MayPresent, NEW p \in Picture, NEW d \in Damage, PresentDamage(p, d),
         fb_valid' = TRUE, presented' = TRUE, active' = active
  PROVE  InPlace'
<1>1. CopyDamaged(p, d, Back) /\ active = "yes" /\ ~Copying
  BY DEF PresentDamage, MayPresent
<1>2. CASE use_page_flip
  <2>1. ~Copying'
    BY <1>1, <1>2 DEF CopyDamaged, Copying
  <2> QED  BY <2>1 DEF InPlace
<1>3. CASE ~use_page_flip
  <2>1. ~use_page_flip'
    BY <1>3 DEF PresentDamage, flipVars
  <2>2. full_copies' <= 1
    BY <1>1 DEF CopyDamaged, CopiesLeft, FlipInv, TypeOK
  <2> QED  BY <1>1, <2>1, <2>2 DEF InPlace
<1> QED  BY <1>2, <1>3

(* A software frame keeps the flips in order, shown or not.                *)
LEMMA CompositeAims == FlipInv /\ Composite => FlipInv'
<1> SUFFICES ASSUME FlipInv, Composite PROVE FlipInv'
  OBVIOUS
<1>1. PICK p \in Picture, d \in Damage : PresentDamage(p, d) /\ frame' = p
  BY DEF Composite
<1>2. /\ MayPresent /\ fb_valid' = TRUE /\ polled' = FALSE /\ presented' = TRUE
      /\ active' = active
  BY DEF Composite
<1>3. active = "yes" /\ ~flip_pending /\ front \in Dumb
  BY <1>2, Ready
<1>4. TypeOK' /\ InPlace'
  BY <1>1, <1>2, PresentDamageType, CompositeInPlace DEF FlipInv
<1>5. CASE UNCHANGED <<flip_pending, pending_fb_id, front, fbVars, kernelVars>>
  <2>1. Aimed'
    BY <1>2, <1>3, <1>5 DEF FlipInv, Aimed, Target, fbVars, kernelVars
  <2>2. InFlight'
    BY <1>2, <1>3, <1>5 DEF FlipInv, InFlight, kernelVars
  <2>3. Registered'
    BY <1>2, <1>5 DEF FlipInv, Registered, InUseIsRegistered, fbVars, kernelVars
  <2> QED  BY <1>4, <2>1, <2>2, <2>3 DEF FlipInv
<1>6. CASE /\ use_page_flip /\ FlipTo(Back) /\ front' = Back /\ direct' = NoFb
           /\ Retire(Held(direct), pic) /\ UNCHANGED gpu_fb
  <2>1. Back \in Dumb /\ Back # scanout /\ Back \notin FbId /\ Back # NoFb
    BY <1>2, <1>6, Ready, Ids
  <2>2. /\ InFlight' /\ Target' = Back /\ (~use_page_flip' => ~flip_pending')
    BY <1>2, <1>6, <2>1, FlipInFlight
  <2>3. Aimed'
    BY <1>6, <2>1, <2>2 DEF Aimed
  <2>4. Registered'
    <3>1. Held(direct) \in SUBSET FbId /\ pic \in [FbId -> Picture \cup {NoFb}]
          /\ gpu_fb \in FbId \cup {NoFb}
      BY DEF Held, FlipInv, TypeOK
    <3>2. Back \notin Held(direct)
      BY <2>1, <3>1
    <3>3. gpu_fb # NoFb => pic[gpu_fb] # NoFb /\ gpu_fb \notin Held(direct) /\ gpu_fb # NoFb
      BY DEF FlipInv, Registered, Held
    <3> QED  BY <1>2, <1>6, <2>1, <3>1, <3>2, <3>3, FlipRegistered
  <2> QED  BY <1>4, <2>2, <2>3, <2>4 DEF FlipInv
<1> QED  BY <1>1, <1>2, <1>5, <1>6, SoftwareCases DEF flipVars, FlipRefused

(* One that can be shown keeps what is known of the buffers.               *)
LEMMA CompositeCopies == Orderly /\ IInv /\ Composite => CopyInv'
<1> SUFFICES ASSUME Orderly, IInv, Composite PROVE CopyInv'
  OBVIOUS
<1> USE DEF IInv
<1>1. PICK p \in Picture, d \in Damage :
        /\ d = Full \/ (fb_valid /\ \A c \in Cell : p[c] # frame[c] => Inside(c, d))
        /\ PresentDamage(p, d)
        /\ frame' = p
  BY DEF Composite
<1>2. /\ MayPresent /\ polled' = FALSE /\ presented' = TRUE
      /\ active' = active /\ active = "yes"
  BY Ready DEF Composite
<1>10. TypeOK' /\ fb_valid' = TRUE
  BY <1>1, TypeStep DEF FlipInv, Composite, Next
<1>3. /\ shadow' = p /\ Finished'[Back] = p
      /\ \A c \in Cell : shadow[c] = p[c] \/ In(c[2], row_span_prev'[c[1]])
      /\ \A b \in Dumb \ {Back} : Finished'[b] = bufs[b]
      /\ full_copies' = 0 => full_copies <= 1
      /\ full_copies' <= 1
      /\ Copying' => ~use_page_flip /\ Wrote(p, d)
      /\ ~Wrote(p, d) => full_copies = 0 /\ full_copies' = 0 /\ shadow = p
  BY <1>1, <1>2, <1>10, SoftwareCopies
<1>4. front \in Dumb /\ (use_page_flip => Back = 1 - front /\ Back # front)
      /\ (~use_page_flip => Back = front /\ scanout = front /\ direct = NoFb)
  BY <1>2, Ready, ReadyInPlace
<1>5. full_copies <= 1 => bufs[front] = shadow
  BY <1>2, NothingDue DEF CopyInv, CopiesKnown, FlipInv, MayPresent
<1>6. ASSUME Finished'[front'] = p, full_copies' = 0 => Back' = front' \/ Back' = Back
                                                   \/ (Back' = front /\ front # Back)
      PROVE  CopiesKnown'
  <2>1. fb_valid' => shadow' = frame'
    BY <1>1, <1>3
  <2>2. full_copies' <= 1 => Finished'[front'] = shadow'
    BY <1>3, <1>6
  <2>3. full_copies' = 0 => \A c \in Cell :
          Finished'[Back'][c] = shadow'[c] \/ In(c[2], row_span_prev'[c[1]])
    <3>1. SUFFICES ASSUME full_copies' = 0, NEW c \in Cell
                   PROVE  Finished'[Back'][c] = shadow'[c] \/ In(c[2], row_span_prev'[c[1]])
      OBVIOUS
    <3>2. CASE Back' = front' \/ Back' = Back
      BY <1>3, <1>6, <3>2
    <3>3. CASE Back' = front /\ front # Back
      <4>1. Finished'[front] = shadow
        BY <1>3, <1>4, <1>5, <3>1, <3>3
      <4> QED  BY <1>3, <3>3, <4>1
    <3> QED  BY <1>6, <3>1, <3>2, <3>3
  <2> QED  BY <2>1, <2>2, <2>3 DEF CopiesKnown
<1>7. CASE ~Wrote(p, d) /\ UNCHANGED <<front, flipVars, fbVars, kernelVars>>
  <2>1. Finished'[front] = p
    BY <1>3, <1>4, <1>5, <1>7
  <2>2. Back' = Back
    BY <1>7 DEF Back, flipVars
  <2>3. CopiesKnown'
    BY <1>6, <1>7, <2>1, <2>2
  <2>4. FrontAimed'
    BY <1>2, <1>3, <1>7 DEF CopyInv, FrontAimed, Target, flipVars, fbVars, kernelVars
  <2> QED  BY <2>3, <2>4 DEF CopyInv
<1>8. CASE ~use_page_flip /\ UNCHANGED <<front, flipVars, fbVars, kernelVars>>
  <2>1. Back' = Back /\ Back = front
    BY <1>4, <1>8 DEF Back, flipVars
  <2>2. CopiesKnown'
    BY <1>3, <1>6, <1>8, <2>1
  <2>3. FrontAimed'
    BY <1>2, <1>4, <1>8 DEF CopyInv, FrontAimed, Target, flipVars, fbVars, kernelVars
  <2> QED  BY <2>2, <2>3 DEF CopyInv
<1>9. CASE /\ use_page_flip /\ FlipTo(Back) /\ front' = Back /\ direct' = NoFb
           /\ Retire(Held(direct), pic) /\ UNCHANGED gpu_fb
  <2>1. Back \in Dumb /\ Back # scanout
    BY <1>2, <1>9, Ready
  <2>2. Target' = Back
    BY <1>2, <1>9, <2>1, FlipInFlight
  <2>3. Back' \in {front', front}
    <3>1. use_page_flip' => 1 - front' = front
      BY <1>4, <1>9 DEF Dumb
    <3> QED  BY <3>1 DEF Back
  <2>4. CopiesKnown'
    BY <1>3, <1>4, <1>6, <1>9, <2>3
  <2>5. FrontAimed'
    BY <1>9, <2>2 DEF FrontAimed
  <2> QED  BY <2>4, <2>5 DEF CopyInv
<1> QED  BY <1>1, <1>2, <1>7, <1>8, <1>9, SoftwareCases DEF Orderly

(* A frame in a framebuffer that was just imported: of the GPU, or of a    *)
(* client.                                                                 *)
LEMMA ImportedFlip ==
  ASSUME FlipInv, MayPresent, NEW p \in Picture, NEW id \in FbId, pic[id] = NoFb, FlipTo(id),
         polled' = FALSE, presented' = TRUE, active' = active,
         \/ /\ gpu_fb' = id /\ direct' = NoFb
            /\ Retire(Held(gpu_fb) \cup Held(direct), [pic EXCEPT ![id] = p])
         \/ /\ gpu_fb' = gpu_fb /\ direct' = id
            /\ Retire(Held(direct), [pic EXCEPT ![id] = p])
  PROVE  /\ InFlight' /\ Registered' /\ Target' = id /\ pic'[id] = p
         /\ \/ /\ flip_pending' /\ queued' = id /\ scanout' = scanout
               /\ \A i \in FbId \ {id} : pic'[i] = pic[i]
            \/ ~flip_pending' /\ queued' = NoFb /\ scanout' = id
         /\ use_page_flip' = use_page_flip
<1>1. pic \in [FbId -> Picture \cup {NoFb}] /\ gpu_fb \in FbId \cup {NoFb}
      /\ direct \in FbId \cup {NoFb}
  BY DEF FlipInv, TypeOK
<1>2. id # scanout
  BY Ready DEF InUseIsRegistered
<1>3. p # NoFb
  BY Ids
<1> DEFINE registered == [pic EXCEPT ![id] = p]
<1>4. registered \in [FbId -> Picture \cup {NoFb}]
      /\ registered[id] = p
      /\ \A i \in FbId \ {id} : registered[i] = pic[i]
  BY <1>1
<1> HIDE DEF registered
<1>5. /\ gpu_fb # NoFb => pic[gpu_fb] # NoFb /\ gpu_fb # direct /\ gpu_fb # id
      /\ direct # NoFb => pic[direct] # NoFb /\ direct # id
  BY DEF FlipInv, Registered
<1>6. Held(gpu_fb) \cup Held(direct) \in SUBSET FbId /\ Held(direct) \in SUBSET FbId
      /\ id \notin Held(gpu_fb) \cup Held(direct) /\ id \notin Held(direct)
  BY <1>1, <1>5 DEF Held
<1>7. \A i \in FbId : i = id \/ pic[i] # NoFb => registered[i] # NoFb
  BY <1>3, <1>4
<1>8. Registered' /\ pic'[id] = p
      /\ (flip_pending' => \A i \in FbId \ {id} : pic'[i] = pic[i])
  <2>1. CASE /\ gpu_fb' = id /\ direct' = NoFb
             /\ Retire(Held(gpu_fb) \cup Held(direct), registered)
    <3> DEFINE old == Held(gpu_fb) \cup Held(direct)
    <3>1. id \in Dumb \cup FbId /\ id # NoFb
      BY Ids
    <3>2. old \in SUBSET FbId /\ id \notin old /\ Retire(old, registered)
      BY <1>6, <2>1
    <3> HIDE DEF old
    <3>3. /\ gpu_fb' \in FbId \cup {NoFb} /\ direct' \in FbId \cup {NoFb}
          /\ gpu_fb' # NoFb => registered[gpu_fb'] # NoFb /\ gpu_fb' \notin old /\ gpu_fb' # direct'
          /\ direct' # NoFb => registered[direct'] # NoFb /\ direct' \notin old
      BY <1>3, <1>4, <2>1, <3>1, <3>2
    <3>4. Registered' /\ \A i \in FbId : i \notin old \/ flip_pending' => pic'[i] = registered[i]
      BY <1>2, <1>4, <1>7, <3>1, <3>2, <3>3, FlipRegistered
    <3> QED  BY <1>4, <3>2, <3>4
  <2>2. CASE /\ gpu_fb' = gpu_fb /\ direct' = id
             /\ Retire(Held(direct), registered)
    <3> DEFINE old == Held(direct)
    <3>1. id \in Dumb \cup FbId /\ id # NoFb
      BY Ids
    <3>2. old \in SUBSET FbId /\ id \notin old /\ Retire(old, registered)
      BY <1>6, <2>2
    <3>3. gpu_fb # NoFb => gpu_fb \notin old /\ gpu_fb # id /\ registered[gpu_fb] # NoFb
      BY <1>1, <1>4, <1>5 DEF Held
    <3> HIDE DEF old
    <3>4. /\ gpu_fb' \in FbId \cup {NoFb} /\ direct' \in FbId \cup {NoFb}
          /\ gpu_fb' # NoFb => registered[gpu_fb'] # NoFb /\ gpu_fb' \notin old /\ gpu_fb' # direct'
          /\ direct' # NoFb => registered[direct'] # NoFb /\ direct' \notin old
      BY <1>1, <1>3, <1>4, <2>2, <3>1, <3>2, <3>3
    <3>5. Registered' /\ \A i \in FbId : i \notin old \/ flip_pending' => pic'[i] = registered[i]
      BY <1>2, <1>4, <1>7, <3>1, <3>2, <3>4, FlipRegistered
    <3> QED  BY <1>4, <3>2, <3>5
  <2> QED  BY <2>1, <2>2 DEF registered
<1>9. /\ InFlight' /\ Target' = id /\ use_page_flip' = use_page_flip
      /\ \/ flip_pending' /\ queued' = id /\ scanout' = scanout
         \/ ~flip_pending' /\ queued' = NoFb /\ scanout' = id
  BY <1>2, FlipInFlight
<1> QED  BY <1>8, <1>9

(* What a frame of the GPU, or a client's buffer, amounts to: nothing, or  *)
(* a flip to a framebuffer just imported.                                  *)
LEMMA ImportedCases ==
  ASSUME NEW p \in Picture, PresentGpu(p) \/ PresentDirect(p)
  PROVE  \/ /\ direct # NoFb /\ pic[direct] = p
            /\ UNCHANGED <<copyVars, front, flipVars, fbVars, kernelVars>>
         \/ /\ \E id \in FbId :
                 /\ pic[id] = NoFb /\ FlipTo(id)
                 /\ \/ /\ gpu_fb' = id /\ direct' = NoFb
                       /\ Retire(Held(gpu_fb) \cup Held(direct), [pic EXCEPT ![id] = p])
                    \/ /\ gpu_fb' = gpu_fb /\ direct' = id
                       /\ Retire(Held(direct), [pic EXCEPT ![id] = p])
            /\ use_page_flip /\ InvalidateShadow /\ UNCHANGED <<bufs, front>>
BY DEF PresentGpu, PresentDirect

(* It keeps the flips in order.                                            *)
LEMMA ImportedAims == FlipInv /\ (CompositeGpu \/ CompositeDirect) => FlipInv'
<1> SUFFICES ASSUME FlipInv, CompositeGpu \/ CompositeDirect PROVE FlipInv'
  OBVIOUS
<1>1. PICK p \in Picture : (PresentGpu(p) \/ PresentDirect(p)) /\ frame' = p
  BY DEF CompositeGpu, CompositeDirect
<1>2. /\ MayPresent /\ fb_valid' = FALSE /\ polled' = FALSE /\ presented' = TRUE
      /\ active' = active
  BY DEF CompositeGpu, CompositeDirect
<1>3. active = "yes"
  BY <1>2, Ready
<1>4. TypeOK' /\ InPlace'
  <2>1. ~Copying'
    BY <1>1, <1>2 DEF MayPresent, Copying, PresentGpu, PresentDirect, InvalidateShadow, copyVars
  <2> QED  BY <1>1, <1>2, <2>1, PresentOtherType DEF FlipInv, InPlace
<1>5. CASE UNCHANGED <<copyVars, front, flipVars, fbVars, kernelVars>>
  <2>1. Aimed'
    BY <1>2, <1>5 DEF FlipInv, Aimed, Target, flipVars, fbVars, kernelVars
  <2>2. InFlight'
    BY <1>2, <1>3, <1>5 DEF FlipInv, InFlight, flipVars, kernelVars
  <2>3. Registered'
    BY <1>2, <1>5 DEF FlipInv, Registered, InUseIsRegistered, flipVars, fbVars, kernelVars
  <2> QED  BY <1>4, <2>1, <2>2, <2>3 DEF FlipInv
<1>6. ASSUME NEW id \in FbId, pic[id] = NoFb, use_page_flip, FlipTo(id),
             \/ /\ gpu_fb' = id /\ direct' = NoFb
                /\ Retire(Held(gpu_fb) \cup Held(direct), [pic EXCEPT ![id] = p])
             \/ /\ gpu_fb' = gpu_fb /\ direct' = id
                /\ Retire(Held(direct), [pic EXCEPT ![id] = p])
      PROVE  FlipInv'
  <2>1. InFlight' /\ Registered' /\ Target' = id /\ use_page_flip' = use_page_flip
    BY <1>2, <1>6, ImportedFlip
  <2>2. Aimed'
    BY <1>6, <2>1, Ids DEF Aimed
  <2> QED  BY <1>4, <2>1, <2>2 DEF FlipInv
<1> QED  BY <1>1, <1>5, <1>6, ImportedCases

(* It makes full copies due.                                               *)
LEMMA ImportedCopies == IInv /\ (CompositeGpu \/ CompositeDirect) => CopyInv'
<1> SUFFICES ASSUME IInv, CompositeGpu \/ CompositeDirect PROVE CopyInv'
  OBVIOUS
<1> USE DEF IInv, CopyInv
<1>1. PICK p \in Picture : (PresentGpu(p) \/ PresentDirect(p)) /\ frame' = p
  BY DEF CompositeGpu, CompositeDirect
<1>2. /\ MayPresent /\ fb_valid' = FALSE /\ polled' = FALSE /\ presented' = TRUE
      /\ active' = active
  BY DEF CompositeGpu, CompositeDirect
<1>5. TypeOK' /\ Finished = bufs
  BY <1>2, TypeStep, NothingDue DEF FlipInv, Next, MayPresent
<1>3. CASE UNCHANGED <<copyVars, front, flipVars, fbVars, kernelVars>>
  <2>3. Finished' = bufs'
    BY <1>2, <1>3, <1>5, NothingDue DEF MayPresent, Copying, copyVars
  <2>1. CopiesKnown'
    BY <1>2, <1>3, <1>5, <2>3 DEF CopiesKnown, Back, copyVars, flipVars
  <2>2. FrontAimed'
    BY <1>2, <1>3 DEF FrontAimed, Target, copyVars, flipVars, fbVars, kernelVars
  <2> QED  BY <2>1, <2>2
<1>4. ASSUME NEW id \in FbId, pic[id] = NoFb, use_page_flip, FlipTo(id), InvalidateShadow,
             \/ /\ gpu_fb' = id /\ direct' = NoFb
                /\ Retire(Held(gpu_fb) \cup Held(direct), [pic EXCEPT ![id] = p])
             \/ /\ gpu_fb' = gpu_fb /\ direct' = id
                /\ Retire(Held(direct), [pic EXCEPT ![id] = p])
      PROVE  CopyInv'
  <2>1. use_page_flip' = use_page_flip
    BY <1>2, <1>4, ImportedFlip
  <2>2. full_copies' = 2
    BY <1>4 DEF InvalidateShadow
  <2>3. CopiesKnown' /\ FrontAimed'
    BY <1>2, <1>4, <2>1, <2>2 DEF CopiesKnown, FrontAimed
  <2> QED  BY <2>3
<1> QED  BY <1>1, <1>3, <1>4, ImportedCases

-----------------------------------------------------------------------------
(***************************************************************************)
(* Completion and VT switches.                                             *)
(***************************************************************************)

(* A flip that is taken for complete has its framebuffer on the screen.    *)
LEMMA Completion ==
  ASSUME FlipInv, CurrentEvent \/ Overdue
  PROVE  active = "yes" /\ flip_pending /\ scanout = pending_fb_id /\ queued = NoFb
<1>1. flip_pending /\ active = "yes"
  BY DEF CurrentEvent, Overdue, FlipInv, InFlight
<1>2. pending_fb_id # NoFb
  BY <1>1, Ids DEF FlipInv, Aimed, Target
<1> QED  BY <1>1, <1>2 DEF CurrentEvent, Overdue, FlipInv, InFlight

(* Completing it keeps the flips in order, and the target is the same.     *)
LEMMA CompletionKeeps ==
  ASSUME FlipInv, TypeOK', CurrentEvent \/ Overdue, CompleteFlip,
         drm_events' \in {{}, drm_events}, polled' = polled \/ drm_events' = {},
         UNCHANGED <<frame, fb_valid, copyVars, front, use_page_flip, vtVars,
                     gpu_fb, direct, scanout, queued>>
  PROVE  FlipInv' /\ Target' = Target
<1>1. active = "yes" /\ flip_pending /\ scanout = pending_fb_id /\ queued = NoFb
  BY Completion
<1>2. ~flip_pending' /\ pending_fb_id' = NoFb /\ retire' = {}
      /\ \A i \in FbId : i \notin retire => pic'[i] = pic[i]
  BY DEF CompleteFlip, Removed
<1>3. Target' = Target
  BY <1>1, <1>2 DEF Target
<1>4. Aimed'
  BY <1>1, <1>2 DEF FlipInv, Aimed, Target, vtVars
<1>5. InFlight'
  BY <1>1, <1>2 DEF FlipInv, InFlight, vtVars
<1>6. pending_fb_id \notin retire
  BY DEF FlipInv, Registered
<1>7. Registered'
  <2>1. InUseIsRegistered'
    <3>1. SUFFICES ASSUME NEW id \in FbId, id \in {scanout, queued} PROVE pic'[id] # NoFb
      BY DEF InUseIsRegistered
    <3>2. id = scanout
      BY <1>1, <3>1, Ids
    <3> QED  BY <1>1, <1>2, <1>6, <3>2 DEF FlipInv, Registered, InUseIsRegistered
  <2>2. gpu_fb \in FbId \cup {NoFb} /\ direct \in FbId \cup {NoFb}
    BY DEF FlipInv, TypeOK
  <2> QED  BY <1>1, <1>2, <2>1, <2>2 DEF FlipInv, Registered, vtVars
<1>8. InPlace'
  BY DEF FlipInv, InPlace, Copying, copyVars, vtVars
<1> QED  BY <1>3, <1>4, <1>5, <1>7, <1>8 DEF FlipInv

(* Every step keeps the flips in order.                                    *)
LEMMA FlipStep == NoScreenshots /\ FlipInv /\ [Next]_vars => FlipInv'
<1> SUFFICES ASSUME NoScreenshots, FlipInv, [Next]_vars PROVE FlipInv'
  OBVIOUS
<1>1. TypeOK'
  BY TypeStep DEF FlipInv
<1> USE DEF vtVars
<1>2. CASE Composite
  BY <1>2, CompositeAims
<1>3. CASE CompositeGpu \/ CompositeDirect
  BY <1>3, ImportedAims
<1>4. CASE Capture
  BY <1>4 DEF Capture, NoScreenshots
<1>14. UNCHANGED <<fb_valid, full_copies, due, use_page_flip, active, presented>> => InPlace'
  BY DEF FlipInv, InPlace, Copying
<1>15. ASSUME ~Copying, UNCHANGED due PROVE InPlace'
  BY <1>15 DEF InPlace, Copying
<1>5. ASSUME UNCHANGED <<front, flip_pending, pending_fb_id, use_page_flip, polled, active,
                         presented, fbVars, scanout, queued>>,
             drm_events' \in {{}, drm_events}, InPlace'
      PROVE  FlipInv'
  <2>1. Aimed'
    BY <1>5 DEF FlipInv, Aimed, Target, fbVars
  <2>2. InFlight'
    BY <1>5 DEF FlipInv, InFlight
  <2>3. Registered'
    BY <1>5 DEF FlipInv, Registered, InUseIsRegistered, fbVars
  <2> QED  BY <1>1, <1>5, <2>1, <2>2, <2>3 DEF FlipInv
<1>6. CASE DispatchEvents
  <2>1. CASE CurrentEvent
    <3>1. CompleteFlip /\ drm_events' = {}
      BY <1>6, <2>1 DEF DispatchEvents
    <3>2. UNCHANGED <<frame, fb_valid, copyVars, front, use_page_flip, vtVars,
                      gpu_fb, direct, scanout, queued>>
      BY <1>6 DEF DispatchEvents
    <3> QED  BY <1>1, <2>1, <3>1, <3>2, CompletionKeeps
  <2>2. CASE ~CurrentEvent
    <3>1. UNCHANGED <<flip_pending, pending_fb_id, retire, pic, front, use_page_flip,
                      active, presented, gpu_fb, direct, scanout, queued>>
          /\ drm_events' = {} /\ InPlace'
      BY <1>6, <1>15, <2>2 DEF DispatchEvents, copyVars
    <3>2. Aimed'
      BY <3>1 DEF FlipInv, Aimed, Target
    <3>3. InFlight'
      BY <3>1 DEF FlipInv, InFlight
    <3>4. Registered'
      BY <3>1 DEF FlipInv, Registered, InUseIsRegistered
    <3> QED  BY <1>1, <3>1, <3>2, <3>3, <3>4 DEF FlipInv
  <2> QED  BY <2>1, <2>2
<1>7. CASE PollPresentation
  <2>1. UNCHANGED <<frame, fb_valid, polled, copyVars, front, use_page_flip, vtVars,
                    gpu_fb, direct, scanout, queued, drm_events>>
    BY <1>7 DEF PollPresentation, serverVars, kernelVars
  <2>2. CASE Overdue /\ CompleteFlip
    BY <1>1, <2>1, <2>2, CompletionKeeps
  <2>3. CASE UNCHANGED <<flip_pending, pending_fb_id, retire, pic>>
    BY <1>5, <1>14, <2>1, <2>3 DEF fbVars, copyVars
  <2> QED  BY <1>7, <2>2, <2>3 DEF PollPresentation
<1>8. CASE Vblank
  <2>1. /\ queued # NoFb /\ scanout' = queued /\ queued' = NoFb
        /\ drm_events' \in {drm_events, drm_events \cup {queued}}
    BY <1>8 DEF Vblank
  <2>2. UNCHANGED <<serverVars, front, flipVars, vtVars, fbVars>>
    BY <1>8 DEF Vblank
  <2>3. active = "yes" => flip_pending /\ queued = pending_fb_id
    BY <2>1 DEF FlipInv, InFlight
  <2>4. Aimed'
    BY <2>2, <2>3 DEF FlipInv, Aimed, Target, flipVars, fbVars
  <2>5. InFlight'
    BY <2>1, <2>2, <2>3 DEF FlipInv, InFlight, serverVars, flipVars
  <2>6. active # "leaving" => InUseIsRegistered'
    <3>1. active \in {"yes", "leaving", "no"} /\ (active = "no" => queued = NoFb)
      BY DEF FlipInv, InFlight, TypeOK
    <3> QED  BY <2>1, <2>2, <3>1, Ids DEF FlipInv, Registered, InUseIsRegistered, fbVars
  <2>7. Registered'
    BY <2>2, <2>6 DEF FlipInv, Registered, flipVars, fbVars
  <2>8. InPlace'
    BY <1>8, <1>14, <2>2 DEF Vblank, serverVars, copyVars, flipVars
  <2> QED  BY <1>1, <2>4, <2>5, <2>7, <2>8 DEF FlipInv
<1>9. CASE Deactivate
  <2>1. /\ active' = "leaving" /\ ~presented' /\ ~flip_pending' /\ pending_fb_id' = NoFb
        /\ retire' = {} /\ UNCHANGED <<gpu_fb, direct>>
        /\ \A i \in FbId : i \notin retire => pic'[i] = pic[i]
    BY <1>9 DEF Deactivate, CompleteFlip, Removed
  <2>2. Aimed' /\ InFlight'
    BY <2>1 DEF Aimed, InFlight
  <2>3. gpu_fb \in FbId \cup {NoFb} /\ direct \in FbId \cup {NoFb}
    BY DEF FlipInv, TypeOK
  <2>4. Registered'
    BY <2>1, <2>3 DEF FlipInv, Registered
  <2>5. InPlace'
    BY <1>9, <1>15 DEF Deactivate, InvalidateShadow
  <2> QED  BY <1>1, <2>2, <2>4, <2>5 DEF FlipInv
<1>10. CASE RestoreCrtc
  <2>1. /\ active = "leaving" /\ active' = "no" /\ queued' = NoFb /\ polled' = FALSE
        /\ UNCHANGED <<flip_pending, pending_fb_id, presented, gpu_fb, direct, retire, pic>>
    BY <1>10 DEF RestoreCrtc, flipVars, fbVars
  <2>2. Aimed' /\ InFlight'
    BY <2>1 DEF FlipInv, Aimed, InFlight
  <2>3. InUseIsRegistered'
    BY <1>10, <2>1, Ids DEF RestoreCrtc, InUseIsRegistered
  <2>4. Registered'
    BY <2>1, <2>3 DEF FlipInv, Registered
  <2>5. InPlace'
    BY <1>10, <1>15, <2>1 DEF RestoreCrtc, FlipInv, InPlace
  <2> QED  BY <1>1, <2>2, <2>4, <2>5 DEF FlipInv
<1>11. CASE Activate
  <2>1. /\ active = "no" /\ active' = "yes" /\ scanout' = front /\ queued' = NoFb
        /\ ~flip_pending' /\ pending_fb_id' = NoFb /\ direct' = NoFb
        /\ pic' = Removed(pic, Held(direct))
        /\ UNCHANGED <<polled, front, use_page_flip, presented, gpu_fb, retire, drm_events>>
    BY <1>11 DEF Activate
  <2>2. ~flip_pending /\ ~presented /\ retire = {} /\ (polled => drm_events = {})
    BY <2>1 DEF FlipInv, InFlight, Registered
  <2>3. front \in Dumb /\ front # NoFb /\ front \notin FbId /\ gpu_fb \in FbId \cup {NoFb}
    BY Ids DEF FlipInv, TypeOK
  <2>4. Aimed'
    BY <2>1, <2>3 DEF Aimed, Target
  <2>5. InFlight'
    BY <2>1, <2>2 DEF InFlight
  <2>6. gpu_fb # NoFb => pic'[gpu_fb] = pic[gpu_fb]
    BY <2>1, <2>3 DEF FlipInv, Registered, Removed, Held
  <2>7. InUseIsRegistered'
    BY <2>1, <2>3, Ids DEF InUseIsRegistered
  <2>8. Registered'
    BY <2>1, <2>2, <2>6, <2>7 DEF FlipInv, Registered
  <2>9. InPlace'
    BY <1>11, <1>15, <2>1 DEF Activate, InvalidateShadow, FlipInv, InPlace
  <2> QED  BY <1>1, <2>4, <2>5, <2>8, <2>9 DEF FlipInv
<1>12. CASE TimePasses
  BY <1>5, <1>12, <1>14 DEF TimePasses, serverVars, copyVars, kernelVars
<1>13. CASE UNCHANGED vars
  BY <1>5, <1>13, <1>14 DEF vars, serverVars, copyVars, flipVars, kernelVars
<1>16. CASE CopyRow
  <2>1. Copying /\ UNCHANGED <<fb_valid, full_copies, use_page_flip, active, presented>>
    BY <1>16 DEF CopyRow, Copying, serverVars
  <2>2. InPlace'
    BY <2>1 DEF FlipInv, InPlace
  <2> QED  BY <1>5, <1>16, <2>2 DEF CopyRow, serverVars, kernelVars
<1> QED  BY <1>2, <1>3, <1>4, <1>6, <1>7, <1>8, <1>9, <1>10, <1>11, <1>12, <1>13, <1>16 DEF Next

(* Every step keeps what is known of the buffers.                          *)
LEMMA CopyStep == Orderly /\ IInv /\ [Next]_vars => CopyInv'
<1> SUFFICES ASSUME Orderly, IInv, [Next]_vars PROVE CopyInv'
  OBVIOUS
<1> USE DEF vtVars, IInv, CopyInv
<1>1. CASE Composite
  BY <1>1, CompositeCopies
<1>2. CASE CompositeGpu \/ CompositeDirect
  BY <1>2, ImportedCopies
<1>3. CASE Capture
  BY <1>3 DEF Capture, Orderly, NoScreenshots
<1>4. ASSUME UNCHANGED <<frame, fb_valid, copyVars, front, use_page_flip, active, direct>>,
             active = "yes" => Target' = Target
      PROVE  CopyInv'
  <2>1. CopiesKnown'
    BY <1>4 DEF CopiesKnown, Finished, Back, copyVars
  <2>2. FrontAimed'
    BY <1>4 DEF FrontAimed, copyVars
  <2> QED  BY <2>1, <2>2
<1>5. TypeOK'
  BY TypeStep DEF FlipInv
<1>6. CASE DispatchEvents
  <2>1. UNCHANGED <<frame, fb_valid, copyVars, front, use_page_flip, vtVars,
                    gpu_fb, direct, scanout, queued>> /\ drm_events' = {}
    BY <1>6 DEF DispatchEvents
  <2>2. CASE CurrentEvent
    <3>1. CompleteFlip
      BY <1>6, <2>2 DEF DispatchEvents
    <3>2. Target' = Target
      BY <1>5, <2>1, <2>2, <3>1, CompletionKeeps
    <3> QED  BY <1>4, <2>1, <3>2
  <2>3. CASE ~CurrentEvent
    <3>1. Target' = Target
      BY <1>6, <2>1, <2>3 DEF DispatchEvents, Target
    <3> QED  BY <1>4, <2>1, <3>1
  <2> QED  BY <2>2, <2>3
<1>7. CASE PollPresentation
  <2>1. UNCHANGED <<frame, fb_valid, polled, copyVars, front, use_page_flip, vtVars,
                    gpu_fb, direct, scanout, queued, drm_events>>
    BY <1>7 DEF PollPresentation, serverVars, kernelVars
  <2>2. Target' = Target
    <3>1. CASE Overdue /\ CompleteFlip
      BY <1>5, <2>1, <3>1, CompletionKeeps
    <3>2. CASE UNCHANGED <<flip_pending, pending_fb_id>>
      BY <2>1, <3>2 DEF Target
    <3> QED  BY <1>7, <3>1, <3>2 DEF PollPresentation
  <2> QED  BY <1>4, <2>1, <2>2
<1>8. CASE Vblank
  <2>1. UNCHANGED <<frame, fb_valid, copyVars, front, flip_pending, pending_fb_id, use_page_flip,
                    active, direct>> /\ queued # NoFb
    BY <1>8 DEF Vblank, serverVars, flipVars, fbVars
  <2>2. active = "yes" => flip_pending
    BY <2>1 DEF FlipInv, InFlight
  <2> QED  BY <1>4, <2>1, <2>2 DEF Target
<1>9. CASE TimePasses \/ UNCHANGED vars
  <2>1. UNCHANGED <<frame, fb_valid, copyVars, front, flip_pending, pending_fb_id, use_page_flip,
                    active, direct, scanout>>
    BY <1>9 DEF TimePasses, vars, serverVars, flipVars, fbVars, kernelVars
  <2> QED  BY <1>4, <2>1 DEF Target
<1>10. CASE Deactivate
  <2>1. active' = "leaving" /\ fb_valid' = FALSE
    BY <1>10 DEF Deactivate
  <2> QED  BY <2>1 DEF CopiesKnown, FrontAimed
<1>11. CASE RestoreCrtc
  <2>1. active' = "no" /\ UNCHANGED <<frame, fb_valid, shadow>>
    BY <1>11 DEF RestoreCrtc
  <2> QED  BY <2>1 DEF CopiesKnown, FrontAimed
<1>12. CASE Activate
  <2>1. /\ active' = "yes" /\ scanout' = front /\ front' = front /\ ~flip_pending'
        /\ direct' = NoFb /\ fb_valid' = FALSE /\ full_copies' = 2
    BY <1>12 DEF Activate, InvalidateShadow
  <2> QED  BY <2>1 DEF CopiesKnown, FrontAimed, Target
<1>13. CASE CopyRow
  <2>1. UNCHANGED <<frame, fb_valid, shadow, row_span_prev, full_copies, front, flip_pending,
                    pending_fb_id, use_page_flip, active, direct, scanout>>
    BY <1>13 DEF CopyRow, serverVars, fbVars, kernelVars
  <2>2. Finished' = Finished
    BY <1>13, RowFinished DEF FlipInv
  <2>3. CopiesKnown'
    BY <2>1, <2>2 DEF CopiesKnown, Back
  <2>4. FrontAimed'
    BY <2>1 DEF FrontAimed, Target
  <2> QED  BY <2>3, <2>4
<1> QED  BY <1>1, <1>2, <1>3, <1>6, <1>7, <1>8, <1>9, <1>10, <1>11, <1>12, <1>13 DEF Next

(* So do the initial states.                                               *)
LEMMA InvariantInit == Init => IInv
<1> SUFFICES ASSUME Init PROVE IInv
  OBVIOUS
<1>1. TypeOK
  BY InitType
<1>2. CopiesKnown
  BY DEF Init, CopiesKnown
<1>3. Aimed /\ FrontAimed
  BY Ids DEF Init, Aimed, FrontAimed, Target, Dumb
<1>4. InFlight
  BY DEF Init, InFlight
<1>5. Registered
  BY Ids DEF Init, Registered, InUseIsRegistered, Dumb
<1>6. InPlace
  BY DEF Init, InPlace, Copying, Empty, Clean
<1> QED  BY <1>1, <1>2, <1>3, <1>4, <1>5, <1>6 DEF IInv, FlipInv, CopyInv

-----------------------------------------------------------------------------
(***************************************************************************)
(* What follows.                                                           *)
(***************************************************************************)

(* The flips are in order whether or not SetCrtc can fail.                 *)
LEMMA FlipInvariance ==
  ASSUME NoScreenshots
  PROVE  Spec => []FlipInv
<1>1. Init => FlipInv
  BY InvariantInit DEF IInv
<1>2. FlipInv /\ [Next]_vars => FlipInv'
  BY FlipStep
<1> QED  BY <1>1, <1>2, PTL DEF Spec

(* Every step keeps the whole invariant, unless SetCrtc can fail.          *)
LEMMA InvariantStep == Orderly /\ IInv /\ [Next]_vars => IInv'
BY FlipStep, CopyStep DEF IInv, Orderly

(* The invariant that the refinement rests on.                             *)
THEOREM Invariance ==
  ASSUME Orderly
  PROVE  Spec => []IInv
<1>1. Init => IInv
  BY InvariantInit
<1>2. IInv /\ [Next]_vars => IInv'
  BY InvariantStep
<1> QED  BY <1>1, <1>2, PTL DEF Spec

(* Copying only the changed spans of each row never leaves a stale pixel:  *)
(* outside the spans that will be copied in any case, the next back buffer *)
(* equals the shadow, whatever the damage, the trimming, the fall-backs    *)
(* and the VT switches were.                                               *)
THEOREM BackBufferIsCovered ==
  ASSUME Orderly
  PROVE  Spec => []BackBufferCovered
<1>1. IInv => BackBufferCovered
  BY NothingDue DEF IInv, FlipInv, CopyInv, CopiesKnown, BackBufferCovered
<1> QED  BY <1>1, Invariance, PTL

(* No framebuffer is removed while the CRTC reads it or will read it from  *)
(* the next vblank on, except while the VT is being left.                  *)
THEOREM InUseStaysRegistered ==
  ASSUME NoScreenshots
  PROVE  Spec => [](active # "leaving" => InUseIsRegistered)
<1>1. FlipInv => (active # "leaving" => InUseIsRegistered)
  BY DEF FlipInv, Registered
<1> QED  BY <1>1, FlipInvariance, PTL

(* If the VT is never left, none is removed too early at any time.         *)
THEOREM InUseRegistered ==
  ASSUME NoScreenshots, "vt" \notin Allow
  PROVE  Spec => []InUseIsRegistered
<1> DEFINE Ours == active = "yes"
<1>1. Init => Ours
  BY DEF Init
<1>2. Ours /\ [Next]_vars => Ours'
  BY DEF Next, Composite, CompositeGpu, CompositeDirect, Capture, CopyRow, DispatchEvents,
         PollPresentation, Vblank, TimePasses, Deactivate, RestoreCrtc, Activate, vars, vtVars
<1>3. Ours /\ FlipInv => InUseIsRegistered
  BY DEF FlipInv, Registered
<1>4. Spec => []FlipInv
  BY FlipInvariance
<1> HIDE DEF Ours
<1> QED  BY <1>1, <1>2, <1>3, <1>4, PTL DEF Spec

(* No flip is forgotten: while the backend waits, the kernel still has the *)
(* flip, or it has been done and only the event is late or lost, which is  *)
(* what the recovery is for.                                               *)
THEOREM FlipsAreAnswerable ==
  ASSUME NoScreenshots
  PROVE  Spec => [](active = "yes" /\ flip_pending => pending_fb_id \in {queued, scanout})
<1>1. FlipInv => (active = "yes" /\ flip_pending => pending_fb_id \in {queued, scanout})
  BY DEF FlipInv, InFlight
<1> QED BY <1>1, FlipInvariance, PTL

(* A flip is declared complete only when its framebuffer is on the screen: *)
(* an event of an earlier flip, or a recovery that comes too early, never  *)
(* completes it.                                                           *)
THEOREM CompletionIsTrue ==
  ASSUME NoScreenshots
  PROVE  Spec => CompletesOnScreen
<1> DEFINE Sound == active = "yes" /\ active' = "yes" /\ flip_pending /\ ~flip_pending'
                      => scanout = pending_fb_id
<1>1. FlipInv /\ [Next]_vars => [Sound]_vars
  <2> SUFFICES ASSUME FlipInv, Next, active = "yes", active' = "yes", flip_pending, ~flip_pending'
               PROVE  scanout = pending_fb_id
    OBVIOUS
  <2>1. ~MayPresent
    BY DEF MayPresent, Busy
  <2>2. ~Composite /\ ~CompositeGpu /\ ~CompositeDirect /\ ~Capture
    BY <2>1 DEF Composite, CompositeGpu, CompositeDirect, Capture, NoScreenshots
  <2>3. ~CopyRow /\ ~Vblank /\ ~TimePasses /\ ~Deactivate /\ ~RestoreCrtc /\ ~Activate
    BY DEF CopyRow, Vblank, TimePasses, Deactivate, RestoreCrtc, Activate, flipVars
  <2>4. CASE DispatchEvents
    BY <2>4, Completion DEF DispatchEvents
  <2>5. CASE PollPresentation
    BY <2>5, Completion DEF PollPresentation
  <2> QED  BY <2>2, <2>3, <2>4, <2>5 DEF Next
<1> QED  BY <1>1, FlipInvariance, PTL DEF Spec, CompletesOnScreen

(* While page flips work, no frame is drawn into the buffer on the screen, *)
(* even after one that could not be shown.                                 *)
THEOREM ScreenIsNotDrawn ==
  ASSUME NoScreenshots
  PROVE  Spec => NeverDrawsOnScreen
<1> DEFINE Spared == \A b \in Dumb :
             use_page_flip /\ active = "yes" /\ scanout = b /\ scanout' = b => bufs'[b] = bufs[b]
<1>1. FlipInv /\ [Next]_vars => [Spared]_vars
  <2> SUFFICES ASSUME FlipInv, Next, NEW b \in Dumb, use_page_flip, active = "yes", scanout = b
               PROVE  bufs'[b] = bufs[b]
    OBVIOUS
  <2>1. CASE Composite
    <3>1. PICK p \in Picture, d \in Damage : PresentDamage(p, d)
      BY <2>1 DEF Composite
    <3>2. Back # b /\ Back \in Dumb
      BY <2>1, Ready DEF Composite
    <3> QED  BY <3>1, <3>2 DEF PresentDamage, CopyDamaged, FlipInv, TypeOK
  <2>2. CASE CompositeGpu \/ CompositeDirect
    BY <2>2 DEF CompositeGpu, CompositeDirect, PresentGpu, PresentDirect, copyVars
  <2>3. CASE DispatchEvents \/ PollPresentation \/ Vblank \/ TimePasses
    BY <2>3 DEF DispatchEvents, PollPresentation, Vblank, TimePasses, copyVars
  <2>4. CASE Deactivate \/ RestoreCrtc \/ Activate
    BY <2>4 DEF Deactivate, RestoreCrtc, Activate
  <2>5. ~Capture
    BY DEF Capture, NoScreenshots
  <2>6. ~CopyRow
    BY DEF CopyRow, FlipInv, InPlace, Copying
  <2> QED  BY <2>1, <2>2, <2>3, <2>4, <2>5, <2>6 DEF Next
<1> QED  BY <1>1, FlipInvariance, PTL DEF Spec, NeverDrawsOnScreen

-----------------------------------------------------------------------------
(***************************************************************************)
(* The backend implements Display.                                         *)
(***************************************************************************)

(* What the CRTC can read is one of the things that can be seen, and only  *)
(* what is registered is a picture.                                        *)
LEMMA ContentShown ==
  ASSUME TypeOK
  PROVE  /\ Content(scanout) \in Memory \cup {Console, NoFb}
         /\ Content(NoFb) = NoFb
         /\ \A b \in Dumb : Content(b) = bufs[b] /\ Content(b) # NoFb
         /\ \A id \in FbId : Content(id) = pic[id]
<1>1. Picture \subseteq Memory
  BY DEF Picture, Memory
<1>2. \A b \in Dumb : bufs[b] \in Memory
  BY DEF TypeOK
<1>3. \A id \in FbId : pic[id] \in Picture \cup {NoFb}
  BY DEF TypeOK
<1>4. scanout \in Dumb \cup FbId \cup {Console}
  BY DEF TypeOK
<1> QED  BY <1>1, <1>2, <1>3, <1>4, Ids, FbAssumption DEF Content

(* A frame is presented at once or with the next vblank, or begins to be   *)
(* drawn over the one on the screen.                                       *)
LEMMA CompositePresents ==
  ASSUME Orderly, IInv, IInv', Composite
  PROVE  \E p \in Picture : DisplayOf!Present(p) \/ DisplayOf!DrawOver(p)
<1>1. PICK p \in Picture, d \in Damage :
        /\ d = Full \/ (fb_valid /\ \A c \in Cell : p[c] # frame[c] => Inside(c, d))
        /\ PresentDamage(p, d)
        /\ frame' = p
  BY DEF Composite
<1>2. MayPresent /\ presented' = TRUE /\ polled' = FALSE /\ active' = active
  BY DEF Composite
<1>3. /\ active = "yes" /\ ~flip_pending /\ queued = NoFb /\ Target = scanout /\ front \in Dumb
      /\ scanout \in {front, gpu_fb, direct} \ {NoFb}
      /\ use_page_flip => Back \in Dumb /\ Back # scanout
      /\ ~use_page_flip => Back = front /\ scanout = front
  BY <1>2, Ready, ReadyInPlace DEF IInv
<1>5. TypeOK /\ TypeOK' /\ FlipInv /\ ~Copying
  BY <1>2 DEF IInv, FlipInv, MayPresent
<1>4. /\ ~Copying' => bufs'[Back] = p /\ \A b \in Dumb \ {Back} : bufs'[b] = bufs[b]
      /\ Copying' => ~use_page_flip /\ bufs' = bufs
      /\ ~Wrote(p, d) => full_copies = 0 /\ shadow = p /\ ~Copying'
  BY <1>1, <1>2, <1>5, SoftwareCopies
<1>6. /\ Content(NoFb) = NoFb /\ Content(NoFb)' = NoFb
      /\ \A b \in Dumb : Content(b) = bufs[b] /\ Content(b)' = bufs'[b]
      /\ \A id \in FbId : Content(id) = pic[id] /\ Content(id)' = pic'[id]
  BY <1>5, Ids DEF Content
<1>7. (IF presented THEN Content(queued) ELSE NoFb) = NoFb
  BY <1>3, <1>6
<1>8. ASSUME \/ queued' = NoFb /\ Content(scanout)' = p
             \/ Content(queued)' = p /\ Content(scanout)' = Content(scanout),
             ~Copying', use_page_flip' \in {use_page_flip, FALSE}
      PROVE  DisplayOf!Present(p)
  <2>3. DisplayOf!Ready /\ Copying' = FALSE
    BY <1>5, <1>7, <1>8 DEF DisplayOf!Ready
  <2>1. CASE queued' = NoFb /\ Content(scanout)' = p
    <3>1. Content(queued)' = NoFb
      BY <1>5, <2>1, Ids DEF Content
    <3> QED  BY <1>1, <1>2, <1>8, <2>1, <2>3, <3>1 DEF DisplayOf!Present
  <2>2. CASE Content(queued)' = p /\ Content(scanout)' = Content(scanout)
    BY <1>1, <1>2, <1>7, <1>8, <2>2, <2>3 DEF DisplayOf!Present
  <2> QED  BY <1>8, <2>1, <2>2
<1>12. CASE Copying'
  <2>1. UNCHANGED <<scanout, queued, pic, use_page_flip>> /\ bufs' = bufs /\ ~use_page_flip
    BY <1>1, <1>4, <1>12 DEF PresentDamage, flipVars, fbVars, kernelVars
  <2>2. Content(scanout)' = Content(scanout)
    BY <2>1 DEF Content
  <2>3. Content(queued)' = NoFb
    BY <1>3, <1>6, <2>1
  <2> QED  BY <1>1, <1>2, <1>5, <1>7, <1>12, <2>1, <2>2, <2>3
           DEF DisplayOf!DrawOver, DisplayOf!Ready, TypeOK
<1>9. CASE ~Wrote(p, d) /\ UNCHANGED <<front, flipVars, fbVars, kernelVars>>
  <2>1. scanout = front /\ bufs[front] = p
    BY <1>3, <1>4, <1>5, <1>9, NothingDue DEF IInv, CopyInv, FrontAimed, CopiesKnown
  <2>2. bufs'[front] = p /\ scanout' = front /\ queued' = NoFb
    BY <1>3, <1>4, <1>9, <2>1 DEF kernelVars
  <2>3. Content(scanout)' = p
    BY <1>3, <2>2 DEF Content
  <2> QED  BY <1>4, <1>8, <1>9, <2>2, <2>3 DEF flipVars
<1>10. CASE ~Copying' /\ ~use_page_flip /\ UNCHANGED <<front, flipVars, fbVars, kernelVars>>
  <2>1. scanout' = front /\ bufs'[front] = p /\ queued' = NoFb
    BY <1>3, <1>4, <1>10 DEF kernelVars
  <2>2. Content(scanout)' = p
    BY <1>3, <2>1 DEF Content
  <2> QED  BY <1>8, <1>10, <2>1, <2>2 DEF flipVars
<1>11. CASE /\ use_page_flip /\ FlipTo(Back) /\ front' = Back /\ direct' = NoFb
            /\ Retire(Held(direct), pic) /\ UNCHANGED gpu_fb
  <2>4. ~Copying' /\ use_page_flip' \in {use_page_flip, FALSE}
    BY <1>4, <1>5, <1>11 DEF FlipTo, TypeOK
  <2>1. CASE flip_pending' /\ queued' = Back /\ scanout' = scanout
    <3>1. pic' = pic
      BY <1>11, <2>1 DEF Retire
    <3>2. Content(scanout)' = Content(scanout)
      BY <1>3, <1>4, <1>11, <2>1, <2>4, <3>1 DEF Content
    <3>3. Content(queued)' = p
      BY <1>3, <1>4, <1>11, <2>1, <2>4 DEF Content
    <3> QED  BY <1>8, <2>4, <3>2, <3>3
  <2>2. CASE ~flip_pending' /\ queued' = NoFb /\ scanout' = Back
    <3>1. Content(scanout)' = p
      BY <1>3, <1>4, <1>11, <2>2, <2>4 DEF Content
    <3> QED  BY <1>8, <2>2, <2>4, <3>1
  <2>3. Back \in Dumb \cup FbId /\ Back # scanout
    BY <1>3, <1>11
  <2> QED  BY <1>2, <1>5, <1>11, <2>1, <2>2, <2>3, FlipInFlight
<1> QED  BY <1>1, <1>2, <1>5, <1>9, <1>10, <1>11, <1>12, SoftwareCases DEF Orderly

(* So is a frame of the GPU, and a client's buffer.                        *)
LEMMA ImportedPresents ==
  ASSUME FlipInv, CompositeGpu \/ CompositeDirect
  PROVE  \E p \in Picture : DisplayOf!Present(p)
<1>1. PICK p \in Picture : (PresentGpu(p) \/ PresentDirect(p)) /\ frame' = p
  BY DEF CompositeGpu, CompositeDirect
<1>2. /\ MayPresent /\ presented' = TRUE /\ polled' = FALSE /\ active' = active
      /\ ~Copying /\ ~Copying'
  <2>1. MayPresent /\ presented' = TRUE /\ polled' = FALSE /\ active' = active
    BY DEF CompositeGpu, CompositeDirect
  <2> QED  BY <1>1, <2>1 DEF MayPresent, Copying, PresentGpu, PresentDirect, InvalidateShadow, copyVars
<1>3. /\ active = "yes" /\ ~flip_pending /\ queued = NoFb /\ Target = scanout
      /\ scanout \in {front, gpu_fb, direct} \ {NoFb} /\ InUseIsRegistered
  BY <1>2, Ready
<1>4. Content(NoFb) = NoFb /\ Content(NoFb)' = NoFb
  BY Ids DEF Content
<1>5. (IF presented THEN Content(queued) ELSE NoFb) = NoFb
  BY <1>3, <1>4
<1>6. ASSUME \/ queued' = NoFb /\ Content(scanout)' = p
             \/ Content(queued)' = p /\ Content(scanout)' = Content(scanout),
             use_page_flip' = use_page_flip
      PROVE  DisplayOf!Present(p)
  <2>1. CASE queued' = NoFb /\ Content(scanout)' = p
    <3>1. Content(queued)' = NoFb
      BY <2>1, Ids DEF Content
    <3> QED  BY <1>1, <1>2, <1>5, <1>6, <2>1, <3>1 DEF DisplayOf!Present, DisplayOf!Ready
  <2>2. CASE Content(queued)' = p /\ Content(scanout)' = Content(scanout)
    BY <1>1, <1>2, <1>5, <1>6, <2>2 DEF DisplayOf!Present, DisplayOf!Ready
  <2> QED  BY <1>6, <2>1, <2>2
<1>7. CASE /\ direct # NoFb /\ pic[direct] = p
           /\ UNCHANGED <<copyVars, front, flipVars, fbVars, kernelVars>>
  <2>1. scanout = direct /\ direct \in FbId
    BY <1>3, <1>7 DEF FlipInv, Aimed, TypeOK
  <2>2. scanout' = direct /\ pic'[direct] = p /\ queued' = NoFb
    BY <1>3, <1>7, <2>1 DEF fbVars, kernelVars
  <2>3. Content(scanout)' = p
    BY <2>1, <2>2, Ids DEF Content
  <2> QED  BY <1>6, <1>7, <2>2, <2>3 DEF flipVars
<1>8. ASSUME NEW id \in FbId, pic[id] = NoFb, use_page_flip, FlipTo(id), UNCHANGED bufs,
             \/ /\ gpu_fb' = id /\ direct' = NoFb
                /\ Retire(Held(gpu_fb) \cup Held(direct), [pic EXCEPT ![id] = p])
             \/ /\ gpu_fb' = gpu_fb /\ direct' = id
                /\ Retire(Held(direct), [pic EXCEPT ![id] = p])
      PROVE  DisplayOf!Present(p)
  <2>1. /\ pic'[id] = p
        /\ \/ /\ flip_pending' /\ queued' = id /\ scanout' = scanout
              /\ \A i \in FbId \ {id} : pic'[i] = pic[i]
           \/ ~flip_pending' /\ queued' = NoFb /\ scanout' = id
        /\ use_page_flip' = use_page_flip
    BY <1>2, <1>8, ImportedFlip
  <2>2. CASE /\ queued' = id /\ scanout' = scanout
             /\ \A i \in FbId \ {id} : pic'[i] = pic[i]
    <3>1. scanout # id
      BY <1>3, <1>8 DEF InUseIsRegistered
    <3>2. Content(scanout)' = Content(scanout)
      BY <1>8, <2>2, <3>1 DEF Content
    <3>3. Content(queued)' = p
      BY <1>8, <2>1, <2>2, Ids DEF Content
    <3> QED  BY <1>6, <2>1, <3>2, <3>3
  <2>3. CASE queued' = NoFb /\ scanout' = id
    <3>1. Content(scanout)' = p
      BY <1>8, <2>1, <2>3, Ids DEF Content
    <3> QED  BY <1>6, <2>1, <2>3, <3>1
  <2> QED  BY <2>1, <2>2, <2>3
<1> QED  BY <1>1, <1>7, <1>8, ImportedCases

(* A row of an update in place draws on, and the last one completes the    *)
(* picture.                                                                *)
LEMMA RowDraws ==
  ASSUME IInv, IInv', CopyRow
  PROVE  DisplayOf!Draw
<1>1. PICK y \in Row : bufs' = [bufs EXCEPT ![front] = RowWritten(y)]
  BY DEF CopyRow
<1>2. UNCHANGED <<frame, presented, use_page_flip, front, scanout, queued>> /\ Copying
  BY DEF CopyRow, Copying, serverVars, vtVars, kernelVars
<1>3. TypeOK /\ TypeOK' /\ active = "yes" /\ presented /\ ~use_page_flip /\ fb_valid
      /\ full_copies <= 1
  BY <1>2 DEF IInv, FlipInv, InPlace
<1>4. ~flip_pending /\ queued = NoFb /\ scanout = front
  BY <1>3 DEF IInv, FlipInv, CopyInv, Aimed, InFlight, FrontAimed, Target
<1>5. front \in Dumb /\ bufs[front] \in Memory /\ bufs'[front] \in Memory
  BY <1>2, <1>3 DEF TypeOK
<1>6. Content(scanout) = bufs[front] /\ Content(scanout)' = bufs'[front] /\ Content(queued)' = NoFb
      /\ Content(queued) = NoFb
  BY <1>2, <1>4, <1>5, Ids DEF Content
<1>7. \A c \in Cell : bufs'[front][c] \in {bufs[front][c], frame[c]}
  BY <1>1, <1>3, <1>5 DEF RowWritten, TypeOK
<1>8. ~Copying' => bufs'[front] = frame
  <2>1. Finished[front] = frame
    BY <1>3 DEF IInv, CopyInv, CopiesKnown
  <2>2. Finished' = Finished
    BY <1>3, RowFinished
  <2> QED  BY <1>3, <2>1, <2>2, NothingDue
<1> QED  BY <1>2, <1>3, <1>5, <1>6, <1>7, <1>8 DEF DisplayOf!Draw

(* Every step of the backend is a step of Display, or is not seen.         *)
LEMMA DisplayStep ==
  ASSUME Orderly, IInv, IInv', [Next]_vars
  PROVE  [DisplayOf!Next]_(DisplayOf!dvars)
<1>1. TypeOK /\ TypeOK' /\ FlipInv
  BY DEF IInv, FlipInv
<1>2. Content(NoFb) = NoFb /\ Content(NoFb)' = NoFb
  BY Ids DEF Content
<1>3. ASSUME UNCHANGED <<frame, presented, queued, use_page_flip, due>>,
             Content(scanout)' = Content(scanout), Content(queued)' = Content(queued)
      PROVE  UNCHANGED DisplayOf!dvars
  BY <1>3 DEF DisplayOf!dvars, Copying
<1>4. ASSUME presented' = FALSE, UNCHANGED <<frame, use_page_flip, due>>, ~Copying
      PROVE  DisplayOf!SwitchVt
  <2>1. Content(scanout)' \in Memory \cup {Console, NoFb}
    <3>1. Picture \subseteq Memory
      BY DEF Picture, Memory
    <3>2. \A b \in Dumb : bufs'[b] \in Memory
      BY <1>1 DEF TypeOK
    <3>3. \A id \in FbId : pic'[id] \in Picture \cup {NoFb}
      BY <1>1 DEF TypeOK
    <3>4. scanout' \in Dumb \cup FbId \cup {Console}
      BY <1>1 DEF TypeOK
    <3> QED  BY <3>1, <3>2, <3>3, <3>4, Ids DEF Content
  <2> QED  BY <1>4, <2>1 DEF DisplayOf!SwitchVt, Copying
<1>5. CASE Composite \/ CompositeGpu \/ CompositeDirect
  BY <1>1, <1>5, CompositePresents, ImportedPresents DEF DisplayOf!Next
<1>6. ASSUME CurrentEvent \/ Overdue, CompleteFlip,
             UNCHANGED <<frame, presented, use_page_flip, copyVars, scanout, queued>>
      PROVE  UNCHANGED DisplayOf!dvars
  <2>1. queued = NoFb /\ scanout = pending_fb_id /\ scanout \notin retire
    BY <1>1, <1>6, Completion DEF FlipInv, Registered
  <2>2. \A i \in FbId \ retire : pic'[i] = pic[i]
    BY <1>6 DEF CompleteFlip, Removed
  <2>3. Content(scanout)' = Content(scanout)
    BY <1>6, <2>1, <2>2 DEF Content, copyVars
  <2>4. Content(queued)' = Content(queued)
    BY <1>2, <1>6, <2>1 DEF Content
  <2> QED  BY <1>3, <1>6, <2>3, <2>4 DEF copyVars
<1>7. ASSUME UNCHANGED <<frame, presented, use_page_flip, copyVars, pic, scanout, queued>>
      PROVE  UNCHANGED DisplayOf!dvars
  BY <1>3, <1>7 DEF Content, copyVars
<1>8. CASE DispatchEvents
  <2>1. UNCHANGED <<frame, presented, use_page_flip, copyVars, scanout, queued>>
    BY <1>8 DEF DispatchEvents, vtVars
  <2> QED  BY <1>6, <1>7, <1>8, <2>1 DEF DispatchEvents
<1>9. CASE PollPresentation
  <2>1. UNCHANGED <<frame, presented, use_page_flip, copyVars, scanout, queued>>
    BY <1>9 DEF PollPresentation, serverVars, vtVars, kernelVars
  <2> QED  BY <1>6, <1>7, <1>9, <2>1 DEF PollPresentation
<1>10. CASE Vblank
  <2>1. /\ queued # NoFb /\ scanout' = queued /\ queued' = NoFb
        /\ UNCHANGED <<frame, presented, active, use_page_flip, bufs, due, pic>>
    BY <1>10 DEF Vblank, serverVars, copyVars, flipVars, vtVars, fbVars
  <2>2. CASE presented
    <3>1. active = "yes" /\ InUseIsRegistered
      BY <1>1, <2>2 DEF FlipInv, InFlight, Registered
    <3>2. Content(queued) # NoFb
      <4>1. queued \in Dumb \cup FbId
        BY <1>1, <2>1 DEF TypeOK
      <4> QED  BY <1>1, <3>1, <4>1, ContentShown DEF InUseIsRegistered
    <3>3. Content(scanout)' = Content(queued) /\ Content(queued)' = NoFb
      BY <1>2, <2>1 DEF Content
    <3>4. DisplayOf!Vblank
      BY <2>1, <2>2, <3>2, <3>3 DEF DisplayOf!Vblank, Copying
    <3> QED  BY <3>4 DEF DisplayOf!Next
  <2>3. CASE ~presented
    <3>1. presented' = FALSE /\ ~Copying
      BY <2>1, <2>3, <1>1 DEF TypeOK, FlipInv, InPlace
    <3> QED  BY <1>4, <2>1, <3>1 DEF DisplayOf!Next
  <2> QED  BY <2>2, <2>3
<1>11. CASE TimePasses \/ UNCHANGED vars
  <2>1. UNCHANGED <<frame, presented, use_page_flip, copyVars, pic, scanout, queued>>
    BY <1>11 DEF TimePasses, vars, serverVars, flipVars, vtVars, fbVars, kernelVars
  <2> QED  BY <1>7, <2>1
<1>12. CASE Deactivate \/ RestoreCrtc \/ Activate
  <2>1. UNCHANGED <<frame, use_page_flip, due>> /\ ~Copying
    BY <1>1, <1>12 DEF Deactivate, RestoreCrtc, Activate, InvalidateShadow, flipVars, FlipInv, InPlace
  <2>2. presented' = FALSE
    BY <1>1, <1>12 DEF Deactivate, RestoreCrtc, Activate, FlipInv, InFlight, TypeOK
  <2> QED  BY <1>4, <2>1, <2>2 DEF DisplayOf!Next
<1>13. ~Capture
  BY DEF Capture, Orderly, NoScreenshots
<1>14. CASE CopyRow
  BY <1>14, RowDraws DEF DisplayOf!Next
<1> QED  BY <1>5, <1>8, <1>9, <1>10, <1>11, <1>12, <1>13, <1>14 DEF Next

(* The backend keeps what the trait Backend promises: the screen shows the *)
(* last picture presented, now or from the next vblank on, and whole ones  *)
(* as long as page flips work.  Without them each pixel is that of the     *)
(* last picture or of what was there before, until the picture is complete.*)
THEOREM ImplementsDisplay ==
  ASSUME Orderly
  PROVE  Spec => ShowsFrames
<1>1. Init => DisplayOf!Init
  <2> SUFFICES ASSUME Init PROVE DisplayOf!Init
    OBVIOUS
  <2>1. TypeOK
    BY InitType
  <2>2. Content(scanout) \in Memory \cup {Console, NoFb}
    BY <2>1, ContentShown
  <2>3. ~Copying
    BY DEF Init, Copying, Empty, Clean
  <2> QED  BY <2>2, <2>3 DEF Init, DisplayOf!Init
<1>2. IInv /\ IInv' /\ [Next]_vars => [DisplayOf!Next]_(DisplayOf!dvars)
  BY DisplayStep
<1> QED  BY <1>1, <1>2, Invariance, PTL DEF Spec, ShowsFrames, DisplayOf!Spec
=============================================================================
