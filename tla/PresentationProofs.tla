------------------------- MODULE PresentationProofs -------------------------
(***************************************************************************)
(* Proofs about Presentation for any number of clients, surfaces and       *)
(* buffers: the type invariant, and that no buffer is given back to its    *)
(* client while it is still in use.                                        *)
(***************************************************************************)
EXTENDS Presentation, TLAPS

(* What the object tables need of the instance: a descriptor is not given  *)
(* to a second client.                                                     *)
OneOwner == "fdreuse" \notin Allow

(* What the buffers need besides: clients obey the release events, and     *)
(* where client buffers are scanned out themselves no screenshot is taken  *)
(* and a refused page flip is made up for by SetCrtc.                      *)
Orderly == /\ OneOwner
           /\ "reattach" \notin Allow
           /\ "direct" \in Allow => Allow \cap {"screenshot", "fail"} = {}

(* The two object tables agree; a closed connection has none.              *)
TablesInv ==
  \A fd \in Fd : \A i \in Id :
    /\ role[fd][i] = "buffer" <=> view[fd][i] \in {"idle", "held"}
    /\ role[fd][i] = "callback" <=> view[fd][i] = "callback"
    /\ fd \notin clients => view[fd][i] = "none"

(* Connections are never reopened, and the queues know no other clients.   *)
ClosedInv ==
  /\ clients \cap closed = {}
  /\ \A fd \in Fd : \A i \in Id :
       \/ fd \in clients \cup closed
       \/ <<fd, i>> \notin frame_done \cup buffer_release \cup in_flight_buffer_release

(* A surface that does not exist shows nothing.                            *)
LiveInv ==
  \A fd \in Fd : \A s \in Surf :
    fd \notin clients \/ surf[fd][s].live = FALSE => surf[fd][s] = NoSurface

(* What a surface shows is held by the server, and it alone shows it.      *)
ShownInv ==
  \A fd \in Fd : \A s \in Surf : surf[fd][s].cur # Null =>
    /\ view[fd][surf[fd][s].cur] \in {"held", "zombie"}
    /\ \A t \in Surf : t # s => surf[fd][t].cur # surf[fd][s].cur

(* What a surface will show is not held yet, and no other will show it.    *)
AttachedInv ==
  \A fd \in Fd : \A s \in Surf : surf[fd][s].pend \in Id =>
    /\ view[fd][surf[fd][s].pend] \in {"idle", "zombie"}
    /\ \A t \in Surf : t # s => surf[fd][t].pend # surf[fd][s].pend

(* A callback waits in exactly one place until it fires.                   *)
CallbackInv ==
  \A fd \in Fd : \A i \in Id :
    <<fd, i>> \in frame_done /\ fd \in clients => view[fd][i] = "callback"

FramesInv ==
  \A fd \in Fd : \A s \in Surf : \A i \in Id : i \in surf[fd][s].frames =>
    /\ view[fd][i] = "callback"
    /\ <<fd, i>> \notin frame_done
    /\ \A t \in Surf : t # s => i \notin surf[fd][t].frames

(* A buffer is queued for release once, after its surface let it go.       *)
ReleaseInv ==
  /\ buffer_release \cap in_flight_buffer_release = {}
  /\ \A fd \in Fd : \A i \in Id :
       <<fd, i>> \in buffer_release \cup in_flight_buffer_release /\ fd \in clients =>
         /\ view[fd][i] \in {"held", "zombie"}
         /\ \A s \in Surf : surf[fd][s].cur # i

(* The backend's variables fit together.                                   *)
KmsInv ==
  /\ flip = "none" => pending = Own /\ in_flight_buffer_release = {}
  /\ flip \in {"shown", "overdue"} => onscreen = pending
  /\ Busy => active /\ direct = pending
  /\ active /\ ~Busy => direct = onscreen
  /\ ~active => onscreen = Own
  /\ "direct" \notin Allow => onscreen = Own /\ pending = Own /\ direct = Own
  /\ pending_screenshot => "screenshot" \in Allow
  /\ "current" \in events => flip \in {"shown", "overdue"}

(* A client buffer on the screen, or on its way there, is a window's, or   *)
(* its release waits for a frame that still has to be made, or for the     *)
(* flip that takes it off the screen.                                      *)
ScreenInv ==
  \A fd \in Fd : \A i \in Id :
    <<fd, i>> \in {onscreen, pending} /\ role[fd][i] = "buffer" =>
      \/ <<fd, i>> \in Windows
      \/ <<fd, i>> \in buffer_release /\ dirty
      \/ /\ <<fd, i>> \in in_flight_buffer_release
         /\ <<fd, i>> # pending /\ flip = "queued"

(* As long as no new scene is due, the retained scene is the current one.  *)
RetainedInv ==
  \A fd \in Fd : \A i \in Id :
    <<fd, i>> \in retained /\ ~dirty /\ role[fd][i] = "buffer" => <<fd, i>> \in Windows

(* The backend only knows ids that can never name another buffer.          *)
KnownInv ==
  \A fd \in Fd : \A i \in Id :
    <<fd, i>> \in retained \cup {onscreen, pending, direct} =>
      fd \in closed \/ (fd \in clients /\ view[fd][i] \in {"idle", "held", "zombie"})

IdsInv == TablesInv /\ ClosedInv /\ LiveInv /\ CallbackInv /\ FramesInv
BuffersInv == ShownInv /\ AttachedInv /\ ReleaseInv
ClientInv == IdsInv /\ BuffersInv
DisplayInv == KmsInv /\ KnownInv /\ ScreenInv /\ RetainedInv
IInv == TypeOK /\ ClientInv /\ DisplayInv

(* A surface that is replaced by a live one of a live client keeps LiveInv. *)
LEMMA LiveUpdate ==
  ASSUME TypeOK, LiveInv, NEW fd \in Fd, NEW s \in Surf, NEW r,
         r.live = TRUE, fd \in clients, UNCHANGED clients,
         surf' = [surf EXCEPT ![fd][s] = r]
  PROVE  LiveInv'
BY DEF LiveInv, TypeOK, ClientType

(* A request keeps the two object tables in step. *)
LEMMA TablesRequest ==
  ASSUME OneOwner, TypeOK, IdsInv, ClientStep
  PROVE  TablesInv'
<1> USE NullAssumption DEF IdsInv, OneOwner, Request, TablesInv,
         NoSurface, clientVars, queueVars,
         TypeOK, ClientType, TableType, QueueType, Surface, Entry
<1>1. ASSUME NEW fd \in Fd, Connect(fd) PROVE TablesInv'
  BY <1>1 DEF Connect, Serving
<1>2. ASSUME NEW fd \in Fd, Disconnect(fd) PROVE TablesInv'
  BY <1>2 DEF Disconnect, Serving
<1>3. ASSUME NEW fd \in Fd, NEW i \in Id, CreateBuffer(fd, i) PROVE TablesInv'
  BY <1>3 DEF CreateBuffer
<1>4. ASSUME NEW fd \in Fd, NEW i \in Id, DestroyBuffer(fd, i) PROVE TablesInv'
  BY <1>4 DEF DestroyBuffer
<1>5. ASSUME NEW fd \in Fd, NEW s \in Surf, CreateSurface(fd, s) PROVE TablesInv'
  BY <1>5 DEF CreateSurface, NewSurface
<1>6. ASSUME NEW fd \in Fd, NEW s \in Surf, DestroySurface(fd, s) PROVE TablesInv'
  BY <1>6 DEF DestroySurface, CurrentOf
<1>7. ASSUME NEW fd \in Fd, NEW s \in Surf, NEW b \in Id \cup {Null}, Attach(fd, s, b) PROVE TablesInv'
  BY <1>7 DEF Attach
<1>8. ASSUME NEW fd \in Fd, NEW s \in Surf, NEW i \in Id, Frame(fd, s, i) PROVE TablesInv'
  BY <1>8 DEF Frame
<1>9. ASSUME NEW fd \in Fd, NEW s \in Surf, NEW damaged \in BOOLEAN, Commit(fd, s, damaged) PROVE TablesInv'
  BY <1>9 DEF Commit, Committed, Replaced, CurrentOf, LiveBuffer
<1> HIDE DEF TablesInv, IdsInv, TypeOK
<1> QED
  BY <1>1, <1>2, <1>3, <1>4, <1>5, <1>6, <1>7, <1>8, <1>9 DEF ClientStep

(* Only live connections reach the queues. *)
LEMMA ClosedRequest ==
  ASSUME OneOwner, TypeOK, IdsInv, ClientStep
  PROVE  ClosedInv'
<1> USE NullAssumption DEF IdsInv, OneOwner, Request, ClosedInv, CurrentOf, Replaced,
         NoSurface, clientVars, queueVars,
         TypeOK, ClientType, TableType, QueueType, Surface, Entry
<1>1. ASSUME NEW fd \in Fd, Connect(fd) PROVE ClosedInv'
  BY <1>1 DEF Connect, Serving
<1>2. ASSUME NEW fd \in Fd, Disconnect(fd) PROVE ClosedInv'
  BY <1>2 DEF Disconnect, Serving
<1>3. ASSUME NEW fd \in Fd, NEW i \in Id, CreateBuffer(fd, i) PROVE ClosedInv'
  BY <1>3 DEF CreateBuffer
<1>4. ASSUME NEW fd \in Fd, NEW i \in Id, DestroyBuffer(fd, i) PROVE ClosedInv'
  BY <1>4 DEF DestroyBuffer
<1>5. ASSUME NEW fd \in Fd, NEW s \in Surf, CreateSurface(fd, s) PROVE ClosedInv'
  BY <1>5 DEF CreateSurface, NewSurface
<1>6. ASSUME NEW fd \in Fd, NEW s \in Surf, DestroySurface(fd, s) PROVE ClosedInv'
  BY <1>6 DEF DestroySurface
<1>7. ASSUME NEW fd \in Fd, NEW s \in Surf, NEW b \in Id \cup {Null}, Attach(fd, s, b) PROVE ClosedInv'
  BY <1>7 DEF Attach
<1>8. ASSUME NEW fd \in Fd, NEW s \in Surf, NEW i \in Id, Frame(fd, s, i) PROVE ClosedInv'
  BY <1>8 DEF Frame
<1>9. ASSUME NEW fd \in Fd, NEW s \in Surf, NEW damaged \in BOOLEAN, Commit(fd, s, damaged) PROVE ClosedInv'
  BY <1>9 DEF Commit, Committed, LiveBuffer
<1> HIDE DEF ClosedInv, IdsInv, TypeOK
<1> QED
  BY <1>1, <1>2, <1>3, <1>4, <1>5, <1>6, <1>7, <1>8, <1>9 DEF ClientStep

(* Only live surfaces have state. *)
LEMMA LiveRequest ==
  ASSUME OneOwner, TypeOK, IdsInv, ClientStep
  PROVE  LiveInv'
<1> USE NullAssumption DEF IdsInv, OneOwner, Request, LiveInv, Committed,
         NoSurface, clientVars, queueVars,
         TypeOK, ClientType, TableType, QueueType, Surface, Entry
<1>1. ASSUME NEW fd \in Fd, Connect(fd) PROVE LiveInv'
  BY <1>1 DEF Connect, Serving
<1>2. ASSUME NEW fd \in Fd, Disconnect(fd) PROVE LiveInv'
  BY <1>2 DEF Disconnect, Serving
<1>3. ASSUME NEW fd \in Fd, NEW i \in Id, CreateBuffer(fd, i) PROVE LiveInv'
  BY <1>3 DEF CreateBuffer
<1>4. ASSUME NEW fd \in Fd, NEW i \in Id, DestroyBuffer(fd, i) PROVE LiveInv'
  BY <1>4 DEF DestroyBuffer
<1>5. ASSUME NEW fd \in Fd, NEW s \in Surf, CreateSurface(fd, s) PROVE LiveInv'
  BY <1>5 DEF CreateSurface, NewSurface
<1>6. ASSUME NEW fd \in Fd, NEW s \in Surf, DestroySurface(fd, s) PROVE LiveInv'
  BY <1>6 DEF DestroySurface, CurrentOf
<1>7. ASSUME NEW fd \in Fd, NEW s \in Surf, NEW b \in Id \cup {Null}, Attach(fd, s, b) PROVE LiveInv'
  <2>1. surf' = [surf EXCEPT ![fd][s] = [surf[fd][s] EXCEPT !.pend = b]]
    BY <1>7 DEF Attach
  <2>2. [surf[fd][s] EXCEPT !.pend = b].live = TRUE
    BY <1>7 DEF Attach
  <2>3. QED
    BY <1>7, <2>1, <2>2, LiveUpdate DEF Attach
<1>8. ASSUME NEW fd \in Fd, NEW s \in Surf, NEW i \in Id, Frame(fd, s, i) PROVE LiveInv'
  <2>1. surf' = [surf EXCEPT ![fd][s] = [surf[fd][s] EXCEPT !.frames = @ \cup {i}]]
    BY <1>8 DEF Frame
  <2>2. [surf[fd][s] EXCEPT !.frames = @ \cup {i}].live = TRUE
    BY <1>8 DEF Frame
  <2>3. QED
    BY <1>8, <2>1, <2>2, LiveUpdate DEF Frame
<1>9. ASSUME NEW fd \in Fd, NEW s \in Surf, NEW damaged \in BOOLEAN, Commit(fd, s, damaged) PROVE LiveInv'
  BY <1>9 DEF Commit, Replaced, CurrentOf, LiveBuffer
<1> HIDE DEF LiveInv, IdsInv, TypeOK
<1> QED
  BY <1>1, <1>2, <1>3, <1>4, <1>5, <1>6, <1>7, <1>8, <1>9 DEF ClientStep

(* A commit installs a buffer no other surface shows. *)
LEMMA ShownRequest ==
  ASSUME Orderly, TypeOK, ClientInv, ClientStep
  PROVE  ShownInv'
<1> USE NullAssumption DEF ClientInv, IdsInv, BuffersInv, Orderly, OneOwner, Request, ShownInv, TablesInv, LiveInv, AttachedInv,
         NoSurface, clientVars, queueVars,
         TypeOK, ClientType, TableType, QueueType, Surface, Entry
<1>1. ASSUME NEW fd \in Fd, Connect(fd) PROVE ShownInv'
  BY <1>1 DEF Connect, Serving
<1>2. ASSUME NEW fd \in Fd, Disconnect(fd) PROVE ShownInv'
  BY <1>2 DEF Disconnect, Serving
<1>3. ASSUME NEW fd \in Fd, NEW i \in Id, CreateBuffer(fd, i) PROVE ShownInv'
  BY <1>3 DEF CreateBuffer
<1>4. ASSUME NEW fd \in Fd, NEW i \in Id, DestroyBuffer(fd, i) PROVE ShownInv'
  BY <1>4 DEF DestroyBuffer
<1>5. ASSUME NEW fd \in Fd, NEW s \in Surf, CreateSurface(fd, s) PROVE ShownInv'
  BY <1>5 DEF CreateSurface, NewSurface
<1>6. ASSUME NEW fd \in Fd, NEW s \in Surf, DestroySurface(fd, s) PROVE ShownInv'
  BY <1>6 DEF DestroySurface, CurrentOf
<1>7. ASSUME NEW fd \in Fd, NEW s \in Surf, NEW b \in Id \cup {Null}, Attach(fd, s, b) PROVE ShownInv'
  BY <1>7 DEF Attach
<1>8. ASSUME NEW fd \in Fd, NEW s \in Surf, NEW i \in Id, Frame(fd, s, i) PROVE ShownInv'
  BY <1>8 DEF Frame
<1>9. ASSUME NEW fd \in Fd, NEW s \in Surf, NEW damaged \in BOOLEAN, Commit(fd, s, damaged) PROVE ShownInv'
  <2> DEFINE b == surf[fd][s].pend
             installs == b # Keep /\ b # Null /\ LiveBuffer(<<fd, b>>)
  <2>1. surf[fd][s] \in Surface
    OBVIOUS
  <2>2. \A f \in Fd : \A t \in Surf : surf'[f][t].cur =
          IF f = fd /\ t = s
          THEN IF installs THEN b ELSE IF b # Keep THEN Null ELSE surf[fd][s].cur
          ELSE surf[f][t].cur
    BY <1>9 DEF Commit, Committed
  <2>3. installs => b \in Id /\ role[fd][b] = "buffer" /\ view[fd][b] = "idle"
    BY <2>1 DEF LiveBuffer
  <2>4. \A f \in Fd : \A i \in Id :
          view'[f][i] = IF f = fd /\ installs /\ i = b THEN "held" ELSE view[f][i]
    BY <1>9 DEF Commit
  <2>5. \A f \in Fd : \A t \in Surf : surf[f][t].cur \in Id \cup {Null}
    OBVIOUS
  <2>6. ShownInv
    OBVIOUS
  <2>7. installs => b # Null
    OBVIOUS
  <2> HIDE DEF installs, b, TypeOK, ClientInv
  <2>8. QED
    BY <2>2, <2>3, <2>4, <2>5, <2>6, <2>7
<1> HIDE DEF ShownInv, IdsInv, BuffersInv, ClientInv, TypeOK
<1> QED
  BY <1>1, <1>2, <1>3, <1>4, <1>5, <1>6, <1>7, <1>8, <1>9 DEF ClientStep

(* A client attaches only what it holds, once. *)
LEMMA AttachedRequest ==
  ASSUME Orderly, TypeOK, ClientInv, ClientStep
  PROVE  AttachedInv'
<1> USE NullAssumption DEF ClientInv, IdsInv, BuffersInv, Orderly, OneOwner, Request, AttachedInv, TablesInv, LiveInv, ShownInv,
         NoSurface, clientVars, queueVars,
         TypeOK, ClientType, TableType, QueueType, Surface, Entry
<1>1. ASSUME NEW fd \in Fd, Connect(fd) PROVE AttachedInv'
  BY <1>1 DEF Connect, Serving
<1>2. ASSUME NEW fd \in Fd, Disconnect(fd) PROVE AttachedInv'
  BY <1>2 DEF Disconnect, Serving
<1>3. ASSUME NEW fd \in Fd, NEW i \in Id, CreateBuffer(fd, i) PROVE AttachedInv'
  BY <1>3 DEF CreateBuffer
<1>4. ASSUME NEW fd \in Fd, NEW i \in Id, DestroyBuffer(fd, i) PROVE AttachedInv'
  BY <1>4 DEF DestroyBuffer
<1>5. ASSUME NEW fd \in Fd, NEW s \in Surf, CreateSurface(fd, s) PROVE AttachedInv'
  BY <1>5 DEF CreateSurface, NewSurface
<1>6. ASSUME NEW fd \in Fd, NEW s \in Surf, DestroySurface(fd, s) PROVE AttachedInv'
  BY <1>6 DEF DestroySurface, CurrentOf
<1>7. ASSUME NEW fd \in Fd, NEW s \in Surf, NEW b \in Id \cup {Null}, Attach(fd, s, b) PROVE AttachedInv'
  BY <1>7 DEF Attach
<1>8. ASSUME NEW fd \in Fd, NEW s \in Surf, NEW i \in Id, Frame(fd, s, i) PROVE AttachedInv'
  BY <1>8 DEF Frame
<1>9. ASSUME NEW fd \in Fd, NEW s \in Surf, NEW damaged \in BOOLEAN, Commit(fd, s, damaged) PROVE AttachedInv'
  BY <1>9 DEF Commit, Committed, Replaced, CurrentOf, LiveBuffer
<1> HIDE DEF AttachedInv, IdsInv, BuffersInv, ClientInv, TypeOK
<1> QED
  BY <1>1, <1>2, <1>3, <1>4, <1>5, <1>6, <1>7, <1>8, <1>9 DEF ClientStep

(* Queued callbacks are callbacks. *)
LEMMA CallbackRequest ==
  ASSUME OneOwner, TypeOK, IdsInv, ClientStep
  PROVE  CallbackInv'
<1> USE NullAssumption DEF IdsInv, OneOwner, Request, CallbackInv, TablesInv, FramesInv, ClosedInv,
         NoSurface, clientVars, queueVars,
         TypeOK, ClientType, TableType, QueueType, Surface, Entry
<1>1. ASSUME NEW fd \in Fd, Connect(fd) PROVE CallbackInv'
  BY <1>1 DEF Connect, Serving
<1>2. ASSUME NEW fd \in Fd, Disconnect(fd) PROVE CallbackInv'
  BY <1>2 DEF Disconnect, Serving
<1>3. ASSUME NEW fd \in Fd, NEW i \in Id, CreateBuffer(fd, i) PROVE CallbackInv'
  BY <1>3 DEF CreateBuffer
<1>4. ASSUME NEW fd \in Fd, NEW i \in Id, DestroyBuffer(fd, i) PROVE CallbackInv'
  BY <1>4 DEF DestroyBuffer
<1>5. ASSUME NEW fd \in Fd, NEW s \in Surf, CreateSurface(fd, s) PROVE CallbackInv'
  BY <1>5 DEF CreateSurface, NewSurface
<1>6. ASSUME NEW fd \in Fd, NEW s \in Surf, DestroySurface(fd, s) PROVE CallbackInv'
  BY <1>6 DEF DestroySurface, CurrentOf
<1>7. ASSUME NEW fd \in Fd, NEW s \in Surf, NEW b \in Id \cup {Null}, Attach(fd, s, b) PROVE CallbackInv'
  BY <1>7 DEF Attach
<1>8. ASSUME NEW fd \in Fd, NEW s \in Surf, NEW i \in Id, Frame(fd, s, i) PROVE CallbackInv'
  BY <1>8 DEF Frame
<1>9. ASSUME NEW fd \in Fd, NEW s \in Surf, NEW damaged \in BOOLEAN, Commit(fd, s, damaged) PROVE CallbackInv'
  BY <1>9 DEF Commit, Committed, Replaced, CurrentOf, LiveBuffer
<1> HIDE DEF CallbackInv, IdsInv, TypeOK
<1> QED
  BY <1>1, <1>2, <1>3, <1>4, <1>5, <1>6, <1>7, <1>8, <1>9 DEF ClientStep

(* A callback id is asked for once. *)
LEMMA FramesRequest ==
  ASSUME OneOwner, TypeOK, IdsInv, ClientStep
  PROVE  FramesInv'
<1> USE NullAssumption DEF IdsInv, OneOwner, Request, FramesInv, TablesInv, LiveInv, CallbackInv, ClosedInv,
         NoSurface, clientVars, queueVars,
         TypeOK, ClientType, TableType, QueueType, Surface, Entry
<1>1. ASSUME NEW fd \in Fd, Connect(fd) PROVE FramesInv'
  BY <1>1 DEF Connect, Serving
<1>2. ASSUME NEW fd \in Fd, Disconnect(fd) PROVE FramesInv'
  BY <1>2 DEF Disconnect, Serving
<1>3. ASSUME NEW fd \in Fd, NEW i \in Id, CreateBuffer(fd, i) PROVE FramesInv'
  BY <1>3 DEF CreateBuffer
<1>4. ASSUME NEW fd \in Fd, NEW i \in Id, DestroyBuffer(fd, i) PROVE FramesInv'
  BY <1>4 DEF DestroyBuffer
<1>5. ASSUME NEW fd \in Fd, NEW s \in Surf, CreateSurface(fd, s) PROVE FramesInv'
  BY <1>5 DEF CreateSurface, NewSurface
<1>6. ASSUME NEW fd \in Fd, NEW s \in Surf, DestroySurface(fd, s) PROVE FramesInv'
  BY <1>6 DEF DestroySurface, CurrentOf
<1>7. ASSUME NEW fd \in Fd, NEW s \in Surf, NEW b \in Id \cup {Null}, Attach(fd, s, b) PROVE FramesInv'
  BY <1>7 DEF Attach
<1>8. ASSUME NEW fd \in Fd, NEW s \in Surf, NEW i \in Id, Frame(fd, s, i) PROVE FramesInv'
  BY <1>8 DEF Frame
<1>9. ASSUME NEW fd \in Fd, NEW s \in Surf, NEW damaged \in BOOLEAN, Commit(fd, s, damaged) PROVE FramesInv'
  BY <1>9 DEF Commit, Committed, Replaced, CurrentOf, LiveBuffer
<1> HIDE DEF FramesInv, IdsInv, TypeOK
<1> QED
  BY <1>1, <1>2, <1>3, <1>4, <1>5, <1>6, <1>7, <1>8, <1>9 DEF ClientStep

(* A commit queues the release of a buffer nothing shows any more. *)
LEMMA ReleaseRequest ==
  ASSUME Orderly, TypeOK, ClientInv, ClientStep
  PROVE  ReleaseInv'
<1> USE NullAssumption DEF ClientInv, IdsInv, BuffersInv, Orderly, OneOwner, Request, ReleaseInv, TablesInv, ShownInv, LiveInv, AttachedInv, ClosedInv, Replaced, CurrentOf,
         NoSurface, clientVars, queueVars,
         TypeOK, ClientType, TableType, QueueType, Surface, Entry
<1>1. ASSUME NEW fd \in Fd, Connect(fd) PROVE ReleaseInv'
  BY <1>1 DEF Connect, Serving
<1>2. ASSUME NEW fd \in Fd, Disconnect(fd) PROVE ReleaseInv'
  BY <1>2 DEF Disconnect, Serving
<1>3. ASSUME NEW fd \in Fd, NEW i \in Id, CreateBuffer(fd, i) PROVE ReleaseInv'
  BY <1>3 DEF CreateBuffer
<1>4. ASSUME NEW fd \in Fd, NEW i \in Id, DestroyBuffer(fd, i) PROVE ReleaseInv'
  BY <1>4 DEF DestroyBuffer
<1>5. ASSUME NEW fd \in Fd, NEW s \in Surf, CreateSurface(fd, s) PROVE ReleaseInv'
  BY <1>5 DEF CreateSurface, NewSurface
<1>6. ASSUME NEW fd \in Fd, NEW s \in Surf, DestroySurface(fd, s) PROVE ReleaseInv'
  BY <1>6 DEF DestroySurface
<1>7. ASSUME NEW fd \in Fd, NEW s \in Surf, NEW b \in Id \cup {Null}, Attach(fd, s, b) PROVE ReleaseInv'
  BY <1>7 DEF Attach
<1>8. ASSUME NEW fd \in Fd, NEW s \in Surf, NEW i \in Id, Frame(fd, s, i) PROVE ReleaseInv'
  BY <1>8 DEF Frame
<1>9. ASSUME NEW fd \in Fd, NEW s \in Surf, NEW damaged \in BOOLEAN, Commit(fd, s, damaged) PROVE ReleaseInv'
  BY <1>9 DEF Commit, Committed, LiveBuffer
<1> HIDE DEF ReleaseInv, IdsInv, BuffersInv, ClientInv, TypeOK
<1> QED
  BY <1>1, <1>2, <1>3, <1>4, <1>5, <1>6, <1>7, <1>8, <1>9 DEF ClientStep

-----------------------------------------------------------------------------
(* What every step that is not a request does to the clients: nothing, but *)
(* send the releases r and the callbacks c of the queues and forget them.  *)
Flushes(r, c) ==
  /\ r \subseteq buffer_release \cup in_flight_buffer_release
  /\ c \in {{}, frame_done}
  /\ UNCHANGED <<clients, closed, surf>>
  /\ FlushQueues(r, c) \/ (r = {} /\ c = {} /\ UNCHANGED <<role, view>>)
  /\ frame_done' = frame_done \ c
  /\ buffer_release' \cup in_flight_buffer_release' \subseteq
       buffer_release \cup in_flight_buffer_release
  /\ (buffer_release \cup in_flight_buffer_release) \ r \subseteq
       buffer_release' \cup in_flight_buffer_release'
  /\ buffer_release \cap in_flight_buffer_release = {} =>
       /\ buffer_release' \cap in_flight_buffer_release' = {}
       /\ buffer_release' \cup in_flight_buffer_release' =
            (buffer_release \cup in_flight_buffer_release) \ r

Quiet == SessionStep \/ DispatchEvents \/ Vblank \/ GraceElapses \/ LoopStep \/ UNCHANGED vars

(* A step of the session, the kernel or the loop is such a flush. *)
LEMMA QuietFlushes ==
  ASSUME Quiet
  PROVE  \E r, c : Flushes(r, c)
<1> DEFINE Some == \E r, c : Flushes(r, c)
<1> USE DEF Flushes, clientVars, queueVars
<1>1. ASSUME FlushInFlight, UNCHANGED <<clients, closed, surf>> PROVE Some
  <2>1. Flushes(in_flight_buffer_release, {})
    BY <1>1 DEF FlushInFlight
  <2>2. QED
    BY <2>1
<1>2. ASSUME FinishOrDefer, UNCHANGED <<clients, closed, surf>> PROVE Some
  <2>1. CASE flip' # "none"
    <3>1. Flushes({}, frame_done)
      BY <1>2, <2>1 DEF FinishOrDefer
    <3>2. QED
      BY <3>1
  <2>2. CASE flip' = "none"
    <3>1. Flushes(buffer_release, frame_done)
      BY <1>2, <2>2 DEF FinishOrDefer
    <3>2. QED
      BY <3>1
  <2>3. QED
    BY <2>1, <2>2
<1>3. ASSUME UNCHANGED <<clients, closed, surf, role, view, queueVars>> PROVE Some
  <2>1. Flushes({}, {})
    BY <1>3
  <2>2. QED
    BY <2>1
<1>4. ASSUME HiddenFrame PROVE Some
  <2>1. Flushes(buffer_release, {})
    BY <1>4 DEF HiddenFrame, AfterFrame
  <2>2. QED
    BY <2>1
<1>5. ASSUME FlushSideEffects PROVE Some
  <2>1. Flushes(buffer_release, frame_done)
    BY <1>5 DEF FlushSideEffects, AfterFrame
  <2>2. QED
    BY <2>1
<1>6. ASSUME PollTop \/ PollAgain \/ DispatchEvents \/ SwitchAway PROVE Some
  BY <1>1, <1>3, <1>6
     DEF PollTop, PollAgain, DispatchEvents, SwitchAway, Poll, CompleteFlip, NoEvents
<1>7. ASSUME Capture \/ CompositeSoftware \/ CompositeGpu \/ CompositeDirect \/ RepaintCursor PROVE Some
  BY <1>2, <1>7
     DEF Capture, CompositeSoftware, CompositeGpu, CompositeDirect, RepaintCursor, AfterFrame
<1>8. ASSUME \/ SwitchBack \/ AskScreenshot \/ MovePointer \/ Vblank \/ GraceElapses
             \/ Timeout \/ NoCapture \/ RepaintCursorFails \/ HoldFrame \/ UNCHANGED vars
      PROVE  Some
  BY <1>3, <1>8
     DEF SwitchBack, AskScreenshot, MovePointer, Vblank, GraceElapses, Timeout, NoCapture,
         RepaintCursorFails, HoldFrame, AfterFrame, NoEvents, vars
<1>9. QED
  BY <1>4, <1>5, <1>6, <1>7, <1>8 DEF Quiet, SessionStep, LoopStep, Draw

(* What a flush makes of one object id. *)
LEMMA FlushValue ==
  ASSUME NEW r, NEW c, Flushes(r, c), TypeOK, NEW fd \in Fd, NEW i \in Id
  PROVE  /\ role'[fd][i] = IF <<fd, i>> \in c /\ fd \in clients THEN "none" ELSE role[fd][i]
         /\ view'[fd][i] =
              IF <<fd, i>> \in c /\ fd \in clients THEN "none"
              ELSE IF <<fd, i>> \in r /\ fd \in clients /\ role[fd][i] = "buffer" THEN "idle"
              ELSE view[fd][i]
<1>1. CASE FlushQueues(r, c)
  BY <1>1 DEF FlushQueues, Fired, Released, LiveBuffer
<1>2. CASE r = {} /\ c = {} /\ UNCHANGED <<role, view>>
  BY <1>2
<1>3. QED
  BY <1>1, <1>2 DEF Flushes

(* It takes no buffer out of the object table. *)
LEMMA FlushKeepsBuffers ==
  ASSUME NEW r, NEW c, Flushes(r, c), TypeOK, IdsInv, NEW fd \in Fd, NEW i \in Id
  PROVE  role'[fd][i] = "buffer" <=> role[fd][i] = "buffer"
<1>1. role'[fd][i] = IF <<fd, i>> \in c /\ fd \in clients THEN "none" ELSE role[fd][i]
  BY FlushValue
<1>2. c \subseteq frame_done
  BY DEF Flushes
<1>3. QED
  BY <1>1, <1>2 DEF IdsInv, TablesInv, CallbackInv

(* A flush keeps the object tables: what it fires are callbacks.           *)
LEMMA FlushKeepsIdsInv ==
  ASSUME NEW r, NEW c, Flushes(r, c), TypeOK, IdsInv
  PROVE  IdsInv'
<1> DEFINE Fires(fd, i) == <<fd, i>> \in c /\ fd \in clients
           Frees(fd, i) == <<fd, i>> \in r /\ fd \in clients /\ role[fd][i] = "buffer"
<1>1. \A fd \in Fd : \A i \in Id :
        /\ role'[fd][i] = IF Fires(fd, i) THEN "none" ELSE role[fd][i]
        /\ view'[fd][i] = IF Fires(fd, i) THEN "none"
                         ELSE IF Frees(fd, i) THEN "idle" ELSE view[fd][i]
  BY FlushValue
<1>2. \A fd \in Fd : \A i \in Id : Fires(fd, i) => view[fd][i] = "callback"
  BY DEF Flushes, IdsInv, CallbackInv
<1>3. \A fd \in Fd : \A i \in Id : Frees(fd, i) => view[fd][i] \in {"idle", "held"} /\ fd \in clients
  BY DEF IdsInv, TablesInv
<1>4. UNCHANGED <<clients, closed, surf>>
  BY DEF Flushes
<1>5. c \in {{}, frame_done} /\ frame_done' = frame_done \ c
  BY DEF Flushes
<1> HIDE DEF Fires, Frees
<1>6. TablesInv'
  BY <1>1, <1>2, <1>3, <1>4 DEF TablesInv, IdsInv
<1>7. ClosedInv'
  BY DEF Flushes, ClosedInv, IdsInv
<1>8. LiveInv'
  BY <1>4 DEF LiveInv, IdsInv
<1>9. CallbackInv'
  BY <1>1, <1>2, <1>3, <1>4, <1>5 DEF CallbackInv, IdsInv, Fires, Frees
<1>10. FramesInv'
  BY <1>1, <1>2, <1>3, <1>4, <1>5 DEF FramesInv, IdsInv, Fires
<1>11. QED
  BY <1>6, <1>7, <1>8, <1>9, <1>10 DEF IdsInv

(* It keeps the buffers' part of the invariant: what it releases is shown  *)
(* by no surface.                                                          *)
LEMMA FlushKeepsBuffersInv ==
  ASSUME NEW r, NEW c, Flushes(r, c), TypeOK, ClientInv
  PROVE  BuffersInv'
<1> DEFINE Fires(fd, i) == <<fd, i>> \in c /\ fd \in clients
           Frees(fd, i) == <<fd, i>> \in r /\ fd \in clients /\ role[fd][i] = "buffer"
<1>1. \A fd \in Fd : \A i \in Id :
        /\ role'[fd][i] = IF Fires(fd, i) THEN "none" ELSE role[fd][i]
        /\ view'[fd][i] = IF Fires(fd, i) THEN "none"
                         ELSE IF Frees(fd, i) THEN "idle" ELSE view[fd][i]
  BY FlushValue
<1>2. \A fd \in Fd : \A i \in Id : Fires(fd, i) => view[fd][i] = "callback"
  BY DEF Flushes, ClientInv, IdsInv, CallbackInv
<1>3. \A fd \in Fd : \A i \in Id : Frees(fd, i) =>
        view[fd][i] = "held" /\ \A s \in Surf : surf[fd][s].cur # i
  BY DEF Flushes, ClientInv, BuffersInv, ReleaseInv, IdsInv, TablesInv
<1>4. \A fd \in Fd : \A s \in Surf : surf[fd][s] \in Surface
  BY DEF TypeOK, ClientType
<1>5. UNCHANGED <<clients, closed, surf>>
  BY DEF Flushes
<1> HIDE DEF Fires, Frees
<1>6. ShownInv'
  BY <1>1, <1>2, <1>3, <1>4, <1>5 DEF ShownInv, ClientInv, BuffersInv, Surface
<1>7. AttachedInv'
  BY <1>1, <1>2, <1>3, <1>4, <1>5 DEF AttachedInv, ClientInv, BuffersInv, Surface
<1>8. ReleaseInv'
  <2>1. /\ buffer_release' \cap in_flight_buffer_release' = {}
        /\ buffer_release' \cup in_flight_buffer_release' =
             (buffer_release \cup in_flight_buffer_release) \ r
    BY DEF Flushes, ClientInv, BuffersInv, ReleaseInv
  <2>2. QED
    BY <1>1, <1>2, <1>5, <2>1 DEF ReleaseInv, ClientInv, BuffersInv, Frees
<1>9. QED
  BY <1>6, <1>7, <1>8 DEF BuffersInv

(* A flush frees no id that ever named a buffer.                           *)
LEMMA FlushKeepsIds ==
  ASSUME NEW r, NEW c, Flushes(r, c), TypeOK, IdsInv, NEW fd \in Fd, NEW i \in Id,
         view[fd][i] \in {"idle", "held", "zombie"}
  PROVE  view'[fd][i] \in {"idle", "held", "zombie"}
<1>1. ~(<<fd, i>> \in c /\ fd \in clients)
  BY DEF Flushes, IdsInv, CallbackInv
<1>2. QED
  BY <1>1, FlushValue

(* A window's buffer is held by the server, or destroyed. *)
LEMMA WindowsKnown ==
  ASSUME TypeOK, ClientInv, NullAssumption, NEW fd \in Fd, NEW i \in Id, <<fd, i>> \in Windows
  PROVE  fd \in clients /\ view[fd][i] \in {"held", "zombie"}
<1>1. PICK s \in Surf : surf[fd][s].cur = i
  BY DEF Windows
<1>2. i # Null
  BY NullAssumption
<1>3. QED
  BY <1>1, <1>2 DEF ClientInv, IdsInv, BuffersInv, LiveInv, ShownInv, NoSurface

(* A frame shows the compositor's own picture or a window's buffer. *)
Frames(t) ==
  /\ active /\ ~Busy
  /\ Show(t) \/ (direct = t /\ UNCHANGED kmsVars)
  /\ FinishOrDefer
  /\ UNCHANGED <<clients, closed, surf>>

(* Every composite is such a frame: where flips can fail no client buffer  *)
(* is imported, so a frame that shows nothing leaves the compositor's own. *)
LEMMA DrawFrames ==
  ASSUME Orderly, KmsInv,
         CompositeSoftware \/ CompositeGpu \/ CompositeDirect \/ RepaintCursor
  PROVE  \E t \in Windows \cup {Own} : Frames(t)
<1>1. "fail" \in Allow => direct = Own
  BY DEF Orderly, KmsInv
<1>2. QED
  BY <1>1 DEF CompositeSoftware, CompositeGpu, CompositeDirect, RepaintCursor, Frames,
              MayDraw, ShowNothing, AfterFrame

(* After a frame, a client buffer is on the screen because it is a         *)
(* window's, or until the flip that was just queued.                       *)
LEMMA FrameScreen ==
  ASSUME TypeOK, ClientInv, DisplayInv, NEW t \in Windows \cup {Own}, Frames(t),
         \A fd \in Fd : \A i \in Id : role'[fd][i] = "buffer" <=> role[fd][i] = "buffer"
  PROVE  ScreenInv'
<1>1. Windows' = Windows
  BY DEF Frames, Windows
<1>2. \A fd \in Fd : \A i \in Id : <<fd, i>> # Own
  BY OwnAssumption
<1>3. flip = "none" /\ pending = Own /\ onscreen = direct
  BY DEF Frames, Busy, DisplayInv, KmsInv
<1>4. CASE direct = t /\ UNCHANGED kmsVars
  BY <1>1, <1>2, <1>3, <1>4 DEF ScreenInv, kmsVars
<1>5. CASE Show(t) /\ flip' = "queued"
  <2>1. pending' = t /\ onscreen' = onscreen
    BY <1>3, <1>5 DEF Show
  <2>2. buffer_release \subseteq in_flight_buffer_release'
    BY <1>5 DEF Frames, FinishOrDefer
  <2>3. QED
    BY <1>1, <1>2, <1>3, <1>5, <2>1, <2>2 DEF ScreenInv, DisplayInv
<1>6. CASE Show(t) /\ flip' # "queued"
  BY <1>1, <1>2, <1>3, <1>6 DEF ScreenInv, Show
<1>7. QED
  BY <1>4, <1>5, <1>6 DEF Frames

(* A frame makes no unknown id known to the backend.                       *)
LEMMA FrameKnown ==
  ASSUME TypeOK, ClientInv, DisplayInv, NEW t \in Windows \cup {Own}, Frames(t),
         retained' \in {retained, {}, Windows},
         \A fd \in Fd : \A i \in Id : view[fd][i] \in {"idle", "held", "zombie"}
                                  => view'[fd][i] \in {"idle", "held", "zombie"}
  PROVE  KnownInv'
<1>1. {onscreen', pending', direct'} \subseteq {onscreen, pending, direct} \cup Windows \cup {Own}
  BY DEF Frames, Show, kmsVars
<1>2. \A fd \in Fd : \A i \in Id : <<fd, i>> # Own
  BY OwnAssumption
<1>3. \A fd \in Fd : \A i \in Id : <<fd, i>> \in Windows =>
        fd \in clients /\ view[fd][i] \in {"idle", "held", "zombie"}
  BY WindowsKnown, NullAssumption
<1>4. UNCHANGED <<clients, closed>>
  BY DEF Frames
<1>5. SUFFICES ASSUME NEW fd \in Fd, NEW i \in Id,
                      <<fd, i>> \in retained' \cup {onscreen', pending', direct'}
               PROVE  fd \in closed \/ (fd \in clients /\ view'[fd][i] \in {"idle", "held", "zombie"})
  BY <1>4 DEF KnownInv
<1>6. <<fd, i>> \in retained \cup {onscreen, pending, direct} \cup Windows
  BY <1>1, <1>2, <1>5
<1>7. QED
  BY <1>3, <1>6 DEF DisplayInv, KnownInv


(* A request frees no id the backend knows.                                *)
LEMMA KnownRequest ==
  ASSUME Orderly, TypeOK, ClientInv, DisplayInv, ClientStep
  PROVE  KnownInv'
<1> USE NullAssumption, OwnAssumption DEF ClientInv, IdsInv, BuffersInv, DisplayInv, Orderly, OneOwner, Request, KnownInv, TablesInv, ClosedInv, AttachedInv,
         NoSurface, clientVars, queueVars, kmsVars,
         TypeOK, ClientType, TableType, QueueType, SceneType, KmsType, Surface, Entry
<1>1. ASSUME NEW fd \in Fd, Connect(fd) PROVE KnownInv'
  <2>1. fd \notin closed /\ fd \notin clients
    BY <1>1 DEF Connect
  <2>2. \A f \in Fd : \A i \in Id :
          /\ role'[f][i] = IF f = fd THEN "none" ELSE role[f][i]
          /\ view'[f][i] = IF f = fd THEN "none" ELSE view[f][i]
    BY <1>1 DEF Connect
  <2>3. \A f \in Fd : \A s \in Surf : surf'[f][s] = IF f = fd THEN NoSurface ELSE surf[f][s]
    BY <1>1 DEF Connect
  <2>4. /\ UNCHANGED <<closed, queueVars, sceneVars, kmsVars>>
        /\ clients' = clients \cup {fd}
    BY <1>1 DEF Connect
  <2> HIDE DEF TypeOK
  <2>5. QED
    BY <2>1, <2>2, <2>3, <2>4 DEF sceneVars
<1>2. ASSUME NEW fd \in Fd, Disconnect(fd) PROVE KnownInv'
  BY <1>2 DEF Disconnect, Serving
<1>3. ASSUME NEW fd \in Fd, NEW i \in Id, CreateBuffer(fd, i) PROVE KnownInv'
  BY <1>3 DEF CreateBuffer
<1>4. ASSUME NEW fd \in Fd, NEW i \in Id, DestroyBuffer(fd, i) PROVE KnownInv'
  BY <1>4 DEF DestroyBuffer
<1>5. ASSUME NEW fd \in Fd, NEW s \in Surf, CreateSurface(fd, s) PROVE KnownInv'
  BY <1>5 DEF CreateSurface, NewSurface
<1>6. ASSUME NEW fd \in Fd, NEW s \in Surf, DestroySurface(fd, s) PROVE KnownInv'
  BY <1>6 DEF DestroySurface, CurrentOf
<1>7. ASSUME NEW fd \in Fd, NEW s \in Surf, NEW b \in Id \cup {Null}, Attach(fd, s, b) PROVE KnownInv'
  BY <1>7 DEF Attach
<1>8. ASSUME NEW fd \in Fd, NEW s \in Surf, NEW i \in Id, Frame(fd, s, i) PROVE KnownInv'
  BY <1>8 DEF Frame
<1>9. ASSUME NEW fd \in Fd, NEW s \in Surf, NEW damaged \in BOOLEAN, Commit(fd, s, damaged) PROVE KnownInv'
  BY <1>9 DEF Commit, Committed, Replaced, CurrentOf, LiveBuffer
<1> HIDE DEF DisplayInv, ClientInv, IdsInv, BuffersInv, TypeOK, KnownInv
<1> QED
  BY <1>1, <1>2, <1>3, <1>4, <1>5, <1>6, <1>7, <1>8, <1>9 DEF ClientStep

(* No step of the loop, the session or the kernel brings one in.           *)
LEMMA KnownQuiet ==
  ASSUME Orderly, TypeOK, ClientInv, DisplayInv, Quiet
  PROVE  KnownInv'
<1>1. PICK r, c : Flushes(r, c)
  BY QuietFlushes
<1>2. \A fd \in Fd : \A i \in Id : role'[fd][i] = "buffer" <=> role[fd][i] = "buffer"
  BY <1>1, FlushKeepsBuffers DEF ClientInv
<1>3. UNCHANGED <<clients, closed, surf>>
  BY <1>1 DEF Flushes
<1>4. Windows' = Windows
  BY <1>3 DEF Windows
<1>5. \A fd \in Fd : \A i \in Id : <<fd, i>> # Own
  BY OwnAssumption
<1>6. \A fd \in Fd : \A i \in Id :
        view[fd][i] \in {"idle", "held", "zombie"} => view'[fd][i] \in {"idle", "held", "zombie"}
  BY <1>1, FlushKeepsIds DEF ClientInv
<1> USE <1>2, <1>3, <1>4, <1>5, <1>6 DEF ClientInv, IdsInv, BuffersInv, DisplayInv, Orderly, OneOwner, KnownInv, TablesInv, ShownInv, LiveInv, KmsInv, TypeOK, QueueType, SceneType, KmsType, Entry,
       clientVars, queueVars, sceneVars, kmsVars
<1>7. ASSUME SwitchAway PROVE KnownInv'
  BY <1>7 DEF SwitchAway, Serving, FlushInFlight
<1>8. ASSUME SwitchBack PROVE KnownInv'
  BY <1>8 DEF SwitchBack, Serving
<1>9. ASSUME AskScreenshot PROVE KnownInv'
  BY <1>9 DEF AskScreenshot, Serving
<1>10. ASSUME MovePointer PROVE KnownInv'
  BY <1>10 DEF MovePointer, Serving
<1>11. ASSUME DispatchEvents PROVE KnownInv'
  BY <1>11 DEF DispatchEvents, Serving, CompleteFlip, FlushInFlight, NoEvents
<1>12. ASSUME Vblank PROVE KnownInv'
  BY <1>12 DEF Vblank
<1>13. ASSUME GraceElapses PROVE KnownInv'
  BY <1>13 DEF GraceElapses
<1>14. ASSUME PollTop PROVE KnownInv'
  BY <1>14 DEF PollTop, Poll, CompleteFlip, FlushInFlight, NoEvents
<1>15. ASSUME Timeout PROVE KnownInv'
  BY <1>15 DEF Timeout
<1>16. ASSUME PollAgain PROVE KnownInv'
  BY <1>16 DEF PollAgain, Poll, CompleteFlip, FlushInFlight, NoEvents
<1>17. ASSUME Capture PROVE KnownInv'
  BY <1>17 DEF Capture, ShowNothing, Show, Busy, FinishOrDefer
<1>18. ASSUME NoCapture PROVE KnownInv'
  BY <1>18 DEF NoCapture
<1>19. ASSUME CompositeSoftware PROVE KnownInv'
  <2>1. PICK t \in Windows \cup {Own} : Frames(t)
    BY <1>19, DrawFrames
  <2>2. retained' \in {retained, {}, Windows}
    BY <1>19 DEF CompositeSoftware
  <2>3. QED
    BY <1>6, <2>1, <2>2, FrameKnown
<1>20. ASSUME CompositeGpu PROVE KnownInv'
  <2>1. PICK t \in Windows \cup {Own} : Frames(t)
    BY <1>20, DrawFrames
  <2>2. retained' \in {retained, {}, Windows}
    BY <1>20 DEF CompositeGpu
  <2>3. QED
    BY <1>6, <2>1, <2>2, FrameKnown
<1>21. ASSUME CompositeDirect PROVE KnownInv'
  <2>1. PICK t \in Windows \cup {Own} : Frames(t)
    BY <1>21, DrawFrames
  <2>2. retained' \in {retained, {}, Windows}
    BY <1>21 DEF CompositeDirect
  <2>3. QED
    BY <1>6, <2>1, <2>2, FrameKnown
<1>22. ASSUME RepaintCursor PROVE KnownInv'
  <2>1. PICK t \in Windows \cup {Own} : Frames(t)
    BY <1>22, DrawFrames
  <2>2. retained' \in {retained, {}, Windows}
    BY <1>22 DEF RepaintCursor
  <2>3. QED
    BY <1>6, <2>1, <2>2, FrameKnown
<1>23. ASSUME RepaintCursorFails PROVE KnownInv'
  BY <1>23 DEF RepaintCursorFails, MayDraw, Busy, NoEvents, AfterFrame
<1>24. ASSUME FlushSideEffects PROVE KnownInv'
  BY <1>24 DEF FlushSideEffects, MayDraw, Busy, AfterFrame
<1>25. ASSUME HoldFrame PROVE KnownInv'
  BY <1>25 DEF HoldFrame
<1>26. ASSUME HiddenFrame PROVE KnownInv'
  BY <1>26 DEF HiddenFrame, AfterFrame, Busy
<1>27. ASSUME UNCHANGED vars PROVE KnownInv'
  BY <1>27 DEF vars
<1> HIDE DEF DisplayInv, ClientInv, IdsInv, BuffersInv, TypeOK, KnownInv
<1> QED
  BY <1>7, <1>8, <1>9, <1>10, <1>11, <1>12, <1>13, <1>14, <1>15, <1>16, <1>17, <1>18, <1>19, <1>20, <1>21, <1>22, <1>23, <1>24, <1>25, <1>26, <1>27
     DEF Quiet, SessionStep, LoopStep, Draw

(* A request that takes a buffer from a window queues its release.         *)
LEMMA ScreenRequest ==
  ASSUME Orderly, TypeOK, ClientInv, DisplayInv, ClientStep
  PROVE  ScreenInv'
<1> USE NullAssumption, OwnAssumption DEF ClientInv, IdsInv, BuffersInv, DisplayInv, Orderly, OneOwner, Request, ScreenInv, KnownInv, TablesInv, ShownInv, LiveInv, AttachedInv, ClosedInv, ReleaseInv, Windows,
         NoSurface, clientVars, queueVars, kmsVars,
         TypeOK, ClientType, TableType, QueueType, SceneType, KmsType, Surface, Entry
<1>1. ASSUME NEW fd \in Fd, Connect(fd) PROVE ScreenInv'
  <2>1. fd \notin closed /\ fd \notin clients
    BY <1>1 DEF Connect
  <2>2. \A f \in Fd : \A i \in Id :
          /\ role'[f][i] = IF f = fd THEN "none" ELSE role[f][i]
          /\ view'[f][i] = IF f = fd THEN "none" ELSE view[f][i]
    BY <1>1 DEF Connect
  <2>3. \A f \in Fd : \A s \in Surf : surf'[f][s] = IF f = fd THEN NoSurface ELSE surf[f][s]
    BY <1>1 DEF Connect
  <2>4. /\ UNCHANGED <<closed, queueVars, sceneVars, kmsVars>>
        /\ clients' = clients \cup {fd}
    BY <1>1 DEF Connect
  <2> HIDE DEF TypeOK
  <2>5. QED
    BY <2>1, <2>2, <2>3, <2>4 DEF sceneVars
<1>2. ASSUME NEW fd \in Fd, Disconnect(fd) PROVE ScreenInv'
  BY <1>2 DEF Disconnect, Serving
<1>3. ASSUME NEW fd \in Fd, NEW i \in Id, CreateBuffer(fd, i) PROVE ScreenInv'
  BY <1>3 DEF CreateBuffer
<1>4. ASSUME NEW fd \in Fd, NEW i \in Id, DestroyBuffer(fd, i) PROVE ScreenInv'
  BY <1>4 DEF DestroyBuffer
<1>5. ASSUME NEW fd \in Fd, NEW s \in Surf, CreateSurface(fd, s) PROVE ScreenInv'
  BY <1>5 DEF CreateSurface, NewSurface
<1>6. ASSUME NEW fd \in Fd, NEW s \in Surf, DestroySurface(fd, s) PROVE ScreenInv'
  BY <1>6 DEF DestroySurface, CurrentOf
<1>7. ASSUME NEW fd \in Fd, NEW s \in Surf, NEW b \in Id \cup {Null}, Attach(fd, s, b) PROVE ScreenInv'
  BY <1>7 DEF Attach
<1>8. ASSUME NEW fd \in Fd, NEW s \in Surf, NEW i \in Id, Frame(fd, s, i) PROVE ScreenInv'
  BY <1>8 DEF Frame
<1>9. ASSUME NEW fd \in Fd, NEW s \in Surf, NEW damaged \in BOOLEAN, Commit(fd, s, damaged) PROVE ScreenInv'
  BY <1>9 DEF Commit, Committed, Replaced, CurrentOf, LiveBuffer
<1> HIDE DEF DisplayInv, ClientInv, IdsInv, BuffersInv, TypeOK, ScreenInv
<1> QED
  BY <1>1, <1>2, <1>3, <1>4, <1>5, <1>6, <1>7, <1>8, <1>9 DEF ClientStep

(* A release is sent only when its buffer has left the screen.             *)
LEMMA ScreenQuiet ==
  ASSUME Orderly, TypeOK, ClientInv, DisplayInv, Quiet
  PROVE  ScreenInv'
<1>1. PICK r, c : Flushes(r, c)
  BY QuietFlushes
<1>2. \A fd \in Fd : \A i \in Id : role'[fd][i] = "buffer" <=> role[fd][i] = "buffer"
  BY <1>1, FlushKeepsBuffers DEF ClientInv
<1>3. UNCHANGED <<clients, closed, surf>>
  BY <1>1 DEF Flushes
<1>4. Windows' = Windows
  BY <1>3 DEF Windows
<1>5. \A fd \in Fd : \A i \in Id : <<fd, i>> # Own
  BY OwnAssumption
<1>6. \A fd \in Fd : \A i \in Id :
        view[fd][i] \in {"idle", "held", "zombie"} => view'[fd][i] \in {"idle", "held", "zombie"}
  BY <1>1, FlushKeepsIds DEF ClientInv
<1> USE <1>2, <1>3, <1>4, <1>5, <1>6 DEF ClientInv, IdsInv, BuffersInv, DisplayInv, Orderly, OneOwner, ScreenInv, KmsInv, ReleaseInv, TypeOK, QueueType, SceneType, KmsType, Entry,
       clientVars, queueVars, sceneVars, kmsVars
<1>7. ASSUME SwitchAway PROVE ScreenInv'
  BY <1>7 DEF SwitchAway, Serving, FlushInFlight
<1>8. ASSUME SwitchBack PROVE ScreenInv'
  BY <1>8 DEF SwitchBack, Serving
<1>9. ASSUME AskScreenshot PROVE ScreenInv'
  BY <1>9 DEF AskScreenshot, Serving
<1>10. ASSUME MovePointer PROVE ScreenInv'
  BY <1>10 DEF MovePointer, Serving
<1>11. ASSUME DispatchEvents PROVE ScreenInv'
  BY <1>11 DEF DispatchEvents, Serving, CompleteFlip, FlushInFlight, NoEvents
<1>12. ASSUME Vblank PROVE ScreenInv'
  BY <1>12 DEF Vblank
<1>13. ASSUME GraceElapses PROVE ScreenInv'
  BY <1>13 DEF GraceElapses
<1>14. ASSUME PollTop PROVE ScreenInv'
  BY <1>14 DEF PollTop, Poll, CompleteFlip, FlushInFlight, NoEvents
<1>15. ASSUME Timeout PROVE ScreenInv'
  BY <1>15 DEF Timeout
<1>16. ASSUME PollAgain PROVE ScreenInv'
  BY <1>16 DEF PollAgain, Poll, CompleteFlip, FlushInFlight, NoEvents
<1>17. ASSUME Capture PROVE ScreenInv'
  BY <1>17 DEF Capture, ShowNothing, Show, Busy, FinishOrDefer
<1>18. ASSUME NoCapture PROVE ScreenInv'
  BY <1>18 DEF NoCapture
<1>19. ASSUME CompositeSoftware PROVE ScreenInv'
  <2>1. PICK t \in Windows \cup {Own} : Frames(t)
    BY <1>19, DrawFrames
  <2>2. QED
    BY <1>2, <2>1, FrameScreen
<1>20. ASSUME CompositeGpu PROVE ScreenInv'
  <2>1. PICK t \in Windows \cup {Own} : Frames(t)
    BY <1>20, DrawFrames
  <2>2. QED
    BY <1>2, <2>1, FrameScreen
<1>21. ASSUME CompositeDirect PROVE ScreenInv'
  <2>1. PICK t \in Windows \cup {Own} : Frames(t)
    BY <1>21, DrawFrames
  <2>2. QED
    BY <1>2, <2>1, FrameScreen
<1>22. ASSUME RepaintCursor PROVE ScreenInv'
  <2>1. PICK t \in Windows \cup {Own} : Frames(t)
    BY <1>22, DrawFrames
  <2>2. QED
    BY <1>2, <2>1, FrameScreen
<1>23. ASSUME RepaintCursorFails PROVE ScreenInv'
  BY <1>23 DEF RepaintCursorFails, MayDraw, Busy, NoEvents, AfterFrame
<1>24. ASSUME FlushSideEffects PROVE ScreenInv'
  BY <1>24 DEF FlushSideEffects, MayDraw, Busy, AfterFrame
<1>25. ASSUME HoldFrame PROVE ScreenInv'
  BY <1>25 DEF HoldFrame
<1>26. ASSUME HiddenFrame PROVE ScreenInv'
  BY <1>26 DEF HiddenFrame, AfterFrame, Busy
<1>27. ASSUME UNCHANGED vars PROVE ScreenInv'
  BY <1>27 DEF vars
<1> HIDE DEF DisplayInv, ClientInv, IdsInv, BuffersInv, TypeOK, ScreenInv
<1> QED
  BY <1>7, <1>8, <1>9, <1>10, <1>11, <1>12, <1>13, <1>14, <1>15, <1>16, <1>17, <1>18, <1>19, <1>20, <1>21, <1>22, <1>23, <1>24, <1>25, <1>26, <1>27
     DEF Quiet, SessionStep, LoopStep, Draw

(* A request that changes the windows asks for a new scene.                *)
LEMMA RetainedRequest ==
  ASSUME Orderly, TypeOK, ClientInv, DisplayInv, ClientStep
  PROVE  RetainedInv'
<1> USE NullAssumption, OwnAssumption DEF ClientInv, IdsInv, BuffersInv, DisplayInv, Orderly, OneOwner, Request, RetainedInv, KnownInv, TablesInv, ShownInv, LiveInv, AttachedInv, ClosedInv, Windows,
         NoSurface, clientVars, queueVars, kmsVars,
         TypeOK, ClientType, TableType, QueueType, SceneType, KmsType, Surface, Entry
<1>1. ASSUME NEW fd \in Fd, Connect(fd) PROVE RetainedInv'
  <2>1. fd \notin closed /\ fd \notin clients
    BY <1>1 DEF Connect
  <2>2. \A f \in Fd : \A i \in Id :
          /\ role'[f][i] = IF f = fd THEN "none" ELSE role[f][i]
          /\ view'[f][i] = IF f = fd THEN "none" ELSE view[f][i]
    BY <1>1 DEF Connect
  <2>3. \A f \in Fd : \A s \in Surf : surf'[f][s] = IF f = fd THEN NoSurface ELSE surf[f][s]
    BY <1>1 DEF Connect
  <2>4. /\ UNCHANGED <<closed, queueVars, sceneVars, kmsVars>>
        /\ clients' = clients \cup {fd}
    BY <1>1 DEF Connect
  <2> HIDE DEF TypeOK
  <2>5. QED
    BY <2>1, <2>2, <2>3, <2>4 DEF sceneVars
<1>2. ASSUME NEW fd \in Fd, Disconnect(fd) PROVE RetainedInv'
  BY <1>2 DEF Disconnect, Serving
<1>3. ASSUME NEW fd \in Fd, NEW i \in Id, CreateBuffer(fd, i) PROVE RetainedInv'
  BY <1>3 DEF CreateBuffer
<1>4. ASSUME NEW fd \in Fd, NEW i \in Id, DestroyBuffer(fd, i) PROVE RetainedInv'
  BY <1>4 DEF DestroyBuffer
<1>5. ASSUME NEW fd \in Fd, NEW s \in Surf, CreateSurface(fd, s) PROVE RetainedInv'
  BY <1>5 DEF CreateSurface, NewSurface
<1>6. ASSUME NEW fd \in Fd, NEW s \in Surf, DestroySurface(fd, s) PROVE RetainedInv'
  BY <1>6 DEF DestroySurface, CurrentOf
<1>7. ASSUME NEW fd \in Fd, NEW s \in Surf, NEW b \in Id \cup {Null}, Attach(fd, s, b) PROVE RetainedInv'
  BY <1>7 DEF Attach
<1>8. ASSUME NEW fd \in Fd, NEW s \in Surf, NEW i \in Id, Frame(fd, s, i) PROVE RetainedInv'
  BY <1>8 DEF Frame
<1>9. ASSUME NEW fd \in Fd, NEW s \in Surf, NEW damaged \in BOOLEAN, Commit(fd, s, damaged) PROVE RetainedInv'
  BY <1>9 DEF Commit, Committed, Replaced, CurrentOf, LiveBuffer
<1> HIDE DEF DisplayInv, ClientInv, IdsInv, BuffersInv, TypeOK, RetainedInv
<1> QED
  BY <1>1, <1>2, <1>3, <1>4, <1>5, <1>6, <1>7, <1>8, <1>9 DEF ClientStep

(* The retained scene is replaced or dropped with every new one.           *)
LEMMA RetainedQuiet ==
  ASSUME Orderly, TypeOK, ClientInv, DisplayInv, Quiet
  PROVE  RetainedInv'
<1>1. PICK r, c : Flushes(r, c)
  BY QuietFlushes
<1>2. \A fd \in Fd : \A i \in Id : role'[fd][i] = "buffer" <=> role[fd][i] = "buffer"
  BY <1>1, FlushKeepsBuffers DEF ClientInv
<1>3. UNCHANGED <<clients, closed, surf>>
  BY <1>1 DEF Flushes
<1>4. Windows' = Windows
  BY <1>3 DEF Windows
<1>5. \A fd \in Fd : \A i \in Id : <<fd, i>> # Own
  BY OwnAssumption
<1>6. \A fd \in Fd : \A i \in Id :
        view[fd][i] \in {"idle", "held", "zombie"} => view'[fd][i] \in {"idle", "held", "zombie"}
  BY <1>1, FlushKeepsIds DEF ClientInv
<1> USE <1>2, <1>3, <1>4, <1>5, <1>6 DEF ClientInv, IdsInv, BuffersInv, DisplayInv, Orderly, OneOwner, RetainedInv, TypeOK, QueueType, SceneType, KmsType, Entry,
       clientVars, queueVars, sceneVars, kmsVars
<1>7. ASSUME SwitchAway PROVE RetainedInv'
  BY <1>7 DEF SwitchAway, Serving, FlushInFlight
<1>8. ASSUME SwitchBack PROVE RetainedInv'
  BY <1>8 DEF SwitchBack, Serving
<1>9. ASSUME AskScreenshot PROVE RetainedInv'
  BY <1>9 DEF AskScreenshot, Serving
<1>10. ASSUME MovePointer PROVE RetainedInv'
  BY <1>10 DEF MovePointer, Serving
<1>11. ASSUME DispatchEvents PROVE RetainedInv'
  BY <1>11 DEF DispatchEvents, Serving, CompleteFlip, FlushInFlight, NoEvents
<1>12. ASSUME Vblank PROVE RetainedInv'
  BY <1>12 DEF Vblank
<1>13. ASSUME GraceElapses PROVE RetainedInv'
  BY <1>13 DEF GraceElapses
<1>14. ASSUME PollTop PROVE RetainedInv'
  BY <1>14 DEF PollTop, Poll, CompleteFlip, FlushInFlight, NoEvents
<1>15. ASSUME Timeout PROVE RetainedInv'
  BY <1>15 DEF Timeout
<1>16. ASSUME PollAgain PROVE RetainedInv'
  BY <1>16 DEF PollAgain, Poll, CompleteFlip, FlushInFlight, NoEvents
<1>17. ASSUME Capture PROVE RetainedInv'
  BY <1>17 DEF Capture, ShowNothing, Show, Busy, FinishOrDefer
<1>18. ASSUME NoCapture PROVE RetainedInv'
  BY <1>18 DEF NoCapture
<1>19. ASSUME CompositeSoftware PROVE RetainedInv'
  BY <1>19 DEF CompositeSoftware, MayDraw, ShowNothing, Show, Busy, FinishOrDefer, AfterFrame
<1>20. ASSUME CompositeGpu PROVE RetainedInv'
  BY <1>20 DEF CompositeGpu, MayDraw, Show, Busy, FinishOrDefer, AfterFrame
<1>21. ASSUME CompositeDirect PROVE RetainedInv'
  BY <1>21 DEF CompositeDirect, MayDraw, Show, Busy, FinishOrDefer, AfterFrame
<1>22. ASSUME RepaintCursor PROVE RetainedInv'
  BY <1>22 DEF RepaintCursor, MayDraw, ShowNothing, Show, Busy, FinishOrDefer, AfterFrame
<1>23. ASSUME RepaintCursorFails PROVE RetainedInv'
  BY <1>23 DEF RepaintCursorFails, MayDraw, Busy, NoEvents, AfterFrame
<1>24. ASSUME FlushSideEffects PROVE RetainedInv'
  BY <1>24 DEF FlushSideEffects, MayDraw, Busy, AfterFrame
<1>25. ASSUME HoldFrame PROVE RetainedInv'
  BY <1>25 DEF HoldFrame
<1>26. ASSUME HiddenFrame PROVE RetainedInv'
  BY <1>26 DEF HiddenFrame, AfterFrame, Busy
<1>27. ASSUME UNCHANGED vars PROVE RetainedInv'
  BY <1>27 DEF vars
<1> HIDE DEF DisplayInv, ClientInv, IdsInv, BuffersInv, TypeOK, RetainedInv
<1> QED
  BY <1>7, <1>8, <1>9, <1>10, <1>11, <1>12, <1>13, <1>14, <1>15, <1>16, <1>17, <1>18, <1>19, <1>20, <1>21, <1>22, <1>23, <1>24, <1>25, <1>26, <1>27
     DEF Quiet, SessionStep, LoopStep, Draw

(* What a flush sends keeps both object tables in their types.             *)
LEMMA FlushType ==
  ASSUME TableType, NEW r, NEW c
  PROVE  /\ Fired(role, c) \in [Fd -> [Id -> {"none", "buffer", "callback"}]]
         /\ Fired(Released(r), c) \in [Fd -> [Id -> {"none", "idle", "held", "zombie", "callback"}]]
BY DEF TableType, Fired, Released

(* Requests leave the backend and what waits for it alone. *)
LEMMA RequestKeeps ==
  ASSUME ClientStep
  PROVE  UNCHANGED <<in_flight_buffer_release, pending_screenshot, path, retained, kmsVars>>
<1> USE DEF Request, queueVars, sceneVars
<1>1. ASSUME NEW fd \in Fd, Connect(fd) \/ Disconnect(fd)
      PROVE  UNCHANGED <<in_flight_buffer_release, pending_screenshot, path, retained, kmsVars>>
  BY <1>1 DEF Connect, Disconnect
<1>2. ASSUME NEW fd \in Fd, NEW i \in Id, CreateBuffer(fd, i) \/ DestroyBuffer(fd, i)
      PROVE  UNCHANGED <<in_flight_buffer_release, pending_screenshot, path, retained, kmsVars>>
  BY <1>2 DEF CreateBuffer, DestroyBuffer
<1>3. ASSUME NEW fd \in Fd, NEW s \in Surf, CreateSurface(fd, s) \/ DestroySurface(fd, s)
      PROVE  UNCHANGED <<in_flight_buffer_release, pending_screenshot, path, retained, kmsVars>>
  BY <1>3 DEF CreateSurface, DestroySurface
<1>4. ASSUME NEW fd \in Fd, NEW s \in Surf, NEW b, Attach(fd, s, b) \/ Frame(fd, s, b) \/ Commit(fd, s, b)
      PROVE  UNCHANGED <<in_flight_buffer_release, pending_screenshot, path, retained, kmsVars>>
  BY <1>4 DEF Attach, Frame, Commit
<1>5. QED
  BY <1>1, <1>2, <1>3, <1>4 DEF ClientStep

(* A surface stays one when a buffer is attached or a callback asked for.  *)
LEMMA SurfaceFieldType ==
  ASSUME NEW S \in Surface
  PROVE  /\ \A b \in Id \cup {Null} : [S EXCEPT !.pend = b] \in Surface
         /\ \A i \in Id : [S EXCEPT !.frames = @ \cup {i}] \in Surface
BY DEF Surface

(* Replacing one surface by another keeps the type of the surfaces.        *)
LEMMA SurfaceUpdateType ==
  ASSUME ClientType, NEW fd \in Fd, NEW s \in Surf, NEW r \in Surface,
         surf' = [surf EXCEPT ![fd][s] = r], UNCHANGED <<clients, fresh, closed>>
  PROVE  ClientType'
BY DEF ClientType

(* A queue entry made from a surface names one of its client's buffers.    *)
LEMMA CurrentOfType ==
  ASSUME ClientType, NEW fd \in Fd, NEW s \in Surf
  PROVE  CurrentOf(fd, s) \subseteq Entry
<1> surf[fd][s] \in Surface
  BY DEF ClientType
<1> QED
  BY DEF CurrentOf, Entry, Surface

(* A request keeps every variable in its type.                             *)
LEMMA RequestType ==
  ASSUME TypeOK, ClientStep
  PROVE  TypeOK'
<1>1. UNCHANGED <<in_flight_buffer_release, pending_screenshot, path, retained, kmsVars>>
  BY RequestKeeps
<1>2. KmsType'
  BY <1>1 DEF TypeOK, KmsType, kmsVars, Entry
<1> DEFINE Typed == ClientType' /\ TableType' /\ QueueType' /\ SceneType'
<1> USE DEF TypeOK, TableType, QueueType, SceneType, queueVars, sceneVars, Request, Serving
<1>3. ASSUME NEW fd \in Fd, Connect(fd) PROVE Typed
  BY <1>3 DEF Connect, ClientType, Surface, NoSurface, Entry
<1>4. ASSUME NEW fd \in Fd, Disconnect(fd) PROVE Typed
  BY <1>4 DEF Disconnect, ClientType, Surface, NoSurface, Entry
<1>5. ASSUME NEW fd \in Fd, NEW i \in Id, CreateBuffer(fd, i) PROVE Typed
  BY <1>5 DEF CreateBuffer, ClientType, Entry
<1>6. ASSUME NEW fd \in Fd, NEW i \in Id, DestroyBuffer(fd, i) PROVE Typed
  BY <1>6 DEF DestroyBuffer, ClientType, Entry
<1>7. ASSUME NEW fd \in Fd, NEW s \in Surf, CreateSurface(fd, s) PROVE Typed
  <2>1. NewSurface \in Surface
    BY DEF NewSurface, Surface
  <2>2. QED
    BY <1>7, <2>1, SurfaceUpdateType DEF CreateSurface, Entry
<1>8. ASSUME NEW fd \in Fd, NEW s \in Surf, DestroySurface(fd, s) PROVE Typed
  <2>1. NoSurface \in Surface
    BY DEF NoSurface, Surface
  <2>2. QED
    BY <1>8, <2>1, SurfaceUpdateType, CurrentOfType DEF DestroySurface, ClientType
<1>9. ASSUME NEW fd \in Fd, NEW s \in Surf, NEW b \in Id \cup {Null}, Attach(fd, s, b) PROVE Typed
  <2>1. [surf[fd][s] EXCEPT !.pend = b] \in Surface
    BY SurfaceFieldType DEF ClientType
  <2>2. surf' = [surf EXCEPT ![fd][s] = [surf[fd][s] EXCEPT !.pend = b]]
    BY <1>9 DEF Attach
  <2>3. ClientType'
    <3>1. UNCHANGED <<clients, fresh, closed>>
      BY <1>9 DEF Attach
    <3>2. QED
      BY <2>1, <2>2, <3>1, SurfaceUpdateType
  <2>4. TableType' /\ QueueType' /\ SceneType'
    BY <1>9 DEF Attach
  <2>5. QED
    BY <2>3, <2>4
<1>10. ASSUME NEW fd \in Fd, NEW s \in Surf, NEW i \in Id, Frame(fd, s, i) PROVE Typed
  <2>1. [surf[fd][s] EXCEPT !.frames = @ \cup {i}] \in Surface
    BY SurfaceFieldType DEF ClientType
  <2>2. surf' = [surf EXCEPT ![fd][s] = [surf[fd][s] EXCEPT !.frames = @ \cup {i}]]
    BY <1>10 DEF Frame
  <2>3. ClientType'
    <3>1. UNCHANGED <<clients, fresh, closed>>
      BY <1>10 DEF Frame
    <3>2. QED
      BY <2>1, <2>2, <3>1, SurfaceUpdateType
  <2>4. TableType' /\ QueueType' /\ SceneType'
    BY <1>10 DEF Frame
  <2>5. QED
    BY <2>3, <2>4
<1>11. ASSUME NEW fd \in Fd, NEW s \in Surf, NEW damaged \in BOOLEAN, Commit(fd, s, damaged) PROVE Typed
  <2> DEFINE installs == surf[fd][s].pend # Keep /\ surf[fd][s].pend # Null
                           /\ LiveBuffer(<<fd, surf[fd][s].pend>>)
  <2>1. surf[fd][s] \in Surface
    BY DEF ClientType
  <2>2. Committed(surf[fd][s], installs) \in Surface
    BY <2>1 DEF Surface, Committed
  <2>3. ClientType'
    BY <1>11, <2>2, SurfaceUpdateType DEF Commit
  <2>4. QueueType' /\ SceneType'
    BY <1>11, <2>1, CurrentOfType DEF Commit, Replaced, Surface, Entry
  <2>5. TableType'
    BY <1>11, <2>1 DEF Commit, Surface
  <2>6. QED
    BY <2>3, <2>4, <2>5
<1>12. QED
  BY <1>2, <1>3, <1>4, <1>5, <1>6, <1>7, <1>8, <1>9, <1>10, <1>11 DEF ClientStep

(* A step of the loop, the session or the kernel leaves the connections    *)
(* alone; the object tables only change by a flush of the queues.          *)
LEMMA QuietTables ==
  ASSUME Quiet
  PROVE  /\ UNCHANGED <<clients, closed, surf>>
         /\ fresh' \in {fresh, {}}
         /\ UNCHANGED <<role, view>> \/ \E r, c : FlushQueues(r, c)
<1> USE DEF vars, clientVars, NoEvents, FlushInFlight, FinishOrDefer, CompleteFlip, AfterFrame
<1>1. CASE SessionStep
  BY <1>1 DEF SessionStep, SwitchAway, SwitchBack, AskScreenshot, MovePointer
<1>2. CASE DispatchEvents \/ Vblank \/ GraceElapses \/ PollTop \/ PollAgain
  BY <1>2 DEF DispatchEvents, Vblank, GraceElapses, PollTop, PollAgain, Poll
<1>3. CASE Capture \/ CompositeSoftware \/ CompositeGpu \/ CompositeDirect \/ RepaintCursor
  BY <1>3 DEF Capture, CompositeSoftware, CompositeGpu, CompositeDirect, RepaintCursor
<1>4. CASE RepaintCursorFails \/ FlushSideEffects \/ HoldFrame \/ HiddenFrame
  BY <1>4 DEF RepaintCursorFails, FlushSideEffects, HoldFrame, HiddenFrame
<1>5. CASE Timeout \/ NoCapture \/ UNCHANGED vars
  BY <1>5 DEF Timeout, NoCapture
<1>6. QED
  BY <1>1, <1>2, <1>3, <1>4, <1>5 DEF Quiet, LoopStep, Draw

(* Such a step keeps the backend's variables in their types.               *)
LEMMA QuietKms ==
  ASSUME TypeOK, Quiet
  PROVE  KmsType'
<1> USE DEF TypeOK, KmsType, kmsVars
<1>1. CASE SwitchAway \/ SwitchBack
  BY <1>1 DEF SwitchAway, SwitchBack
<1>2. CASE DispatchEvents \/ Vblank \/ GraceElapses
  BY <1>2 DEF DispatchEvents, Vblank, GraceElapses, CompleteFlip
<1>3. CASE PollTop \/ PollAgain
  BY <1>3 DEF PollTop, PollAgain, Poll, CompleteFlip
<1>4. CASE Capture \/ CompositeSoftware \/ RepaintCursor
  BY <1>4 DEF Capture, CompositeSoftware, RepaintCursor, ShowNothing, Show
<1>5. CASE CompositeGpu \/ CompositeDirect
  BY <1>5 DEF CompositeGpu, CompositeDirect, Windows, Show
<1>6. CASE \/ AskScreenshot \/ MovePointer \/ RepaintCursorFails \/ FlushSideEffects
           \/ HoldFrame \/ HiddenFrame \/ Timeout \/ NoCapture \/ UNCHANGED vars
  BY <1>6 DEF AskScreenshot, MovePointer, RepaintCursorFails, FlushSideEffects,
              HoldFrame, HiddenFrame, Timeout, NoCapture, vars
<1>7. QED
  BY <1>1, <1>2, <1>3, <1>4, <1>5, <1>6 DEF Quiet, SessionStep, LoopStep, Draw

(* Such a step keeps the queues and the scene in their types.              *)
LEMMA QuietQueues ==
  ASSUME TypeOK, Quiet
  PROVE  QueueType' /\ SceneType'
<1> USE DEF TypeOK, QueueType, SceneType, queueVars, sceneVars, vars
<1>1. CASE SessionStep
  BY <1>1 DEF SessionStep, SwitchAway, SwitchBack, AskScreenshot, MovePointer, FlushInFlight
<1>2. CASE DispatchEvents \/ Vblank \/ GraceElapses
  BY <1>2 DEF DispatchEvents, Vblank, GraceElapses, CompleteFlip, FlushInFlight
<1>3. CASE PollTop \/ PollAgain
  BY <1>3 DEF PollTop, PollAgain, Poll, CompleteFlip, FlushInFlight
<1>4. CASE Capture
  BY <1>4 DEF Capture, FinishOrDefer
<1>5. CASE CompositeSoftware \/ CompositeGpu \/ CompositeDirect \/ RepaintCursor
  BY <1>5 DEF CompositeSoftware, CompositeGpu, CompositeDirect, RepaintCursor, FinishOrDefer,
              AfterFrame, Windows
<1>6. CASE RepaintCursorFails \/ FlushSideEffects \/ HoldFrame \/ HiddenFrame
  BY <1>6 DEF RepaintCursorFails, FlushSideEffects, HoldFrame, HiddenFrame, AfterFrame
<1>7. CASE Timeout \/ NoCapture \/ UNCHANGED vars
  BY <1>7 DEF Timeout, NoCapture
<1>8. QED
  BY <1>1, <1>2, <1>3, <1>4, <1>5, <1>6, <1>7 DEF Quiet, LoopStep, Draw

(* A step of the loop, the session or the kernel keeps every type.         *)
LEMMA QuietType ==
  ASSUME TypeOK, Quiet
  PROVE  TypeOK'
<1>1. ClientType'
  BY QuietTables DEF TypeOK, ClientType
<1>2. TableType'
  BY QuietTables, FlushType DEF TypeOK, TableType, FlushQueues
<1>3. QED
  BY <1>1, <1>2, QuietKms, QuietQueues DEF TypeOK

(* Every step keeps every variable in its type.                            *)
LEMMA TypeStep ==
  ASSUME TypeOK, [Next]_vars
  PROVE  TypeOK'
BY RequestType, QuietType DEF Next, Quiet

-----------------------------------------------------------------------------
(* The backend's variables keep fitting together.                          *)
LEMMA KmsStep ==
  ASSUME TypeOK, KmsInv, [Next]_vars
  PROVE  KmsInv'
<1> USE DEF KmsInv, Busy, kmsVars, queueVars, sceneVars
<1>1. ASSUME ClientStep PROVE KmsInv'
  BY <1>1, RequestKeeps
<1>2. ASSUME SessionStep PROVE KmsInv'
  BY <1>2 DEF SessionStep, SwitchAway, SwitchBack, AskScreenshot, MovePointer, FlushInFlight,
              TypeOK, KmsType
<1>3. ASSUME DispatchEvents PROVE KmsInv'
  BY <1>3 DEF DispatchEvents, CompleteFlip, FlushInFlight, TypeOK, KmsType
<1>4. ASSUME Vblank \/ GraceElapses PROVE KmsInv'
  BY <1>4 DEF Vblank, GraceElapses, TypeOK, KmsType
<1>5. ASSUME PollTop \/ PollAgain PROVE KmsInv'
  BY <1>5 DEF PollTop, PollAgain, Poll, CompleteFlip, FlushInFlight, TypeOK, KmsType
<1>6. ASSUME Capture PROVE KmsInv'
  BY <1>6 DEF Capture, FinishOrDefer, Show, ShowNothing, TypeOK, KmsType
<1>7. ASSUME CompositeSoftware \/ CompositeGpu \/ CompositeDirect \/ RepaintCursor PROVE KmsInv'
  BY <1>7 DEF CompositeSoftware, CompositeGpu, CompositeDirect, RepaintCursor, MayDraw,
              FinishOrDefer, Show, ShowNothing, AfterFrame, TypeOK, KmsType
<1>8. ASSUME \/ Timeout \/ NoCapture \/ RepaintCursorFails \/ FlushSideEffects
             \/ HoldFrame \/ HiddenFrame \/ UNCHANGED vars
      PROVE  KmsInv'
  BY <1>8 DEF Timeout, NoCapture, RepaintCursorFails, FlushSideEffects, HoldFrame, HiddenFrame,
              AfterFrame, vars
<1> HIDE DEF KmsInv
<1>9. QED
  BY <1>1, <1>2, <1>3, <1>4, <1>5, <1>6, <1>7, <1>8 DEF Next, LoopStep, Draw

(* Nothing is connected, queued or shown at the start. *)
LEMMA InitInv == Init => IInv
<1> SUFFICES ASSUME Init PROVE IInv
  OBVIOUS
<1> USE DEF Init
<1>1. TypeOK
  BY DEF TypeOK, ClientType, TableType, QueueType, SceneType, KmsType, Surface, NoSurface
<1>2. ClientInv
  BY NullAssumption DEF ClientInv, IdsInv, BuffersInv, TablesInv, ClosedInv, LiveInv, ShownInv, AttachedInv,
                        CallbackInv, FramesInv, ReleaseInv, NoSurface
<1>3. DisplayInv
  BY OwnAssumption DEF DisplayInv, KmsInv, KnownInv, ScreenInv, RetainedInv, Busy, Entry
<1>4. QED
  BY <1>1, <1>2, <1>3 DEF IInv

(* Every step keeps the object tables in order.                            *)
LEMMA IdsStep ==
  ASSUME OneOwner, TypeOK, IdsInv, [Next]_vars
  PROVE  IdsInv'
<1>1. CASE ClientStep
  BY <1>1, TablesRequest, ClosedRequest, LiveRequest, CallbackRequest, FramesRequest DEF IdsInv
<1>2. CASE Quiet
  <2>1. PICK r, c : Flushes(r, c)
    BY <1>2, QuietFlushes
  <2>2. QED
    BY <2>1, FlushKeepsIdsInv
<1>3. QED
  BY <1>1, <1>2 DEF Next, Quiet

(* Every step keeps the invariant. *)
LEMMA StepInv ==
  ASSUME Orderly, IInv, [Next]_vars
  PROVE  IInv'
<1> USE DEF IInv
<1>1. TypeOK'
  BY TypeStep
<1>2. ClientStep \/ Quiet
  BY DEF Next, Quiet
<1>3. ClientInv'
  <2>1. IdsInv'
    BY IdsStep DEF ClientInv, Orderly
  <2>2. CASE ClientStep
    BY <2>1, <2>2, ShownRequest, AttachedRequest, ReleaseRequest DEF ClientInv, BuffersInv
  <2>3. CASE Quiet
    <3>1. PICK r, c : Flushes(r, c)
      BY <2>3, QuietFlushes
    <3>2. QED
      BY <2>1, <3>1, FlushKeepsBuffersInv DEF ClientInv
  <2>4. QED
    BY <1>2, <2>2, <2>3
<1>4. DisplayInv'
  <2>1. KmsInv'
    BY KmsStep DEF DisplayInv
  <2>2. KnownInv' /\ ScreenInv' /\ RetainedInv'
    BY <1>2, KnownRequest, ScreenRequest, RetainedRequest, KnownQuiet, ScreenQuiet, RetainedQuiet
  <2>3. QED
    BY <2>1, <2>2 DEF DisplayInv
<1>5. QED
  BY <1>1, <1>3, <1>4

(* Spec keeps every variable in its type, whatever the clients do. *)
THEOREM TypeCorrect == Spec => []TypeOK
<1>1. Init => TypeOK
  BY InitInv DEF IInv
<1>2. TypeOK /\ [Next]_vars => TypeOK'
  BY TypeStep
<1>3. QED
  BY <1>1, <1>2, PTL DEF Spec

(* The object tables need no more than that no descriptor gets a second    *)
(* client, even if clients attach what they have not got back.             *)
LEMMA IdsInvariance == ASSUME OneOwner PROVE Spec => [](TypeOK /\ IdsInv)
<1>1. Init => TypeOK /\ IdsInv
  BY InitInv DEF IInv, ClientInv
<1>2. (TypeOK /\ IdsInv) /\ [Next]_vars => (TypeOK /\ IdsInv)'
  BY TypeStep, IdsStep
<1>3. QED
  BY <1>1, <1>2, PTL DEF Spec

(* The backend's variables fit together whatever clients do.               *)
LEMMA KmsInvariance == Spec => [](TypeOK /\ KmsInv)
<1>1. Init => TypeOK /\ KmsInv
  BY InitInv DEF IInv, DisplayInv
<1>2. (TypeOK /\ KmsInv) /\ [Next]_vars => (TypeOK /\ KmsInv)'
  BY TypeStep, KmsStep
<1>3. QED
  BY <1>1, <1>2, PTL DEF Spec

(* The inductive invariant holds whenever the instance is orderly. *)
THEOREM Invariance == ASSUME Orderly PROVE Spec => []IInv
<1>1. IInv /\ [Next]_vars => IInv'
  BY StepInv
<1>2. QED
  BY <1>1, InitInv, PTL DEF Spec

(* Tear freedom: with clients that wait for wl_buffer.release, a buffer a  *)
(* surface shows, the CRTC scans out or a cursor frame will read again has *)
(* not been released to its client.                                        *)
THEOREM TearFreedom == ASSUME Orderly PROVE Spec => []InUseIsHeld
<1>1. ASSUME IInv PROVE InUseIsHeld
  <2> SUFFICES ASSUME NEW fd \in Fd, NEW i \in Id, <<fd, i>> \in InUse
               PROVE  view[fd][i] = "held"
    <3>1. InUse \subseteq Fd \X Id
      BY <1>1 DEF InUse, Scene, Entry, IInv, TypeOK, SceneType, KmsType
    <3>2. QED
      BY <3>1 DEF InUseIsHeld
  <2>1. fd \in clients /\ role[fd][i] = "buffer" /\ view[fd][i] \in {"idle", "held"}
    BY <1>1 DEF InUse, LiveBuffer, IInv, ClientInv, IdsInv, TablesInv
  <2>2. ASSUME NEW s \in Surf, surf[fd][s].cur = i PROVE view[fd][i] = "held"
    BY <1>1, <2>1, <2>2, NullAssumption DEF IInv, ClientInv, BuffersInv, ShownInv
  <2>3. ASSUME <<fd, i>> \in buffer_release \cup in_flight_buffer_release PROVE view[fd][i] = "held"
    BY <1>1, <2>1, <2>3 DEF IInv, ClientInv, BuffersInv, ReleaseInv
  <2>4. CASE <<fd, i>> \in Scene
    BY <2>2, <2>4 DEF Scene
  <2>5. CASE <<fd, i>> \in {onscreen, pending}
    BY <1>1, <2>1, <2>2, <2>3, <2>5 DEF IInv, DisplayInv, ScreenInv, Windows
  <2>6. CASE <<fd, i>> \in retained /\ ~dirty
    BY <1>1, <2>1, <2>2, <2>6 DEF IInv, DisplayInv, RetainedInv, Windows
  <2>7. QED
    BY <2>4, <2>5, <2>6 DEF InUse
<1>2. QED
  BY <1>1, Invariance, PTL

(* The object tables of server and client never diverge, whether or not    *)
(* clients wait for releases and screenshots are taken.                    *)
THEOREM TablesAgree == ASSUME OneOwner PROVE Spec => []ObjectTablesAgree
<1>1. TypeOK /\ IdsInv => ObjectTablesAgree
  BY DEF IdsInv, TablesInv, ObjectTablesAgree, TypeOK, ClientType
<1>2. QED
  BY <1>1, IdsInvariance, PTL

(* A release that waits for a flip always has a flip to wait for. *)
THEOREM ReleasesNotStranded == Spec => []NoStrandedRelease
<1>1. KmsInv => NoStrandedRelease
  BY DEF KmsInv, NoStrandedRelease, Busy
<1>2. QED
  BY <1>1, KmsInvariance, PTL

(* Only wl_buffer.destroy, of all the requests, takes a buffer out of the  *)
(* table of a client that stays.                                           *)
LEMMA RequestKeepsBuffers ==
  ASSUME TypeOK, IdsInv, ClientStep, NEW f \in clients \cap clients', NEW j \in Id,
         role[f][j] = "buffer", role'[f][j] # "buffer"
  PROVE  view'[f][j] = "zombie"
<1> USE DEF TypeOK, ClientType, TableType, IdsInv, TablesInv, clientVars
<1>1. ASSUME NEW fd \in Fd, Connect(fd) \/ Disconnect(fd) PROVE view'[f][j] = "zombie"
  BY <1>1 DEF Connect, Disconnect
<1>2. ASSUME NEW fd \in Fd, NEW i \in Id, CreateBuffer(fd, i) \/ DestroyBuffer(fd, i)
      PROVE  view'[f][j] = "zombie"
  <2>1. CASE CreateBuffer(fd, i)
    <3>1. role' = [role EXCEPT ![fd][i] = "buffer"]
      BY <2>1 DEF CreateBuffer
    <3>2. QED
      BY <3>1
  <2>2. CASE DestroyBuffer(fd, i)
    BY <2>2 DEF DestroyBuffer
  <2>3. QED
    BY <1>2, <2>1, <2>2
<1>3. ASSUME NEW fd \in Fd, NEW s \in Surf, CreateSurface(fd, s) \/ DestroySurface(fd, s)
      PROVE  view'[f][j] = "zombie"
  BY <1>3 DEF CreateSurface, DestroySurface
<1>4. ASSUME NEW fd \in Fd, NEW s \in Surf, NEW b, Attach(fd, s, b) \/ Commit(fd, s, b)
      PROVE  view'[f][j] = "zombie"
  BY <1>4 DEF Attach, Commit
<1>5. ASSUME NEW fd \in Fd, NEW s \in Surf, NEW i \in Id, Frame(fd, s, i)
      PROVE  view'[f][j] = "zombie"
  BY <1>5 DEF Frame
<1>6. QED
  BY <1>1, <1>2, <1>3, <1>4, <1>5 DEF ClientStep

(* No delete_id takes a buffer its client still uses: as long as no         *)
(* descriptor gets a second client, a frame callback's entry in a queue can *)
(* not hit another object.                                                  *)
THEOREM BuffersStay == ASSUME OneOwner PROVE Spec => BuffersLeaveByRequest
<1> DEFINE Leave == \A fd \in clients \cap clients', i \in Id :
                      role[fd][i] = "buffer" /\ role'[fd][i] # "buffer" => view'[fd][i] = "zombie"
<1>1. ASSUME TypeOK, IdsInv, Next PROVE Leave
  <2>1. CASE ClientStep
    BY <1>1, <2>1, RequestKeepsBuffers
  <2>2. CASE Quiet
    <3>1. PICK r, c : Flushes(r, c)
      BY <2>2, QuietFlushes
    <3>2. clients \subseteq Fd
      BY <1>1 DEF TypeOK, ClientType
    <3>3. QED
      BY <1>1, <3>1, <3>2, FlushKeepsBuffers
  <2>3. QED
    BY <1>1, <2>1, <2>2 DEF Next, Quiet
<1>2. (TypeOK /\ IdsInv) /\ [Next]_vars => [Leave]_vars
  BY <1>1
<1>3. QED
  BY <1>2, IdsInvariance, PTL DEF Spec, BuffersLeaveByRequest

(* A buffer that the server holds is shown by a surface, or its release    *)
(* is in one of the two queues: commits, destroys, deferrals, aborted      *)
(* flips and VT switches never lose one.                                   *)
HeldInv ==
  /\ \A fd \in Fd : \A i \in Id : fd \in clients /\ view[fd][i] = "held" =>
       /\ role[fd][i] = "buffer"
       /\ \/ \E s \in Surf : surf[fd][s].cur = i
          \/ <<fd, i>> \in buffer_release \cup in_flight_buffer_release
  /\ \A fd \in Fd : \A s \in Surf : surf[fd][s].live = FALSE => surf[fd][s].cur = Null

LEMMA HeldRequest ==
  ASSUME TypeOK, HeldInv, ClientStep
  PROVE  HeldInv'
<1> USE NullAssumption DEF Request, HeldInv, Replaced, CurrentOf, NoSurface, clientVars, queueVars,
         TypeOK, ClientType, TableType, QueueType, Surface, Entry
<1>1. ASSUME NEW fd \in Fd, Connect(fd) PROVE HeldInv'
  BY <1>1 DEF Connect, Serving
<1>2. ASSUME NEW fd \in Fd, Disconnect(fd) PROVE HeldInv'
  BY <1>2 DEF Disconnect, Serving
<1>3. ASSUME NEW fd \in Fd, NEW i \in Id, CreateBuffer(fd, i) PROVE HeldInv'
  BY <1>3 DEF CreateBuffer
<1>4. ASSUME NEW fd \in Fd, NEW i \in Id, DestroyBuffer(fd, i) PROVE HeldInv'
  BY <1>4 DEF DestroyBuffer
<1>5. ASSUME NEW fd \in Fd, NEW s \in Surf, CreateSurface(fd, s) PROVE HeldInv'
  BY <1>5 DEF CreateSurface, NewSurface
<1>6. ASSUME NEW fd \in Fd, NEW s \in Surf, DestroySurface(fd, s) PROVE HeldInv'
  BY <1>6 DEF DestroySurface
<1>7. ASSUME NEW fd \in Fd, NEW s \in Surf, NEW b \in Id \cup {Null}, Attach(fd, s, b) PROVE HeldInv'
  BY <1>7 DEF Attach
<1>8. ASSUME NEW fd \in Fd, NEW s \in Surf, NEW i \in Id, Frame(fd, s, i) PROVE HeldInv'
  BY <1>8 DEF Frame
<1>9. ASSUME NEW fd \in Fd, NEW s \in Surf, NEW damaged \in BOOLEAN, Commit(fd, s, damaged) PROVE HeldInv'
  BY <1>9 DEF Commit, Committed, LiveBuffer
<1> HIDE DEF HeldInv, TypeOK
<1> QED
  BY <1>1, <1>2, <1>3, <1>4, <1>5, <1>6, <1>7, <1>8, <1>9 DEF ClientStep

LEMMA RequestKeepsFrames ==
  ASSUME ClientStep PROVE frame_done \subseteq frame_done'
<1> USE DEF queueVars
<1>1. ASSUME NEW fd \in Fd, Connect(fd) \/ Disconnect(fd) PROVE frame_done' = frame_done
  BY <1>1 DEF Connect, Disconnect
<1>2. ASSUME NEW fd \in Fd, NEW i \in Id, CreateBuffer(fd, i) \/ DestroyBuffer(fd, i)
      PROVE  frame_done' = frame_done
  BY <1>2 DEF CreateBuffer, DestroyBuffer
<1>3. ASSUME NEW fd \in Fd, NEW s \in Surf,
             \/ CreateSurface(fd, s) \/ DestroySurface(fd, s)
             \/ \E b \in Id \cup {Null} : Attach(fd, s, b)
             \/ \E i \in Id : Frame(fd, s, i)
      PROVE  frame_done' = frame_done
  BY <1>3 DEF CreateSurface, DestroySurface, Attach, Frame
<1>4. ASSUME NEW fd \in Fd, NEW s \in Surf, NEW damaged \in BOOLEAN, Commit(fd, s, damaged)
      PROVE  frame_done \subseteq frame_done'
  BY <1>4 DEF Commit
<1> QED
  BY <1>1, <1>2, <1>3, <1>4 DEF ClientStep

LEMMA HeldFlush ==
  ASSUME NEW r, NEW c, Flushes(r, c), TypeOK, HeldInv
  PROVE  HeldInv'
<1> SUFFICES ASSUME NEW fd \in Fd, NEW i \in Id, fd \in clients', view'[fd][i] = "held"
             PROVE  /\ role'[fd][i] = "buffer"
                    /\ \/ \E s \in Surf : surf'[fd][s].cur = i
                       \/ <<fd, i>> \in buffer_release' \cup in_flight_buffer_release'
  BY DEF HeldInv, Flushes
<1>1. UNCHANGED <<clients, surf>>
  BY DEF Flushes
<1>2. /\ ~(<<fd, i>> \in c /\ fd \in clients)
      /\ ~(<<fd, i>> \in r /\ fd \in clients /\ role[fd][i] = "buffer")
      /\ view[fd][i] = "held" /\ role'[fd][i] = role[fd][i]
  BY FlushValue
<1>3. role[fd][i] = "buffer" /\ <<fd, i>> \notin r
  BY <1>1, <1>2 DEF HeldInv
<1> QED
  BY <1>1, <1>2, <1>3 DEF HeldInv, Flushes

(* No buffer is lost: what has not been given back to its client is still  *)
(* shown, or a release for it is queued.  In every instance.               *)
THEOREM HeldBuffersAreTracked ==
  Spec => [](\A fd \in clients, i \in Id :
               view[fd][i] = "held" =>
                 <<fd, i>> \in Scene \cup buffer_release \cup in_flight_buffer_release)
<1> DEFINE Tracked == \A fd \in clients, i \in Id :
                        view[fd][i] = "held" =>
                          <<fd, i>> \in Scene \cup buffer_release \cup in_flight_buffer_release
<1>1. Init => TypeOK /\ HeldInv
  BY InitInv DEF IInv, Init, HeldInv, NoSurface
<1>2. (TypeOK /\ HeldInv) /\ [Next]_vars => (TypeOK /\ HeldInv)'
  <2>1. ASSUME TypeOK, HeldInv, Quiet PROVE HeldInv'
    BY <2>1, QuietFlushes, HeldFlush
  <2>2. QED
    BY <2>1, TypeStep, HeldRequest DEF Next, Quiet
<1>3. TypeOK /\ HeldInv => Tracked
  BY DEF HeldInv, Scene, Entry, TypeOK, ClientType
<1>4. QED
  BY <1>1, <1>2, <1>3, PTL DEF Spec

(* No callback is lost: a committed frame callback of a client that stays  *)
(* leaves its queue only by firing, once.                                  *)
THEOREM CallbacksLeaveByFiring ==
  ASSUME OneOwner
  PROVE  Spec => [][\A fd \in clients \cap clients', i \in Id :
                      <<fd, i>> \in frame_done \ frame_done' =>
                        view[fd][i] = "callback" /\ view'[fd][i] = "none"]_vars
<1> DEFINE Fires == \A fd \in clients \cap clients', i \in Id :
                      <<fd, i>> \in frame_done \ frame_done' =>
                        view[fd][i] = "callback" /\ view'[fd][i] = "none"
<1>1. ASSUME TypeOK, IdsInv, Next PROVE Fires
  <2>0. clients \subseteq Fd
    BY <1>1 DEF TypeOK, ClientType
  <2>1. CASE ClientStep
    BY <2>1, RequestKeepsFrames
  <2>2. CASE Quiet
    <3>1. PICK r, c : Flushes(r, c)
      BY <2>2, QuietFlushes
    <3>2. \A fd \in Fd : \A i \in Id : <<fd, i>> \in c /\ fd \in clients => view'[fd][i] = "none"
      BY <1>1, <3>1, FlushValue
    <3>3. frame_done' = frame_done \ c
      BY <3>1 DEF Flushes
    <3>4. QED
      BY <1>1, <2>0, <3>2, <3>3 DEF IdsInv, CallbackInv
  <2>3. QED
    BY <1>1, <2>1, <2>2 DEF Next, Quiet
<1>2. (TypeOK /\ IdsInv) /\ [Next]_vars => [Fires]_vars
  BY <1>1
<1>3. QED
  BY <1>2, IdsInvariance, PTL DEF Spec

(* Without screenshots no frame is made while releases wait for a flip, so *)
(* a batch that waits never grows.                                         *)
THEOREM BatchStays ==
  ASSUME "screenshot" \notin Allow PROVE Spec => BatchNeverGrows
<1> DEFINE Batch == in_flight_buffer_release # {} =>
                      in_flight_buffer_release' \in {{}, in_flight_buffer_release}
<1>1. ASSUME TypeOK /\ KmsInv, Next PROVE Batch
  <2>1. in_flight_buffer_release # {} => Busy
    BY <1>1 DEF KmsInv, Busy
  <2>2. ~pending_screenshot
    BY <1>1 DEF KmsInv
  <2> USE DEF queueVars
  <2>3. CASE ClientStep
    BY <2>3, RequestKeeps
  <2>4. CASE SessionStep \/ DispatchEvents \/ Vblank \/ GraceElapses
    BY <2>4 DEF SessionStep, SwitchAway, SwitchBack, AskScreenshot, MovePointer, DispatchEvents,
                Vblank, GraceElapses, FlushInFlight, CompleteFlip
  <2>5. CASE PollTop \/ Timeout \/ PollAgain \/ NoCapture \/ HoldFrame \/ HiddenFrame
    BY <2>5 DEF PollTop, Timeout, PollAgain, NoCapture, HoldFrame, HiddenFrame, Poll,
                CompleteFlip, FlushInFlight
  <2>6. CASE Capture
    BY <2>2, <2>6 DEF Capture
  <2>7. CASE CompositeSoftware \/ CompositeGpu \/ CompositeDirect \/ RepaintCursor
             \/ RepaintCursorFails \/ FlushSideEffects
    BY <2>1, <2>7 DEF CompositeSoftware, CompositeGpu, CompositeDirect, RepaintCursor,
                      RepaintCursorFails, FlushSideEffects, MayDraw
  <2>8. QED
    BY <1>1, <2>3, <2>4, <2>5, <2>6, <2>7 DEF Next, LoopStep, Draw
<1>2. (TypeOK /\ KmsInv) /\ [Next]_vars => [Batch]_vars
  BY <1>1 DEF vars, queueVars
<1>3. QED
  BY <1>2, KmsInvariance, PTL DEF Spec, BatchNeverGrows

(* Unless a screenshot is asked for, no frame is made on a hidden VT, so   *)
(* that no callback fires there.                                           *)
THEOREM CallbacksWait ==
  ASSUME "screenshot" \notin Allow PROVE Spec => HiddenCallbacksHeld
<1> DEFINE Held == ~active /\ ~active' => frame_done \subseteq frame_done'
<1>1. Init => ~pending_screenshot
  BY DEF Init
<1>2. ASSUME ~pending_screenshot, Next PROVE ~pending_screenshot' /\ Held
  <2> USE DEF queueVars
  <2>1. CASE ClientStep
    <3>1. ASSUME NEW fd \in Fd, Connect(fd) \/ Disconnect(fd)
          PROVE  frame_done' = frame_done /\ pending_screenshot' = pending_screenshot
      BY <3>1 DEF Connect, Disconnect, sceneVars
    <3>2. ASSUME NEW fd \in Fd, NEW i \in Id, CreateBuffer(fd, i) \/ DestroyBuffer(fd, i)
          PROVE  frame_done' = frame_done /\ pending_screenshot' = pending_screenshot
      BY <3>2 DEF CreateBuffer, DestroyBuffer, Request
    <3>3. ASSUME NEW fd \in Fd, NEW s \in Surf,
                 \/ CreateSurface(fd, s) \/ DestroySurface(fd, s)
                 \/ \E b \in Id \cup {Null} : Attach(fd, s, b)
                 \/ \E i \in Id : Frame(fd, s, i)
          PROVE  frame_done' = frame_done /\ pending_screenshot' = pending_screenshot
      BY <3>3 DEF CreateSurface, DestroySurface, Attach, Frame, Request
    <3>4. ASSUME NEW fd \in Fd, NEW s \in Surf, NEW damaged \in BOOLEAN, Commit(fd, s, damaged)
          PROVE  frame_done \subseteq frame_done' /\ pending_screenshot' = pending_screenshot
      BY <3>4 DEF Commit, Request
    <3> QED BY <1>2, <2>1, <3>1, <3>2, <3>3, <3>4 DEF ClientStep
  <2>2. CASE SessionStep \/ DispatchEvents \/ Vblank \/ GraceElapses
    BY <1>2, <2>2 DEF SessionStep, SwitchAway, SwitchBack, AskScreenshot, MovePointer, DispatchEvents,
       CompleteFlip, FlushInFlight, Vblank, GraceElapses, sceneVars
  <2>3. CASE PollTop \/ PollAgain \/ Timeout \/ Capture \/ NoCapture
    BY <1>2, <2>3 DEF PollTop, PollAgain, Poll, CompleteFlip, FlushInFlight, Timeout, Capture, NoCapture,
       sceneVars
  <2>4. CASE Draw
    BY <1>2, <2>4 DEF Draw, CompositeSoftware, CompositeGpu, CompositeDirect, RepaintCursor,
       RepaintCursorFails, FlushSideEffects, HoldFrame, HiddenFrame, MayDraw, AfterFrame, sceneVars
  <2> QED BY <1>2, <2>1, <2>2, <2>3, <2>4 DEF Next, LoopStep
<1>3. ASSUME ~pending_screenshot, UNCHANGED vars PROVE ~pending_screenshot'
  BY <1>3 DEF vars, sceneVars
<1>4. ~pending_screenshot /\ [Next]_vars => [Held]_vars
  BY <1>2
<1>5. ~pending_screenshot /\ [Next]_vars => ~pending_screenshot'
  BY <1>2, <1>3
<1> QED BY <1>1, <1>4, <1>5, PTL DEF Spec, HiddenCallbacksHeld

=============================================================================
