------------------------ MODULE ClipboardOwnerProofs ------------------------
(***************************************************************************)
(* What Clipboard promises about who owns the selection: when nothing is   *)
(* on its way, the daemon and the compositor agree on whether it is the    *)
(* daemon's source, and on which one.                                      *)
(*                                                                         *)
(* The proof needs to know what the requests and the events on their way   *)
(* will do to the selection (Agreement).                                   *)
(***************************************************************************)
EXTENDS ClipboardProofs

(* The requests in q that select s, or destroy it, and the event that says *)
(* it is the selection no more.                                            *)
Selects(r, s) == r.req = "set_selection" /\ r.id = s
Destroys(r, s) == r.req = "destroy_source" /\ r.id = s
Asked(q, s) == \E i \in 1 .. Len(q) : Selects(q[i], s)
Dropped(q, s) == \E i \in 1 .. Len(q) : Destroys(q[i], s)
Told(q, s) == \E i \in 1 .. Len(q) : q[i] = Event("cancelled", s)

(* Whatever q asks for s, it destroys it in the end.                       *)
Ends(q, s) ==
  \A i \in 1 .. Len(q) : Selects(q[i], s) => \E j \in i + 1 .. Len(q) : Destroys(q[j], s)

(* The daemon's source is the selection, or becomes it by a request on its *)
(* way, or an event on its way says that it is not; and it is not being    *)
(* destroyed.                                                              *)
MineIs(id, sel, q, news) ==
  id # None => /\ ~Dropped(q, id)
               /\ Asked(q, id) \/ sel = id \/ Told(news, id)

(* Each of its former sources that is the selection, or will become it, is *)
(* destroyed by a request on its way.                                      *)
OthersEnd(id, sel, q) ==
  \A s \in OwnSource \ {id} : Ends(q, s) /\ (sel = s => Dropped(q, s))

Agreement == MineIs(mine.id, selection, fromDaemon, toDaemon) /\ OthersEnd(mine.id, selection, fromDaemon)

-----------------------------------------------------------------------------
(* Queues of requests and of events.                                       *)

LEMMA AskMore ==
  ASSUME NEW q \in Seq(Requests), NEW r \in Requests, NEW s
  PROVE  /\ Asked(Append(q, r), s) <=> Asked(q, s) \/ Selects(r, s)
         /\ Dropped(Append(q, r), s) <=> Dropped(q, s) \/ Destroys(r, s)
         /\ Destroys(r, s) \/ (Ends(q, s) /\ ~Selects(r, s)) => Ends(Append(q, r), s)
<1> DEFINE p == Append(q, r)
<1>1. /\ Len(q) \in Nat /\ Len(p) = Len(q) + 1 /\ p[Len(p)] = r
      /\ \A i \in 1 .. Len(q) : p[i] = q[i]
  OBVIOUS
<1> HIDE DEF p
<1>2. 1 .. Len(p) = (1 .. Len(q)) \cup {Len(p)}
  BY <1>1
<1>3. Asked(p, s) <=> Asked(q, s) \/ Selects(r, s)
  BY <1>1, <1>2 DEF Asked
<1>4. Dropped(p, s) <=> Dropped(q, s) \/ Destroys(r, s)
  BY <1>1, <1>2 DEF Dropped
<1>5. ASSUME Destroys(r, s) PROVE Ends(p, s)
  <2>1. ~Selects(r, s)
    BY <1>5 DEF Selects, Destroys
  <2>2. \A i \in 1 .. Len(q) : Len(p) \in i + 1 .. Len(p) /\ Destroys(p[Len(p)], s)
    BY <1>1, <1>5
  <2> QED BY <1>1, <1>2, <2>1, <2>2 DEF Ends
<1>6. ASSUME Ends(q, s), ~Selects(r, s) PROVE Ends(p, s)
  <2>1. ASSUME NEW i \in 1 .. Len(q), Selects(q[i], s)
        PROVE  \E j \in i + 1 .. Len(p) : Destroys(p[j], s)
    <3>1. PICK j \in i + 1 .. Len(q) : Destroys(q[j], s)
      BY <1>6, <2>1 DEF Ends
    <3>2. j \in 1 .. Len(q) /\ j \in i + 1 .. Len(p)
      BY <1>1
    <3> QED BY <1>1, <3>1, <3>2
  <2> QED BY <1>1, <1>2, <1>6, <2>1 DEF Ends
<1> QED BY <1>3, <1>4, <1>5, <1>6 DEF p

LEMMA ServeOne ==
  ASSUME NEW q \in Seq(Requests), q # <<>>, NEW s
  PROVE  /\ Asked(q, s) => Selects(Head(q), s) \/ Asked(Tail(q), s)
         /\ Dropped(q, s) <=> Destroys(Head(q), s) \/ Dropped(Tail(q), s)
         /\ Ends(q, s) => Ends(Tail(q), s) /\ (Selects(Head(q), s) => Dropped(Tail(q), s))
<1> DEFINE p == Tail(q)
<1>1. /\ Len(q) \in Nat \ {0} /\ Len(p) = Len(q) - 1 /\ Head(q) = q[1]
      /\ \A i \in 1 .. Len(p) : p[i] = q[i + 1]
  OBVIOUS
<1> HIDE DEF p
<1>2. \A i \in 1 .. Len(q) : i # 1 => i - 1 \in 1 .. Len(p) /\ q[i] = p[i - 1]
  BY <1>1
<1>3. Asked(q, s) => Selects(q[1], s) \/ Asked(p, s)
  BY <1>2 DEF Asked
<1>4. Dropped(q, s) => Destroys(q[1], s) \/ Dropped(p, s)
  BY <1>2 DEF Dropped
<1>5. Destroys(q[1], s) \/ Dropped(p, s) => Dropped(q, s)
  <2>1. 1 \in 1 .. Len(q) /\ \A i \in 1 .. Len(p) : i + 1 \in 1 .. Len(q)
    BY <1>1
  <2> QED BY <1>1, <2>1 DEF Dropped
<1>6. ASSUME Ends(q, s) PROVE Ends(p, s)
  <2>1. ASSUME NEW i \in 1 .. Len(p), Selects(p[i], s)
        PROVE  \E j \in i + 1 .. Len(p) : Destroys(p[j], s)
    <3>1. i + 1 \in 1 .. Len(q) /\ Selects(q[i + 1], s)
      BY <1>1, <2>1
    <3>2. PICK j \in (i + 1) + 1 .. Len(q) : Destroys(q[j], s)
      BY <1>6, <3>1 DEF Ends
    <3>3. j \in 1 .. Len(q) /\ j # 1 /\ j - 1 \in i + 1 .. Len(p)
      BY <1>1
    <3> QED BY <1>2, <3>2, <3>3
  <2> QED BY <2>1 DEF Ends
<1>7. ASSUME Ends(q, s), Selects(q[1], s) PROVE Dropped(p, s)
  <2>1. 1 \in 1 .. Len(q)
    BY <1>1
  <2>2. PICK j \in 1 + 1 .. Len(q) : Destroys(q[j], s)
    BY <1>7, <2>1 DEF Ends
  <2>3. j \in 1 .. Len(q) /\ j # 1
    BY <1>1
  <2> QED BY <1>2, <2>2, <2>3 DEF Dropped
<1> QED BY <1>1, <1>3, <1>4, <1>5, <1>6, <1>7 DEF p

LEMMA TellMore ==
  ASSUME NEW q \in Seq(Events), NEW e \in Events, NEW s
  PROVE  Told(Append(q, e), s) <=> Told(q, s) \/ e = Event("cancelled", s)
<1> DEFINE p == Append(q, e)
<1>1. /\ Len(q) \in Nat /\ Len(p) = Len(q) + 1 /\ p[Len(p)] = e
      /\ \A i \in 1 .. Len(q) : p[i] = q[i]
  OBVIOUS
<1> HIDE DEF p
<1>2. 1 .. Len(p) = (1 .. Len(q)) \cup {Len(p)}
  BY <1>1
<1> QED BY <1>1, <1>2 DEF Told, p

LEMMA ReadOne ==
  ASSUME NEW q \in Seq(Events), q # <<>>, NEW s, Told(q, s)
  PROVE  Head(q) = Event("cancelled", s) \/ Told(Tail(q), s)
<1>1. /\ Len(q) \in Nat \ {0} /\ Len(Tail(q)) = Len(q) - 1 /\ Head(q) = q[1]
      /\ \A i \in 1 .. Len(Tail(q)) : Tail(q)[i] = q[i + 1]
  OBVIOUS
<1>2. \A i \in 1 .. Len(q) : i # 1 => i - 1 \in 1 .. Len(Tail(q)) /\ q[i] = Tail(q)[i - 1]
  BY <1>1
<1> QED BY <1>1, <1>2 DEF Told

(* The broadcast takes no event back.                                      *)
LEMMA EmitKeeps ==
  ASSUME NEW q, TypedEvents(q), NEW s \in Source \cup {None}, NEW src, EmitTo(q, s, src), NEW id, Told(q, id)
  PROVE  Told(toDaemon', id)
<1>1. CASE s = None
  <2>1. Event("selection", None) \in Events
    BY DEF Events, Event, None
  <2>2. toDaemon' = Append(q, Event("selection", None)) /\ q \in Seq(Events)
    BY <1>1 DEF EmitTo, TypedEvents
  <2> QED BY <2>1, <2>2, TellMore
<1>2. CASE s # None /\ (src[s].owner = Daemon \/ src[s].types = {})
  BY <1>2 DEF EmitTo
<1>3. CASE s # None /\ ~(src[s].owner = Daemon \/ src[s].types = {})
  <2>1. PICK o \in FreeOffers : toDaemon' = q \o <<Event("data_offer", o), Event("selection", o)>>
    BY <1>3 DEF EmitTo
  <2>2. Event("data_offer", o) \in Events /\ Event("selection", o) \in Events
    BY Bounds DEF Events, Event, FreeOffers
  <2>3. toDaemon' = Append(Append(q, Event("data_offer", o)), Event("selection", o))
    BY <2>1, <2>2 DEF TypedEvents
  <2>4. Append(q, Event("data_offer", o)) \in Seq(Events)
    BY <2>2 DEF TypedEvents
  <2> QED BY <2>2, <2>3, <2>4, TellMore DEF TypedEvents
<1> QED BY <1>1, <1>2, <1>3

(* The source of the daemon that was the selection is told of its end.     *)
LEMMA EndTold ==
  ASSUME TypedServer, NEW s \in Source, NEW id \in OwnSource
  PROVE  LET q == EventsOfEnd(selection, s)
         IN  /\ Told(toDaemon, id) => Told(q, id)
             /\ selection = id /\ s # id => Told(q, id)
<1>1. toDaemon \in Seq(Events)
  BY DEF TypedServer, TypedEvents
<1>2. CASE Cancelling(selection, s) /\ source[selection].owner = Daemon
  <2>1. Event("cancelled", selection) \in Events
    BY <1>2, Bounds DEF Events, Event, TypedServer, Cancelling
  <2> QED BY <1>1, <1>2, <2>1, TellMore DEF EventsOfEnd
<1>3. CASE ~(Cancelling(selection, s) /\ source[selection].owner = Daemon)
  <2>1. selection = id => source[selection].owner = Daemon /\ selection # None
    BY Bounds DEF TypedServer, TypedSources, Source
  <2> QED BY <1>3, <2>1 DEF EventsOfEnd, Cancelling
<1> QED BY <1>2, <1>3

-----------------------------------------------------------------------------
(* A step that leaves the daemon's requests and its source alone.          *)
LEMMA AgreementStays ==
  ASSUME Typed, Agreement, UNCHANGED <<mine, fromDaemon>>,
         \A id \in OwnSource :
           /\ selection' = id => selection = id
           /\ selection = id \/ Told(toDaemon, id) => selection' = id \/ Told(toDaemon', id)
  PROVE  Agreement'
BY DEF Agreement, MineIs, OthersEnd, Typed, TypedDaemon

LEMMA CopyAgrees ==
  ASSUME Typed, Agreement, NEW a \in App, NEW t \in TypeSets, NEW v \in Value, Copy(a, t, v)
  PROVE  Agreement'
<1> DEFINE s == copies + 1
           src == [source EXCEPT ![s] = NewSource(a, t, v)]
<1>1. s \in Source /\ s \notin OwnSource
  BY Bounds DEF Typed, TypedDaemon, Copy, AppSource, Source
<1>2. /\ selection' = s /\ EmitTo(EventsOfEnd(selection, s), s, src)
      /\ UNCHANGED <<mine, fromDaemon>>
  BY DEF Copy, CopyInto, daemonVars, keptVars
<1> HIDE DEF s, src
<1>3. ASSUME NEW id \in OwnSource, selection = id \/ Told(toDaemon, id) PROVE Told(toDaemon', id)
  <2>1. Told(EventsOfEnd(selection, s), id)
    BY <1>1, <1>3, EndTold DEF Typed
  <2> QED BY <1>1, <1>2, <2>1, EndTyped, EmitKeeps DEF Typed
<1> QED BY <1>1, <1>2, <1>3, AgreementStays

(* Nobody but the daemon destroys the daemon's sources.                    *)
LEMMA ApplicationAgrees ==
  ASSUME Typed, Agreement, Applications
  PROVE  Agreement'
<1>1. CASE \E a \in App, t \in TypeSets, v \in Value : Copy(a, t, v)
  BY <1>1, CopyAgrees
<1>2. CASE ~(\E a \in App, t \in TypeSets, v \in Value : Copy(a, t, v))
  <2>1. UNCHANGED <<mine, fromDaemon>>
    BY <1>2 DEF Applications, CopyMore, OfferType, DropCancelled, Drop, DestroySource, ClearSelection,
                Leave, Disconnect, daemonVars, keptVars
  <2>2. \/ selection' = selection
        \/ selection' = None /\ selection \notin OwnSource
    <3>1. CASE \E s \in AppSource, m \in Mime : CopyMore(s, m)
      BY <3>1 DEF CopyMore, OfferType
    <3>2. CASE \E s \in AppSource : DropCancelled(s) \/ Drop(s)
      BY <3>2, Bounds DEF DropCancelled, Drop, DestroySource, ClearSelection
    <3>3. CASE \E a \in App : Leave(a)
      BY <3>3, DaemonAssumption DEF Leave, Disconnect, OwnerOf, Typed, TypedServer, TypedSources
    <3> QED BY <1>2, <3>1, <3>2, <3>3 DEF Applications
  <2>3. toDaemon' = toDaemon \/ \E s \in Source \cup {None} : \E src : EmitTo(toDaemon, s, src)
    <3>1. CASE \E s \in AppSource, m \in Mime : CopyMore(s, m)
      BY <3>1 DEF CopyMore, OfferType, Source
    <3>2. CASE \E s \in AppSource : DropCancelled(s) \/ Drop(s)
      BY <3>2 DEF DropCancelled, Drop, DestroySource, ClearSelection
    <3>3. CASE \E a \in App : Leave(a)
      BY <3>3 DEF Leave, Disconnect
    <3> QED BY <1>2, <3>1, <3>2, <3>3 DEF Applications
  <2>4. \A id \in OwnSource : Told(toDaemon, id) => Told(toDaemon', id)
    BY <2>3, EmitKeeps DEF Typed, TypedServer
  <2>5. None \notin OwnSource
    BY Bounds DEF Source
  <2> QED BY <2>1, <2>2, <2>4, <2>5, AgreementStays
<1> QED BY <1>1, <1>2

LEMMA ServeAgrees ==
  ASSUME Typed, Agreement, Serve, mine' = mine
  PROVE  Agreement'
<1> DEFINE r == Head(fromDaemon)
<1>1. /\ fromDaemon \in Seq(Requests) /\ fromDaemon # <<>> /\ fromDaemon' = Tail(fromDaemon)
      /\ mine.id \in OwnSource \cup {None} /\ None \notin OwnSource
  BY Bounds DEF Serve, Typed, TypedServer, TypedDaemon, Source
<1>2. r \in Requests
  BY <1>1
<1>3. r.id \in OwnSource /\ r.id \in Source
  BY <1>2 DEF Requests, Source
<1>4. CASE r.req = "set_selection" /\ SetSelection(r)
  <2>1. selection' = r.id /\ toDaemon' = EventsOfEnd(selection, r.id)
    BY <1>4 DEF SetSelection
  <2>2. \A s : ~Destroys(r, s) /\ (Selects(r, s) <=> r.id = s)
    BY <1>4 DEF Selects, Destroys
  <2> HIDE DEF r
  <2>3. MineIs(mine.id, selection', Tail(fromDaemon), toDaemon')
    BY <1>1, <1>3, <2>1, <2>2, ServeOne, EndTold DEF r, Agreement, MineIs, Typed
  <2>4. OthersEnd(mine.id, selection', Tail(fromDaemon))
    BY <1>1, <2>1, <2>2, ServeOne DEF r, Agreement, OthersEnd
  <2> QED BY <1>1, <2>3, <2>4 DEF Agreement
<1>5. CASE r.req = "destroy_source" /\ DestroyOwnSource(r)
  <2>1. /\ toDaemon' = toDaemon
        /\ selection' = IF selection = r.id THEN None ELSE selection
    BY <1>5 DEF DestroyOwnSource
  <2>2. \A s : ~Selects(r, s) /\ (Destroys(r, s) <=> r.id = s)
    BY <1>5 DEF Selects, Destroys
  <2> HIDE DEF r
  <2>3. MineIs(mine.id, selection', Tail(fromDaemon), toDaemon')
    BY <1>1, <2>1, <2>2, ServeOne DEF r, Agreement, MineIs
  <2>4. OthersEnd(mine.id, selection', Tail(fromDaemon))
    BY <1>1, <2>1, <2>2, ServeOne DEF r, Agreement, OthersEnd
  <2> QED BY <1>1, <2>3, <2>4 DEF Agreement
<1> QED BY <1>4, <1>5 DEF Serve

LEMMA ServerAgrees ==
  ASSUME Typed, Agreement, Server
  PROVE  Agreement'
<1>1. mine' = mine
  BY DEF Server, daemonVars, keptVars
<1>2. CASE Serve
  BY <1>1, <1>2, ServeAgrees
<1>3. CASE FlushBroadcast
  <2>1. EmitTo(toDaemon, selection, source) /\ UNCHANGED <<selection, fromDaemon>>
    BY <1>3 DEF FlushBroadcast
  <2>2. \A id \in OwnSource : Told(toDaemon, id) => Told(toDaemon', id)
    BY <2>1, EmitKeeps DEF Typed, TypedServer
  <2> QED BY <1>1, <2>1, <2>2, AgreementStays
<1> QED BY <1>2, <1>3 DEF Server

-----------------------------------------------------------------------------
(* What the daemon does with its source.                                   *)

(* It gives its source up: the former source is destroyed last.            *)
LEMMA MineEnds ==
  ASSUME Typed, Agreement
  PROVE  LET q == fromDaemon \o DestroyMine
         IN  /\ q \in Seq(Requests)
             /\ \A s \in OwnSource : Ends(q, s) /\ (selection = s => Dropped(q, s))
             /\ \A s \in OwnSource \ {mine.id} : Dropped(q, s) <=> Dropped(fromDaemon, s)
             /\ \A s : Asked(q, s) <=> Asked(fromDaemon, s)
<1> DEFINE r == Request("destroy_source", mine.id, {})
<1>1. fromDaemon \in Seq(Requests) /\ mine.id \in OwnSource \cup {None}
  BY DEF Typed, TypedServer, TypedDaemon
<1>2. CASE mine.id = None
  <2>1. fromDaemon \o DestroyMine = fromDaemon
    BY <1>1, <1>2 DEF DestroyMine
  <2>2. None \notin OwnSource
    BY Bounds DEF Source
  <2> QED BY <1>1, <1>2, <2>1, <2>2 DEF Agreement, OthersEnd
<1>3. CASE mine.id # None
  <2>1. r \in Requests
    BY <1>1, <1>3 DEF Requests, Request
  <2>2. fromDaemon \o DestroyMine = Append(fromDaemon, r)
    BY <1>1, <1>3, <2>1 DEF DestroyMine
  <2>3. \A s : ~Selects(r, s) /\ (Destroys(r, s) <=> s = mine.id)
    BY DEF Selects, Destroys, Request
  <2> HIDE DEF r
  <2>4. Append(fromDaemon, r) \in Seq(Requests)
    BY <1>1, <2>1
  <2> QED BY <1>1, <2>1, <2>2, <2>3, <2>4, AskMore DEF Agreement, OthersEnd
<1> QED BY <1>2, <1>3

LEMMA BecomingAgrees ==
  ASSUME Typed, Agreement, NEW c, Entry(c), BecomeOwner(c), UNCHANGED <<selection, toDaemon>>
  PROVE  Agreement'
<1> DEFINE q == fromDaemon \o DestroyMine
<1>1. PICK id \in FreeOwn :
        /\ mine' = [id |-> id, types |-> DOMAIN c]
        /\ fromDaemon' = q \o <<Request("set_selection", id, DOMAIN c)>>
  BY DEF BecomeOwner
<1> DEFINE r == Request("set_selection", id, DOMAIN c)
<1>2. /\ id \in OwnSource \ {mine.id}
      /\ \A i \in DOMAIN fromDaemon : fromDaemon[i].id # id
  BY DEF FreeOwn
<1>3. r \in Requests
  BY <1>2 DEF Requests, Request, Entry, IsClip
<1>4. \A s : ~Destroys(r, s) /\ (Selects(r, s) <=> s = id)
  BY DEF Selects, Destroys, Request
<1>5. ~Dropped(fromDaemon, id)
  <2>1. DOMAIN fromDaemon = 1 .. Len(fromDaemon)
    BY DEF Typed, TypedServer
  <2> QED BY <1>2, <2>1 DEF Dropped, Destroys
<1>6. /\ q \in Seq(Requests) /\ ~Dropped(q, id)
      /\ \A s \in OwnSource : Ends(q, s) /\ (selection = s => Dropped(q, s))
  BY <1>2, <1>5, MineEnds
<1> HIDE DEF q, r
<1>7. fromDaemon' = Append(q, r) /\ mine'.id = id
  BY <1>1, <1>3, <1>6 DEF r
<1> QED BY <1>2, <1>3, <1>4, <1>6, <1>7, AskMore DEF Agreement, MineIs, OthersEnd

LEMMA GivingUpAgrees ==
  ASSUME Typed, Agreement, fromDaemon' = fromDaemon \o DestroyMine, mine' = NoSource, selection' = selection
  PROVE  Agreement'
<1>1. mine'.id = None
  BY DEF NoSource
<1> QED BY <1>1, MineEnds DEF Agreement, MineIs, OthersEnd

LEMMA DispatchAgrees ==
  ASSUME Typed, Agreement, Dispatch
  PROVE  Agreement'
<1> DEFINE e == Head(toDaemon)
<1>1. toDaemon \in Seq(Events) /\ toDaemon # <<>> /\ toDaemon' = Tail(toDaemon) /\ selection' = selection
  BY DEF Dispatch, Typed, TypedServer, TypedEvents
<1>2. CASE UNCHANGED <<mine, fromDaemon>> /\ e # Event("cancelled", mine.id)
  <2>1. Told(toDaemon, mine.id) => Told(toDaemon', mine.id)
    BY <1>1, <1>2, ReadOne
  <2> QED BY <1>1, <1>2, <2>1 DEF Agreement, MineIs, OthersEnd
<1>3. CASE e.ev = "data_offer" /\ DeviceDataOffer(e.id)
  BY <1>2, <1>3 DEF DeviceDataOffer, Event
<1>4. CASE e.ev = "selection" /\ DeviceSelection(e.id)
  BY <1>2, <1>4 DEF DeviceSelection, Event
<1>5. CASE e.ev = "cancelled" /\ SourceCancelled(e.id)
  <2>1. CASE mine.id = e.id
    BY <1>1, <1>5, <2>1, GivingUpAgrees DEF SourceCancelled
  <2>2. CASE mine.id # e.id
    BY <1>2, <1>5, <2>2 DEF SourceCancelled, Event
  <2> QED BY <2>1, <2>2
<1> QED BY <1>3, <1>4, <1>5 DEF Dispatch

LEMMA ReceivedAgrees ==
  ASSUME Typed, Agreement, NEW c, IsClip(c), Received(c)
  PROVE  Agreement'
<1>1. UNCHANGED <<selection, toDaemon>>
  BY DEF Received
<1>2. CASE UNCHANGED <<mine, fromDaemon>>
  BY <1>1, <1>2, AgreementStays
<1>3. CASE c # Empty /\ BecomeOwner(c)
  BY <1>1, <1>3, EmptyIsClip, BecomingAgrees
<1> QED BY <1>2, <1>3 DEF Received, Continue, Finish, keptVars

LEMMA RestartAgrees ==
  ASSUME Typed, Restart
  PROVE  Agreement'
<1> DEFINE id == MaxCopies + 1
           clip == IF saved = <<>> THEN Empty ELSE saved[1]
           r == Request("set_selection", id, DOMAIN clip)
<1>1. /\ selection' = IF selection \in OwnSource THEN None ELSE selection
      /\ \/ mine' = NoSource /\ fromDaemon' = <<>>
         \/ mine' = [id |-> id, types |-> DOMAIN clip] /\ fromDaemon' = <<r>>
  BY DEF Restart
<1>2. selection' \notin OwnSource
  BY <1>1, Bounds DEF Source
<1>3. \A s : ~Destroys(r, s) /\ (Selects(r, s) <=> s = id)
  BY DEF Selects, Destroys, Request
<1> HIDE DEF r, clip, id
<1>4. CASE mine' = NoSource /\ fromDaemon' = <<>>
  <2>1. mine'.id = None /\ Len(fromDaemon') = 0
    BY <1>4 DEF NoSource
  <2> QED BY <1>2, <2>1 DEF Agreement, MineIs, OthersEnd, Ends
<1>5. CASE mine' = [id |-> id, types |-> DOMAIN clip] /\ fromDaemon' = <<r>>
  <2>1. mine'.id = id /\ Len(fromDaemon') = 1 /\ fromDaemon'[1] = r
    BY <1>5
  <2>2. 1 .. Len(fromDaemon') = {1}
    BY <2>1
  <2>3. Asked(fromDaemon', id) /\ ~Dropped(fromDaemon', id)
    BY <1>3, <2>1, <2>2 DEF Asked, Dropped
  <2>4. \A s \in OwnSource \ {id} : Ends(fromDaemon', s)
    BY <1>3, <2>1, <2>2 DEF Ends
  <2> QED BY <1>2, <2>1, <2>3, <2>4 DEF Agreement, MineIs, OthersEnd
<1> QED BY <1>1, <1>4, <1>5

LEMMA SelectAgrees ==
  ASSUME Typed, Agreement, NEW i \in 1 .. HistMax, Select(i)
  PROVE  Agreement'
<1>1. i \in DOMAIN history /\ BecomeOwner(history[i]) /\ UNCHANGED <<selection, toDaemon>>
  BY DEF Select
<1>2. Entry(history[i])
  BY <1>1 DEF Typed, TypedKept, Entries
<1> QED BY <1>1, <1>2, BecomingAgrees

LEMMA NextAgrees == Typed /\ Agreement /\ [Next]_vars => Agreement'
<1> SUFFICES ASSUME Typed, Agreement, [Next]_vars PROVE Agreement'
  OBVIOUS
<1>1. CASE Applications
  BY <1>1, ApplicationAgrees
<1>2. CASE Server
  BY <1>2, ServerAgrees
<1>3. CASE Restart
  BY <1>3, RestartAgrees
<1>4. CASE Clear
  BY <1>4, GivingUpAgrees DEF Clear
<1>5. CASE \E i \in 1 .. HistMax : Select(i)
  BY <1>5, SelectAgrees
<1>6. CASE Dispatch
  BY <1>6, DispatchAgrees
<1>7. CASE Pipe \/ DrainPendingOffer \/ UNCHANGED vars
  <2>1. UNCHANGED <<mine, fromDaemon, selection, toDaemon>>
    BY <1>7 DEF Pipe, Answer, AnswerPart, DrainPendingOffer, daemonVars, keptVars, vars, serverVars
  <2> QED BY <2>1, AgreementStays
<1>8. CASE ReadToEnd \/ ReceiveTimeout
  BY <1>8, ReceivingIs, ReceivedAgrees
<1> QED BY <1>1, <1>2, <1>3, <1>4, <1>5, <1>6, <1>7, <1>8 DEF Next, User, DaemonRuns

(* When nothing is on its way the daemon and the compositor agree on       *)
(* whether the daemon's source is the selection, and on which one: however *)
(* copies, set_selection, cancelled and destroy cross on the way.          *)
THEOREM OwnersAgree == Spec => []OwnerAgrees
<1>1. Init => Agreement
  <2> SUFFICES ASSUME Init PROVE Agreement
    OBVIOUS
  <2>1. Len(fromDaemon) = 0 /\ mine.id = None /\ selection = None /\ None \notin OwnSource
    BY Bounds DEF Init, NoSource, Source
  <2> QED BY <2>1 DEF Agreement, MineIs, OthersEnd, Ends
<1>2. Typed /\ Agreement => OwnerAgrees
  <2> SUFFICES ASSUME Typed, Agreement, Quiet PROVE OwnerAgrees
    BY DEF OwnerAgrees
  <2>1. Len(fromDaemon) = 0 /\ Len(toDaemon) = 0
    BY DEF Quiet
  <2>2. \A s : ~Asked(fromDaemon, s) /\ ~Dropped(fromDaemon, s) /\ ~Told(toDaemon, s)
    BY <2>1 DEF Asked, Dropped, Told
  <2> QED BY <2>2 DEF Agreement, MineIs, OthersEnd, OwnerAgrees, Typed, TypedServer, TypedDaemon
<1> QED BY <1>1, <1>2, NextAgrees, Typing, PTL DEF Spec
=============================================================================
