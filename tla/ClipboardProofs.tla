-------------------------- MODULE ClipboardProofs ---------------------------
(***************************************************************************)
(* What Clipboard promises, for every set of applications, types and       *)
(* contents and all bounds: TypeOK, OffersAccounted, Servable and          *)
(* HeadIsCurrent.                                                          *)
(*                                                                         *)
(* The proof that offers are accounted for needs to know what the events   *)
(* on their way will do to them (Queued).                                  *)
(***************************************************************************)
EXTENDS Clipboard, FiniteSetTheorems, SequenceTheorems, TLAPS

Type == Mime \cup {Junk}
Data == Value \cup {Part}
IsClip(c) == /\ c = [m \in DOMAIN c |-> c[m]] /\ DOMAIN c \subseteq Type
             /\ \A m \in DOMAIN c : c[m] \in Data
Entry(c) == IsClip(c) /\ DOMAIN c # {}
Entries(h) == /\ h = [i \in 1 .. Len(h) |-> h[i]] /\ Len(h) \in Nat
              /\ \A i \in 1 .. Len(h) : Entry(h[i])

Events == [ev : {"data_offer", "selection", "cancelled"}, id : Nat]
TypedEvents(q) ==
  /\ q \in Seq(Events)
  /\ \A i \in 1 .. Len(q) :
       /\ q[i].ev = "data_offer" => q[i].id \in OfferId
       /\ q[i].ev = "selection" => q[i].id \in OfferId \cup {None}
Requests == [req : {"set_selection", "destroy_source"}, id : OwnSource, types : SUBSET Type]
TypedSources(src) ==
  /\ src \in [Source -> [owner : App \cup {Daemon}, types : SUBSET Type,
                         value : Value \cup {Nothing}, live : BOOLEAN, cancelled : BOOLEAN]]
  /\ \A s \in OwnSource : src[s].owner = Daemon
TypedOffers(o) == o \in [OfferId -> [of : Source \cup {None}, types : SUBSET Type]]
TypedPipe(p) == p \in [at : Source \cup {None}, data : Data \cup {Nothing}, end : BOOLEAN]

TypedServer ==
  /\ selection \in Source \cup {None} /\ dirty \in BOOLEAN
  /\ TypedSources(source) /\ TypedOffers(offer) /\ TypedPipe(pipe)
  /\ TypedEvents(toDaemon) /\ fromDaemon \in Seq(Requests)

TypedDaemon ==
  /\ own \in BOOLEAN /\ mine \in [id : OwnSource \cup {None}, types : SUBSET Type]
  /\ g_offer \in OfferId \cup {None} /\ pending \in OfferId \cup {None} /\ held \subseteq OfferId
  /\ mimes \in Seq(Type)
  /\ \/ taking = NoTake
     \/ /\ taking \in [of : OfferId, pass : Nat, preferred : Type, mime : Type, clip : {taking.clip},
                       preferredGone : BOOLEAN, mimeGone : BOOLEAN]
        /\ IsClip(taking.clip)
  /\ copies \in 0 .. MaxCopies

TypedKept ==
  /\ IsClip(current) /\ Entries(history) /\ Entries(saved)
  /\ Len(history) <= HistMax /\ Len(saved) <= HistMax /\ unsaved \in BOOLEAN

Typed == TypedServer /\ TypedDaemon /\ TypedKept

-----------------------------------------------------------------------------
LEMMA Bounds == /\ MaxCopies \in Nat \ {0} /\ MaxOffers \in Nat \ {0} /\ MaxOwn \in Nat \ {0}
                /\ Source \subseteq Nat \ {0} /\ OfferId \subseteq Nat \ {0}
                /\ AppSource \cap OwnSource = {} /\ None \notin Source /\ None \notin OfferId
BY BoundAssumption DEF Source, OfferId, AppSource, OwnSource, None

LEMMA EmptyIsClip == IsClip(Empty) /\ DOMAIN Empty = {} /\ \A c : IsClip(c) /\ c # Empty => Entry(c)
BY DEF IsClip, Entry, Empty

(* The list of types of an offer holds types.                              *)
LEMMA ListOfTypes ==
  ASSUME NEW S \in SUBSET Type, NEW q \in SetToSeqs(S)
  PROVE  q \in Seq(Type)
<1>1. Cardinality(S) \in Nat
  <2>1. IsFiniteSet(Type)
    BY MimeAssumption, FS_AddElement DEF Type
  <2> QED BY <2>1, FS_Subset, FS_CardinalityType
<1>2. q \in [1 .. Cardinality(S) -> S]
  BY DEF SetToSeqs
<1> QED BY <1>1, <1>2

(* clip_add                                                                *)
LEMMA WithIsClip ==
  ASSUME NEW c, IsClip(c), NEW m \in Type, NEW d \in Data
  PROVE  Entry(With(c, m, d))
BY DEF With, Entry, IsClip

LEMMA PrimaryFacts ==
  ASSUME NEW c, Entry(c)
  PROVE  Entry(Primary(c)) /\ Primary(Primary(c)) = Primary(c)
<1> DEFINE Of(x) == IF Text \in DOMAIN x THEN Text ELSE CHOOSE t \in DOMAIN x : TRUE
           m == Of(c)
           p == [x \in {m} |-> c[x]]
<1>1. m \in DOMAIN c
  BY DEF Entry
<1>2. p = Primary(c)
  BY DEF Primary
<1>3. DOMAIN p = {m} /\ p[m] = c[m]
  OBVIOUS
<1>4. ASSUME NEW x, DOMAIN x = {m} PROVE Of(x) = m
  <2>1. (CHOOSE t \in DOMAIN x : TRUE) \in {m}
    BY <1>4
  <2> QED BY <2>1, <1>4
<1>5. Of(p) = m
  BY <1>3, <1>4
<1>6. Primary(p) = [x \in {Of(p)} |-> p[x]]
  BY DEF Primary
<1>7. Primary(p) = p
  BY <1>3, <1>5, <1>6
<1>8. Entry(p)
  BY <1>1, <1>3 DEF Entry, IsClip
<1> QED BY <1>2, <1>7, <1>8

-----------------------------------------------------------------------------
(* What each side does keeps the types.                                    *)

LEMMA AppendTyped ==
  ASSUME NEW q, TypedEvents(q), NEW e \in Events,
         e.ev = "data_offer" => e.id \in OfferId, e.ev = "selection" => e.id \in OfferId \cup {None}
  PROVE  TypedEvents(Append(q, e))
BY DEF TypedEvents

LEMMA EndTyped ==
  ASSUME TypedServer, NEW s \in Source
  PROVE  TypedEvents(EventsOfEnd(selection, s))
<1>1. CASE Cancelling(selection, s) /\ source[selection].owner = Daemon
  <2>1. Event("cancelled", selection) \in Events
    BY <1>1, Bounds DEF Events, Event, TypedServer, Cancelling
  <2> QED BY <2>1, <1>1, AppendTyped DEF TypedServer, Event, EventsOfEnd
<1>2. CASE ~(Cancelling(selection, s) /\ source[selection].owner = Daemon)
  BY <1>2 DEF EventsOfEnd, TypedServer
<1> QED BY <1>1, <1>2

LEMMA ToldTyped ==
  ASSUME NEW src, TypedSources(src), NEW prev \in Source \cup {None}, NEW s \in Source
  PROVE  TypedSources(ToldOfEnd(src, prev, s))
BY Bounds DEF ToldOfEnd, Cancelling, TypedSources, Source

LEMMA EmitTyped ==
  ASSUME NEW q, TypedEvents(q), NEW src, TypedSources(src), NEW s \in Source \cup {None},
         TypedOffers(offer), EmitTo(q, s, src)
  PROVE  TypedEvents(toDaemon') /\ TypedOffers(offer')
<1>1. CASE s = None
  <2>1. Event("selection", None) \in Events
    BY DEF Events, Event, None
  <2> QED BY <2>1, <1>1, AppendTyped DEF EmitTo, Event
<1>2. CASE s # None /\ (src[s].owner = Daemon \/ src[s].types = {})
  BY <1>2 DEF EmitTo
<1>3. CASE s # None /\ ~(src[s].owner = Daemon \/ src[s].types = {})
  <2>1. PICK id \in FreeOffers :
          /\ offer' = [offer EXCEPT ![id] = [of |-> s, types |-> src[s].types]]
          /\ toDaemon' = q \o <<Event("data_offer", id), Event("selection", id)>>
    BY <1>3 DEF EmitTo
  <2>2. id \in OfferId /\ s \in Source
    BY <1>3 DEF FreeOffers
  <2>3. TypedOffers(offer')
    BY <2>1, <2>2 DEF TypedOffers, TypedSources
  <2>4. Event("data_offer", id) \in Events /\ Event("selection", id) \in Events
    BY <2>2, Bounds DEF Events, Event
  <2>5. toDaemon' = Append(Append(q, Event("data_offer", id)), Event("selection", id))
    BY <2>1, <2>4 DEF TypedEvents
  <2>6. TypedEvents(toDaemon')
    BY <2>2, <2>4, <2>5, AppendTyped DEF Event
  <2> QED BY <2>3, <2>6
<1> QED BY <1>1, <1>2, <1>3

LEMMA DestroyOffersTyped ==
  ASSUME TypedOffers(offer), NEW ids, DestroyOffers(ids) PROVE TypedOffers(offer')
BY DEF TypedOffers, DestroyOffers, NoOffer

LEMMA NewSourceTyped ==
  ASSUME TypedSources(source), NEW s \in Source, NEW o \in App \cup {Daemon}, NEW t \in SUBSET Type,
         NEW v \in Value \cup {Nothing}, s \in OwnSource => o = Daemon
  PROVE  TypedSources([source EXCEPT ![s] = NewSource(o, t, v)])
BY DEF TypedSources, NewSource

LEMMA ReceiveTyped ==
  ASSUME TypedServer, NEW id \in OfferId, NEW m, ReceiveType(id, m)
  PROVE  TypedPipe(pipe')
BY DEF ReceiveType, TypedServer, TypedOffers, TypedPipe, EmptyPipe

LEMMA TailTyped ==
  ASSUME NEW q, TypedEvents(q), q # <<>>
  PROVE  /\ TypedEvents(Tail(q)) /\ Head(q) \in Events
         /\ Head(q).ev = "data_offer" => Head(q).id \in OfferId
         /\ Head(q).ev = "selection" => Head(q).id \in OfferId \cup {None}
<1>1. /\ Len(q) \in Nat \ {0} /\ Tail(q) \in Seq(Events) /\ Len(Tail(q)) = Len(q) - 1
      /\ Head(q) = q[1] /\ q[1] \in Events /\ \A i \in 1 .. Len(Tail(q)) : Tail(q)[i] = q[i + 1]
  BY DEF TypedEvents
<1> QED BY <1>1 DEF TypedEvents

LEMMA RequestTyped ==
  ASSUME TypedDaemon, NEW q \in Seq(Requests)
  PROVE  /\ q \o DestroyMine \in Seq(Requests)
         /\ \A id \in OwnSource, t \in SUBSET Type :
              q \o DestroyMine \o <<Request("set_selection", id, t)>> \in Seq(Requests)
<1>1. DestroyMine \in Seq(Requests)
  <2>1. CASE mine.id = None
    BY <2>1 DEF DestroyMine
  <2>2. CASE mine.id # None
    <3>1. Request("destroy_source", mine.id, {}) \in Requests
      BY <2>2 DEF TypedDaemon, Requests, Request
    <3> QED BY <3>1, <2>2 DEF DestroyMine
  <2> QED BY <2>1, <2>2
<1>2. \A id \in OwnSource, t \in SUBSET Type : Request("set_selection", id, t) \in Requests
  BY DEF Requests, Request
<1> QED BY <1>1, <1>2

LEMMA BecomeOwnerTyped ==
  ASSUME Typed, NEW c, Entry(c), BecomeOwner(c)
  PROVE  /\ own' \in BOOLEAN /\ mine' \in [id : OwnSource \cup {None}, types : SUBSET Type]
         /\ fromDaemon' \in Seq(Requests)
<1>1. PICK id \in FreeOwn :
        /\ mine' = [id |-> id, types |-> DOMAIN c] /\ own' = TRUE
        /\ fromDaemon' = fromDaemon \o DestroyMine \o <<Request("set_selection", id, DOMAIN c)>>
  BY DEF BecomeOwner
<1>2. id \in OwnSource /\ DOMAIN c \in SUBSET Type
  BY DEF FreeOwn, Entry, IsClip
<1> QED BY <1>1, <1>2, RequestTyped DEF Typed, TypedServer

LEMMA SaveTyped ==
  ASSUME TypedKept, NEW h, Entries(h), Len(h) <= HistMax, Save(h)
  PROVE  Entries(saved') /\ Len(saved') <= HistMax /\ unsaved' \in BOOLEAN
<1>1. CASE unsaved' = FALSE /\ saved' = [i \in DOMAIN h |-> Primary(h[i])]
  <2>1. saved' = [i \in 1 .. Len(h) |-> Primary(h[i])] /\ Len(saved') = Len(h)
    BY <1>1 DEF Entries
  <2> QED BY <1>1, <2>1, PrimaryFacts DEF Entries
<1>2. CASE unsaved' = TRUE /\ saved' = saved
  BY <1>2 DEF TypedKept
<1> QED BY <1>1, <1>2 DEF Save

LEMMA PushTyped ==
  ASSUME TypedKept, NEW c, Entry(c)
  PROVE  LET h == HistoryPush(c)
         IN  Entries(h) /\ Len(h) <= HistMax /\ Len(h) > 0 /\ h[1] = c
<1> DEFINE all == <<c>> \o history
           n == IF Len(history) < HistMax THEN Len(history) + 1 ELSE HistMax
<1>1. CASE history # <<>> /\ history[1] = c
  BY <1>1 DEF HistoryPush, TypedKept, Entries
<1>2. CASE ~(history # <<>> /\ history[1] = c)
  <2>1. HistoryPush(c) = SubSeq(all, 1, n)
    BY <1>2 DEF HistoryPush
  <2>2. history \in Seq({x \in {history[i] : i \in 1 .. Len(history)} : Entry(x)})
    BY DEF TypedKept, Entries
  <2>3. /\ Len(history) \in Nat /\ HistMax \in Nat \ {0} /\ n \in Nat /\ n > 0 /\ n <= HistMax /\ n <= Len(history) + 1
    BY HistAssumption DEF TypedKept, Entries
  <2>4. Len(all) = Len(history) + 1 /\ all[1] = c /\ \A i \in 2 .. Len(all) : all[i] = history[i - 1]
    BY <2>2, <2>3
  <2>5. SubSeq(all, 1, n) = [i \in 1 .. n |-> all[i]]
    <3> DEFINE X == {history[i] : i \in 1 .. Len(history)} \cup {c}
    <3>1. <<c>> \in Seq(X) /\ history \in Seq(X)
      BY <2>2
    <3>2. all \in Seq(X)
      BY <3>1
    <3> HIDE DEF all, n, X
    <3>3. 1 \in 1 .. Len(all) + 1 /\ n \in 1 - 1 .. Len(all)
      BY <2>3, <2>4
    <3> QED
      BY <3>2, <3>3, SubSeqProperties, SMTT(30)
  <2>6. \A i \in 1 .. n : Entry(all[i])
    BY <2>3, <2>4 DEF TypedKept, Entries
  <2> QED BY <2>1, <2>3, <2>4, <2>5, <2>6 DEF Entries
<1> QED BY <1>1, <1>2

LEMMA PromoteTyped ==
  ASSUME TypedKept, NEW i \in DOMAIN history
  PROVE  LET h == Promote(i)
         IN  Entries(h) /\ Len(h) = Len(history) /\ Len(h) > 0 /\ h[1] = history[i]
<1> DEFINE E == {history[j] : j \in 1 .. Len(history)}
<1>1. history \in Seq(E) /\ Len(history) \in Nat /\ i \in 1 .. Len(history) /\ \A x \in E : Entry(x)
  BY DEF TypedKept, Entries
<1> DEFINE x == SubSeq(history, 1, i - 1)
           y == SubSeq(history, i + 1, Len(history))
<1>2. x \in Seq(E) /\ Len(x) = i - 1
  BY <1>1, SubSeqProperties
<1>3. y \in Seq(E) /\ Len(y) = Len(history) - i
  <2>1. \A j \in i + 1 .. Len(history) : history[j] \in E
    BY <1>1
  <2>2. i + 1 \in Int /\ Len(history) \in Int
    BY <1>1
  <2> HIDE DEF E
  <2>3. y \in Seq(E) /\ Len(y) = IF i + 1 <= Len(history) THEN Len(history) - (i + 1) + 1 ELSE 0
    BY <2>1, <2>2, SubSeqProperties
  <2> QED BY <1>1, <2>3
<1>4. RemoveAt(history, i) \in Seq(E) /\ Len(RemoveAt(history, i)) = Len(history) - 1
  <2>1. RemoveAt(history, i) = x \o y
    BY DEF RemoveAt
  <2> HIDE DEF x, y, E
  <2> QED BY <1>1, <1>2, <1>3, <2>1, ConcatProperties
<1>5. history[i] \in E
  BY <1>1
<1>6. Promote(i) \in Seq(E) /\ Len(Promote(i)) = Len(history) /\ Promote(i)[1] = history[i]
  BY <1>1, <1>4, <1>5 DEF Promote
<1> QED BY <1>1, <1>6 DEF Entries

LEMMA DeadTyped ==
  ASSUME TypedSources(source), NEW s \in Source
  PROVE  TypedSources([source EXCEPT ![s].live = FALSE])
<1> DEFINE src == [source EXCEPT ![s].live = FALSE]
<1>1. src = [x \in Source |-> IF x = s THEN [source[s] EXCEPT !.live = FALSE] ELSE source[x]]
  BY DEF TypedSources
<1>2. \A x \in Source : src[x] \in [owner : App \cup {Daemon}, types : SUBSET Type,
                                   value : Value \cup {Nothing}, live : BOOLEAN, cancelled : BOOLEAN]
  BY <1>1 DEF TypedSources
<1>3. \A x \in Source : src[x].owner = source[x].owner
  BY <1>1 DEF TypedSources
<1> HIDE DEF src
<1> QED BY <1>1, <1>2, <1>3 DEF TypedSources, Source

-----------------------------------------------------------------------------
(* Every action keeps the types.                                           *)

LEMMA CopyTyped ==
  ASSUME Typed, NEW a \in App, NEW t \in TypeSets, NEW v \in Value, Copy(a, t, v)
  PROVE  Typed'
<1> DEFINE s == copies + 1
           src == [source EXCEPT ![s] = NewSource(a, t, v)]
<1>1. s \in AppSource /\ s \in Source /\ s \notin OwnSource /\ copies' \in 0 .. MaxCopies
  BY Bounds DEF Typed, TypedDaemon, Copy, AppSource, Source
<1>2. /\ selection' = s /\ source' = ToldOfEnd(src, selection, s)
      /\ EmitTo(EventsOfEnd(selection, s), s, src)
      /\ UNCHANGED <<dirty, fromDaemon, pipe>>
  BY DEF Copy, CopyInto
<1>3. TypedSources(src)
  BY <1>1, TypeSetAssumption, NewSourceTyped DEF Typed, TypedServer, Type
<1>4. TypedSources(source') /\ TypedEvents(toDaemon') /\ TypedOffers(offer')
  BY <1>1, <1>2, <1>3, ToldTyped, EndTyped, EmitTyped DEF Typed, TypedServer
<1> QED BY <1>1, <1>2, <1>4 DEF Typed, TypedServer, TypedDaemon, TypedKept, Copy, daemonVars, keptVars, offerVars

LEMMA CopyMoreTyped ==
  ASSUME Typed, NEW s \in AppSource, NEW m \in Mime, CopyMore(s, m)
  PROVE  Typed'
<1> DEFINE src == [source EXCEPT ![s].types = @ \cup {m}]
<1>1. s \in Source
  BY DEF Source
<1>2. TypedSources(src)
  BY <1>1 DEF Typed, TypedServer, TypedSources, Type
<1>3. /\ source' = src /\ UNCHANGED <<selection, dirty, fromDaemon, pipe>>
      /\ IF selection = s THEN EmitTo(toDaemon, s, src) ELSE UNCHANGED <<toDaemon, offer>>
  BY DEF CopyMore, OfferType
<1>4. TypedEvents(toDaemon') /\ TypedOffers(offer')
  BY <1>1, <1>2, <1>3, EmitTyped DEF Typed, TypedServer
<1> QED BY <1>2, <1>3, <1>4 DEF Typed, TypedServer, TypedDaemon, TypedKept, CopyMore, daemonVars, keptVars, offerVars

LEMMA DropTyped ==
  ASSUME Typed, NEW s \in AppSource, DropCancelled(s) \/ Drop(s)
  PROVE  Typed'
<1>1. s \in Source
  BY DEF Source
<1>2. UNCHANGED <<daemonVars, copies>> /\ (DestroySource(s) \/ ClearSelection(s))
  BY DEF DropCancelled, Drop
<1>3. TypedServer'
  <2>1. CASE DestroySource(s)
    <3>1. TypedSources(source')
      BY <2>1, <1>1, DeadTyped DEF DestroySource, Typed, TypedServer
    <3>2. TypedEvents(toDaemon') /\ TypedOffers(offer') /\ selection' \in Source \cup {None}
      BY <2>1, <1>1, EmitTyped DEF DestroySource, Typed, TypedServer
    <3> QED BY <3>1, <3>2, <2>1 DEF DestroySource, Typed, TypedServer
  <2>2. CASE ClearSelection(s)
    BY <2>2, EmitTyped DEF ClearSelection, Typed, TypedServer
  <2> QED BY <1>2, <2>1, <2>2
<1> QED BY <1>2, <1>3 DEF Typed, TypedDaemon, TypedKept, daemonVars, keptVars, offerVars

LEMMA LeaveTyped ==
  ASSUME Typed, NEW a \in App, Leave(a)
  PROVE  Typed'
<1>1. UNCHANGED <<daemonVars, copies>> /\ Disconnect(a)
  BY DEF Leave
<1>2. TypedSources(source') /\ TypedPipe(pipe')
  BY <1>1 DEF Disconnect, Typed, TypedServer, TypedSources, TypedPipe, Source
<1>3. TypedEvents(toDaemon') /\ TypedOffers(offer') /\ selection' \in Source \cup {None}
  BY <1>1, EmitTyped DEF Disconnect, Typed, TypedServer
<1> QED BY <1>1, <1>2, <1>3 DEF Typed, TypedServer, TypedDaemon, TypedKept, Disconnect, daemonVars, keptVars, offerVars

LEMMA ServeTyped ==
  ASSUME Typed, Serve, UNCHANGED daemonVars, copies' = copies
  PROVE  Typed'
<1> DEFINE r == Head(fromDaemon)
<1>1. r \in Requests /\ fromDaemon' \in Seq(Requests)
  BY DEF Serve, Typed, TypedServer
<1>2. r.id \in OwnSource /\ r.id \in Source /\ r.types \in SUBSET Type
  BY <1>1 DEF Requests, Source
<1>3. TypedServer'
  <2>1. CASE SetSelection(r)
    <3> DEFINE src == [source EXCEPT ![r.id] = NewSource(Daemon, r.types, Nothing)]
    <3>1. TypedSources(src)
      BY <1>2, NewSourceTyped DEF Typed, TypedServer
    <3>2. TypedSources(source') /\ TypedEvents(toDaemon')
      BY <2>1, <1>2, <3>1, ToldTyped, EndTyped DEF SetSelection, Typed, TypedServer
    <3> QED BY <1>1, <1>2, <2>1, <3>2 DEF SetSelection, Typed, TypedServer
  <2>2. CASE DestroyOwnSource(r)
    <3>1. TypedSources(source')
      BY <2>2, <1>2, DeadTyped DEF DestroyOwnSource, Typed, TypedServer
    <3> QED BY <1>1, <2>2, <3>1 DEF DestroyOwnSource, Typed, TypedServer
  <2> QED BY <2>1, <2>2 DEF Serve
<1> QED BY <1>3 DEF Typed, TypedDaemon, TypedKept, daemonVars, keptVars, offerVars

LEMMA FlushBroadcastTyped ==
  ASSUME Typed, FlushBroadcast, UNCHANGED daemonVars, copies' = copies
  PROVE  Typed'
BY EmitTyped DEF FlushBroadcast, Typed, TypedServer, TypedDaemon, TypedKept, daemonVars, keptVars, offerVars

LEMMA PipeTyped ==
  ASSUME Typed, Pipe
  PROVE  Typed'
<1>1. TypedPipe(pipe')
  <2>1. CASE Answer
    <3>1. pipe.at \in Source
      BY <2>1 DEF Answer, Typed, TypedServer, TypedPipe
    <3> QED BY <2>1, <3>1 DEF Answer, Typed, TypedServer, TypedPipe, TypedSources, Data
  <2>2. CASE AnswerPart
    BY <2>2 DEF AnswerPart, Typed, TypedServer, TypedPipe, Data
  <2> QED BY <2>1, <2>2 DEF Pipe
<1> QED BY <1>1 DEF Pipe, Answer, AnswerPart, Typed, TypedServer, TypedDaemon, TypedKept, daemonVars, keptVars, offerVars, ghostVars

LEMMA PointersGoneTyped ==
  ASSUME TypedDaemon, PointersGone
  PROVE  \/ taking' = NoTake
         \/ /\ taking' \in [of : OfferId, pass : Nat, preferred : Type, mime : Type, clip : {taking'.clip},
                           preferredGone : BOOLEAN, mimeGone : BOOLEAN]
            /\ IsClip(taking'.clip) /\ taking # NoTake /\ taking'.of = taking.of
BY DEF TypedDaemon, PointersGone

LEMMA DispatchTyped ==
  ASSUME Typed, Dispatch
  PROVE  Typed'
<1> DEFINE e == Head(toDaemon)
<1>1. /\ TypedEvents(toDaemon') /\ UNCHANGED <<selection, dirty, source, pipe, current, history, saved, unsaved, ghostVars>>
      /\ e.ev = "data_offer" => e.id \in OfferId
      /\ e.ev = "selection" => e.id \in OfferId \cup {None}
  BY TailTyped DEF Dispatch, Typed, TypedServer
<1>2. CASE e.ev = "data_offer" /\ DeviceDataOffer(e.id)
  <2>1. mimes' \in Seq(Type)
    <3>1. offer[e.id].types \in SUBSET Type
      BY <1>1, <1>2 DEF Typed, TypedServer, TypedOffers
    <3> QED BY <1>2, <3>1, ListOfTypes DEF DeviceDataOffer
  <2>2. TypedOffers(offer')
    BY <1>2, DestroyOffersTyped DEF DeviceDataOffer, Typed, TypedServer
  <2>3. TypedDaemon'
    BY <1>1, <1>2, <2>1, PointersGoneTyped DEF DeviceDataOffer, Typed, TypedDaemon, ghostVars
  <2> QED BY <1>1, <1>2, <2>2, <2>3 DEF DeviceDataOffer, Typed, TypedServer, TypedKept
<1>3. CASE e.ev = "selection" /\ DeviceSelection(e.id)
  <2>1. TypedOffers(offer')
    BY <1>3, DestroyOffersTyped DEF DeviceSelection, Typed, TypedServer
  <2>2. /\ mimes' \in Seq(Type) /\ held' \subseteq OfferId /\ pending' \in OfferId \cup {None}
        /\ PointersGone \/ taking' = taking
    <3>1. /\ held' = held \ ({pending} \ {e.id}) /\ pending' = e.id
          /\ IF e.id = None THEN mimes' = <<>> /\ PointersGone ELSE UNCHANGED <<mimes, taking>>
      BY <1>3 DEF DeviceSelection
    <3>2. mimes' = <<>> \/ mimes' = mimes
      BY <3>1
    <3>3. <<>> \in Seq(Type) /\ mimes \in Seq(Type)
      BY DEF Typed, TypedDaemon
    <3>4. mimes' \in Seq(Type)
      BY <3>2, <3>3
    <3> QED BY <1>1, <1>3, <3>1, <3>4 DEF Typed, TypedDaemon
  <2>3. TypedDaemon'
    BY <1>1, <1>3, <2>2, PointersGoneTyped DEF DeviceSelection, Typed, TypedDaemon, ghostVars
  <2> QED BY <1>1, <1>3, <2>1, <2>3 DEF DeviceSelection, Typed, TypedServer, TypedKept
<1>4. CASE e.ev = "cancelled" /\ SourceCancelled(e.id)
  <2>1. /\ fromDaemon' \in Seq(Requests) /\ own' \in BOOLEAN
        /\ mine' \in [id : OwnSource \cup {None}, types : SUBSET Type]
    <3>1. CASE mine.id = e.id
      <4>1. fromDaemon' \in Seq(Requests)
        BY <1>4, <3>1, RequestTyped DEF SourceCancelled, Typed, TypedServer
      <4>2. mine' = NoSource /\ own' = FALSE
        BY <1>4, <3>1 DEF SourceCancelled
      <4> QED BY <4>1, <4>2 DEF NoSource
    <3>2. CASE mine.id # e.id
      <4>1. UNCHANGED <<fromDaemon, mine, own>>
        BY <1>4, <3>2 DEF SourceCancelled
      <4> QED BY <4>1 DEF Typed, TypedServer, TypedDaemon
    <3> QED BY <3>1, <3>2
  <2> QED BY <1>1, <1>4, <2>1 DEF SourceCancelled, Typed, TypedServer, TypedDaemon, TypedKept, ghostVars
<1> QED BY <1>2, <1>3, <1>4 DEF Dispatch

LEMMA DrainTyped ==
  ASSUME Typed, DrainPendingOffer
  PROVE  Typed'
<1>1. pending \in OfferId /\ UNCHANGED <<selection, dirty, source, toDaemon, fromDaemon, keptVars, g_offer, mimes, ghostVars>>
  BY DEF DrainPendingOffer, Typed, TypedDaemon
<1>2. CASE mimes = <<>>
  <2>1. TypedOffers(offer')
    BY <1>2, DestroyOffersTyped DEF DrainPendingOffer, Typed, TypedServer
  <2> QED BY <1>1, <1>2, <2>1 DEF DrainPendingOffer, Typed, TypedServer, TypedDaemon, TypedKept, keptVars, ghostVars
<1>3. CASE mimes # <<>>
  <2>1. PickMime \in Type
    BY <1>3, MimeAssumption DEF PickMime, Type, Typed, TypedDaemon
  <2>2. /\ taking' \in [of : OfferId, pass : Nat, preferred : Type, mime : Type, clip : {Empty},
                       preferredGone : BOOLEAN, mimeGone : BOOLEAN]
        /\ taking'.clip = Empty
    <3>1. taking' = [of |-> pending, pass |-> 0, preferred |-> PickMime, mime |-> PickMime,
                     clip |-> Empty, preferredGone |-> FALSE, mimeGone |-> FALSE]
      BY <1>3 DEF DrainPendingOffer
    <3> QED BY <1>1, <2>1, <3>1
  <2>3. TypedPipe(pipe')
    BY <1>1, <1>3, ReceiveTyped DEF DrainPendingOffer, Typed
  <2> QED BY <1>1, <1>3, <2>2, <2>3, EmptyIsClip DEF DrainPendingOffer, Typed, TypedServer, TypedDaemon, TypedKept, keptVars, ghostVars
<1> QED BY <1>2, <1>3

LEMMA ReceivedTyped ==
  ASSUME Typed, taking # NoTake, NEW c, IsClip(c), Received(c), copies' = copies, dirty' = dirty, source' = source
  PROVE  Typed'
<1>1. /\ UNCHANGED <<selection, dirty, source, toDaemon, g_offer, pending>> /\ taking.of \in OfferId
  BY DEF Received, Typed, TypedDaemon
<1>2. ASSUME NEW p \in 1 .. Len(mimes), Continue(c, p) PROVE Typed'
  <2>1. mimes[p] \in Type /\ p \in Nat
    BY DEF Typed, TypedDaemon
  <2>2. /\ taking' \in [of : OfferId, pass : Nat, preferred : Type, mime : Type, clip : {c},
                       preferredGone : BOOLEAN, mimeGone : BOOLEAN]
        /\ taking'.clip = c
    BY <1>2, <2>1 DEF Continue, Typed, TypedDaemon
  <2>3. TypedPipe(pipe')
    BY <1>1, <1>2, ReceiveTyped DEF Continue, Typed
  <2> QED BY <1>1, <1>2, <2>2, <2>3 DEF Continue, Typed, TypedServer, TypedDaemon, TypedKept, keptVars
<1>3. ASSUME Finish(c) PROVE Typed'
  <2>1. /\ TypedOffers(offer') /\ TypedPipe(pipe')
        /\ taking' = NoTake /\ mimes' = <<>> /\ held' = held \ {taking.of}
    BY <1>3, DestroyOffersTyped DEF Finish, EmptyPipe, TypedPipe, Typed, TypedServer
  <2>2. /\ own' \in BOOLEAN /\ mine' \in [id : OwnSource \cup {None}, types : SUBSET Type]
        /\ fromDaemon' \in Seq(Requests)
    BY <1>3, EmptyIsClip, BecomeOwnerTyped DEF Finish, Typed, TypedServer, TypedDaemon, keptVars
  <2>3. TypedKept'
    <3>1. CASE c # Empty /\ c # current /\ current' = c /\ history' = HistoryPush(c) /\ Save(history')
      <4>1. Entry(c)
        BY <3>1, EmptyIsClip
      <4>2. Entries(history') /\ Len(history') <= HistMax
        BY <3>1, <4>1, PushTyped DEF Typed
      <4> QED BY <3>1, <4>2, SaveTyped DEF Typed, TypedKept
    <3>2. CASE UNCHANGED <<current, history, saved, unsaved>>
      BY <3>2 DEF Typed, TypedKept
    <3> QED BY <1>3, <3>1, <3>2 DEF Finish, keptVars
  <2> QED BY <1>1, <2>1, <2>2, <2>3 DEF Typed, TypedServer, TypedDaemon
<1> QED BY <1>2, <1>3 DEF Received

(* What is received next, from ReadToEnd and ReceiveTimeout.               *)
LEMMA ReceivingIs ==
  ASSUME Typed, ReadToEnd \/ ReceiveTimeout
  PROVE  /\ taking # NoTake /\ copies' = copies
         /\ \E c : IsClip(c) /\ Received(c)
<1>1. taking # NoTake /\ copies' = copies /\ IsClip(taking.clip) /\ taking.mime \in Type
  BY DEF ReadToEnd, ReceiveTimeout, ghostVars, Typed, TypedDaemon
<1>2. CASE pipe.data = Nothing
  BY <1>1, <1>2 DEF ReadToEnd, ReceiveTimeout
<1>3. CASE pipe.data # Nothing
  <2>1. pipe.data \in Data
    BY <1>3 DEF Typed, TypedServer, TypedPipe
  <2>2. PICK m \in Read(taking.mime, taking.mimeGone) : Received(With(taking.clip, m, pipe.data))
    BY <1>3 DEF ReadToEnd, ReceiveTimeout
  <2>3. m \in Type
    BY <1>1, <2>2 DEF Read, Type
  <2> QED BY <1>1, <2>1, <2>2, <2>3, WithIsClip DEF Entry
<1> QED BY <1>1, <1>2, <1>3

LEMMA ReceivingTyped ==
  ASSUME Typed, ReadToEnd \/ ReceiveTimeout
  PROVE  Typed'
<1>1. PICK c : IsClip(c) /\ Received(c)
  BY ReceivingIs
<1>2. taking # NoTake /\ copies' = copies
  BY ReceivingIs
<1>3. dirty' = dirty /\ source' = source
  BY <1>1 DEF Received
<1> QED BY <1>1, <1>2, <1>3, ReceivedTyped

LEMMA SelectTyped ==
  ASSUME Typed, NEW i \in 1 .. HistMax, Select(i)
  PROVE  Typed'
<1>1. /\ i \in DOMAIN history /\ current' = history[i] /\ history' = Promote(i) /\ Save(history')
      /\ BecomeOwner(history[i])
      /\ UNCHANGED <<selection, dirty, source, offer, toDaemon, pipe, offerVars, copies>>
  BY DEF Select
<1>2. Entry(history[i]) /\ IsClip(current')
  BY <1>1 DEF Typed, TypedKept, Entries, Entry
<1>3. Entries(history') /\ Len(history') <= HistMax
  BY <1>1, PromoteTyped DEF Typed, TypedKept
<1>4. TypedKept'
  BY <1>1, <1>2, <1>3, SaveTyped DEF Typed, TypedKept
<1>5. /\ own' \in BOOLEAN /\ mine' \in [id : OwnSource \cup {None}, types : SUBSET Type]
      /\ fromDaemon' \in Seq(Requests)
  BY <1>1, <1>2, BecomeOwnerTyped
<1> QED BY <1>1, <1>4, <1>5 DEF Typed, TypedServer, TypedDaemon, offerVars

LEMMA NoEntries == Entries(<<>>)
BY DEF Entries

LEMMA ClearTyped ==
  ASSUME Typed, Clear
  PROVE  Typed'
<1>1. /\ history' = <<>> /\ current' = Empty /\ Save(<<>>)
      /\ fromDaemon' = fromDaemon \o DestroyMine /\ mine' = NoSource
      /\ own' = (own /\ mine.id = None)
      /\ UNCHANGED <<selection, dirty, source, offer, toDaemon, pipe, offerVars, copies>>
  BY DEF Clear
<1>2. TypedKept'
  <2>1. Entries(saved') /\ Len(saved') <= HistMax /\ unsaved' \in BOOLEAN
    BY <1>1, SaveTyped, NoEntries, HistAssumption DEF Typed
  <2> QED BY <1>1, <2>1, EmptyIsClip, NoEntries, HistAssumption DEF TypedKept
<1>3. fromDaemon' \in Seq(Requests)
  BY <1>1, RequestTyped DEF Typed, TypedServer
<1>4. own' \in BOOLEAN /\ mine' \in [id : OwnSource \cup {None}, types : SUBSET Type]
  <2>1. mine' = [id |-> None, types |-> {}]
    BY <1>1 DEF NoSource
  <2>2. own' \in BOOLEAN
    BY <1>1
  <2> QED BY <2>1, <2>2
<1> QED BY <1>1, <1>2, <1>3, <1>4 DEF Typed, TypedServer, TypedDaemon, offerVars

LEMMA RestartTyped ==
  ASSUME Typed, Restart
  PROVE  Typed'
<1> DEFINE sel == IF selection \in OwnSource THEN None ELSE selection
           told == sel # None /\ source[sel].types # {}
           first == IF told THEN 1 ELSE None
           clip == IF saved = <<>> THEN Empty ELSE saved[1]
           id == MaxCopies + 1
<1>1. /\ selection' = sel /\ dirty' = FALSE
      /\ source' = [s \in Source |-> IF s \in OwnSource THEN [source[s] EXCEPT !.live = FALSE] ELSE source[s]]
      /\ offer' = [o \in OfferId |-> IF o = first THEN [of |-> sel, types |-> source[sel].types] ELSE NoOffer]
      /\ toDaemon' = <<>> /\ pipe' = EmptyPipe /\ taking' = NoTake
      /\ g_offer' = None /\ pending' = first /\ held' = {first} \ {None}
      /\ mimes' \in IF told THEN SetToSeqs(source[sel].types) ELSE {<<>>}
      /\ history' = saved /\ current' = clip /\ unsaved' = FALSE
      /\ IF clip = Empty
         THEN mine' = NoSource /\ own' = FALSE /\ fromDaemon' = <<>>
         ELSE /\ mine' = [id |-> id, types |-> DOMAIN clip] /\ own' = TRUE
              /\ fromDaemon' = <<Request("set_selection", id, DOMAIN clip)>>
      /\ UNCHANGED <<saved, copies>>
  BY DEF Restart
<1>2. /\ sel \in Source \cup {None} /\ first \in OfferId \cup {None} /\ id \in OwnSource
      /\ told => sel \in Source
  BY Bounds DEF Typed, TypedServer, OfferId, OwnSource
<1>3. /\ IsClip(clip) /\ (clip # Empty => Entry(clip))
  <2>1. CASE saved = <<>>
    BY <2>1, EmptyIsClip
  <2>2. CASE saved # <<>>
    <3>1. Len(saved) > 0
      BY <2>2 DEF Typed, TypedKept, Entries
    <3> QED BY <2>2, <3>1 DEF Typed, TypedKept, Entries, Entry
  <2> QED BY <2>1, <2>2
<1> HIDE DEF sel, told, first, clip, id
<1> DEFINE T == [owner : App \cup {Daemon}, types : SUBSET Type,
                 value : Value \cup {Nothing}, live : BOOLEAN, cancelled : BOOLEAN]
<1>4. TypedSources(source') /\ TypedPipe(pipe') /\ TypedEvents(toDaemon')
  <2>1. \A s \in Source : source[s] \in T
    BY DEF Typed, TypedServer, TypedSources
  <2>2. \A s \in Source : [source[s] EXCEPT !.live = FALSE] \in T /\ [source[s] EXCEPT !.live = FALSE].owner = source[s].owner
    BY <2>1
  <2> HIDE DEF T
  <2>3. source' \in [Source -> T] /\ \A s \in OwnSource : source'[s].owner = Daemon
    BY <1>1, <2>1, <2>2 DEF Typed, TypedServer, TypedSources, Source
  <2>4. TypedSources(source')
    BY <2>3 DEF TypedSources, T
  <2>5. TypedPipe(pipe')
    BY <1>1 DEF TypedPipe, EmptyPipe
  <2>6. TypedEvents(toDaemon')
    BY <1>1 DEF TypedEvents
  <2> QED BY <2>4, <2>5, <2>6
<1> HIDE DEF T
<1>5. TypedOffers(offer')
  <2>1. ASSUME told PROVE source[sel].types \in SUBSET Type
    BY <1>2, <2>1 DEF Typed, TypedServer, TypedSources
  <2>2. ~told => first \notin OfferId
    BY Bounds DEF first
  <2> QED BY <1>1, <1>2, <2>1, <2>2 DEF TypedOffers, NoOffer
<1>6. /\ fromDaemon' \in Seq(Requests) /\ own' \in BOOLEAN
      /\ mine' \in [id : OwnSource \cup {None}, types : SUBSET Type]
  <2>1. CASE clip = Empty
    <3>1. fromDaemon' = <<>> /\ own' = FALSE /\ mine' = [id |-> None, types |-> {}]
      BY <1>1, <2>1 DEF NoSource
    <3>2. <<>> \in Seq(Requests)
      OBVIOUS
    <3> QED BY <3>1, <3>2
  <2>2. CASE clip # Empty
    <3>1. DOMAIN clip \in SUBSET Type
      BY <1>3 DEF IsClip
    <3>2. Request("set_selection", id, DOMAIN clip) \in Requests
      BY <1>2, <3>1 DEF Requests, Request
    <3>3. fromDaemon' = <<Request("set_selection", id, DOMAIN clip)>> /\ own' = TRUE
          /\ mine' = [id |-> id, types |-> DOMAIN clip]
      BY <1>1, <2>2
    <3>4. <<Request("set_selection", id, DOMAIN clip)>> \in Seq(Requests)
      BY <3>2
    <3> QED BY <1>2, <3>1, <3>3, <3>4
  <2> QED BY <2>1, <2>2
<1>7. mimes' \in Seq(Type)
  <2>1. CASE told
    <3>1. source[sel].types \in SUBSET Type
      BY <1>2, <2>1 DEF Typed, TypedServer, TypedSources
    <3> QED BY <1>1, <2>1, <3>1, ListOfTypes
  <2>2. CASE ~told
    <3>1. mimes' = <<>>
      BY <1>1, <2>2
    <3> QED BY <3>1
  <2> QED BY <2>1, <2>2
<1>8. TypedKept'
  BY <1>1, <1>3 DEF Typed, TypedKept
<1>9. held' \subseteq OfferId
  BY <1>1, <1>2
<1> QED BY <1>1, <1>2, <1>4, <1>5, <1>6, <1>7, <1>8, <1>9 DEF Typed, TypedServer, TypedDaemon

LEMMA InitTyped == Init => Typed
<1> SUFFICES ASSUME Init PROVE Typed
  OBVIOUS
<1>1. TypedServer
  <2>1. TypedSources(source)
    BY DEF Init, TypedSources, Source
  <2>2. TypedOffers(offer) /\ TypedPipe(pipe)
    BY DEF Init, TypedOffers, NoOffer, TypedPipe, EmptyPipe
  <2>3. TypedEvents(toDaemon) /\ fromDaemon \in Seq(Requests)
    <3>1. <<>> \in Seq(Requests) /\ <<>> \in Seq(Events)
      OBVIOUS
    <3> QED BY <3>1 DEF Init, TypedEvents
  <2> QED BY <2>1, <2>2, <2>3 DEF Init, TypedServer
<1>2. TypedKept
  <2>1. current = Empty /\ history = <<>> /\ saved = <<>> /\ unsaved = FALSE
    BY DEF Init
  <2>2. IsClip(Empty) /\ Entries(<<>>) /\ Len(<<>>) <= HistMax
    BY EmptyIsClip, NoEntries, HistAssumption
  <2> QED BY <2>1, <2>2 DEF TypedKept
<1>3. TypedDaemon
  <2>1. mimes \in Seq(Type)
    <3>1. <<>> \in Seq(Type)
      OBVIOUS
    <3> QED BY <3>1 DEF Init
  <2>2. mine \in [id : OwnSource \cup {None}, types : SUBSET Type]
    BY DEF Init, NoSource
  <2>3. own \in BOOLEAN /\ g_offer = None /\ pending = None /\ held = {} /\ taking = NoTake /\ copies = 0
    BY DEF Init
  <2> QED BY <2>1, <2>2, <2>3, Bounds DEF TypedDaemon
<1> QED BY <1>1, <1>2, <1>3 DEF Typed

(* Who acts in a step: an application, the user, the compositor, a pipe,   *)
(* or the daemon.                                                          *)
LEMMA NextTyped == Typed /\ [Next]_vars => Typed'
<1> SUFFICES ASSUME Typed, [Next]_vars PROVE Typed'
  OBVIOUS
<1>1. CASE Applications
  BY <1>1, CopyTyped, CopyMoreTyped, DropTyped, LeaveTyped DEF Applications
<1>2. CASE User
  BY <1>2, SelectTyped, ClearTyped, RestartTyped DEF User
<1>3. CASE Server
  BY <1>3, ServeTyped, FlushBroadcastTyped DEF Server, ghostVars
<1>4. CASE Pipe
  BY <1>4, PipeTyped
<1>5. CASE DaemonRuns
  BY <1>5, DispatchTyped, DrainTyped, ReceivingTyped DEF DaemonRuns
<1>6. CASE UNCHANGED vars
  BY <1>6 DEF vars, serverVars, keptVars, offerVars, ghostVars, Typed, TypedServer, TypedDaemon, TypedKept
<1> QED BY <1>1, <1>2, <1>3, <1>4, <1>5, <1>6 DEF Next

LEMMA Typing == Spec => []Typed
BY InitTyped, NextTyped, PTL DEF Spec

(* For all applications, types, contents and bounds every reachable state  *)
(* is well typed, and the history never outgrows g.history.                *)
THEOREM TypeCorrect == Spec => []TypeOK
<1>1. Typed => TypeOK
  BY DEF Typed, TypedServer, TypedDaemon, TypedKept, TypeOK, IsClip, Type, Data
<1> QED BY <1>1, Typing, PTL

-----------------------------------------------------------------------------
(* What is kept: the content that is served, the history and the file,     *)
(* which has of each entry what a restart will take it to be.              *)

FileReadsBack == \A i \in DOMAIN saved : Primary(saved[i]) = saved[i]
Serves == Servable /\ HeadIsCurrent /\ FileReadsBack

LEMMA KeptStays ==
  ASSUME Serves, UNCHANGED <<current, history, saved, unsaved>>, mine'.types \in {mine.types, DOMAIN current, {}}
  PROVE  Serves'
BY DEF Serves, Servable, HeadIsCurrent, FileReadsBack

LEMMA OwnerOffers ==
  ASSUME NEW c, BecomeOwner(c) PROVE mine'.types = DOMAIN c
BY DEF BecomeOwner

LEMMA SavedIs ==
  ASSUME FileReadsBack, NEW h, Entries(h), Save(h)
  PROVE  /\ ~unsaved' => saved' = [i \in DOMAIN h |-> Primary(h[i])]
         /\ FileReadsBack'
<1>1. CASE unsaved' = FALSE /\ saved' = [i \in DOMAIN h |-> Primary(h[i])]
  <2>1. \A i \in DOMAIN saved' : Primary(saved'[i]) = saved'[i]
    BY <1>1, PrimaryFacts DEF Entries
  <2> QED BY <1>1, <2>1 DEF FileReadsBack
<1>2. CASE unsaved' = TRUE /\ saved' = saved
  BY <1>2 DEF FileReadsBack
<1> QED BY <1>1, <1>2 DEF Save

LEMMA ReceivedServes ==
  ASSUME Typed, Serves, NEW c, IsClip(c), Received(c) PROVE Serves'
<1>1. CASE \E p \in 1 .. Len(mimes) : Continue(c, p)
  BY <1>1, KeptStays DEF Continue, keptVars
<1>2. CASE Finish(c) /\ UNCHANGED <<current, history, saved, unsaved>>
  BY <1>2, KeptStays, OwnerOffers DEF Finish, keptVars
<1>3. CASE /\ c # Empty /\ c # current /\ current' = c
           /\ history' = HistoryPush(c) /\ Save(history') /\ BecomeOwner(c)
  <2>1. Entry(c)
    BY <1>3, EmptyIsClip
  <2>2. Entries(history') /\ Len(history') > 0 /\ history'[1] = c
    BY <1>3, <2>1, PushTyped DEF Typed
  <2>3. history' # <<>>
    BY <2>2
  <2> QED BY <1>3, <2>2, <2>3, SavedIs, OwnerOffers DEF Serves, Servable, HeadIsCurrent
<1> QED BY <1>1, <1>2, <1>3 DEF Received, Finish, keptVars

LEMMA SelectServes ==
  ASSUME Typed, Serves, NEW i \in 1 .. HistMax, Select(i) PROVE Serves'
<1>1. /\ i \in DOMAIN history /\ current' = history[i] /\ history' = Promote(i) /\ Save(history')
      /\ BecomeOwner(history[i])
  BY DEF Select
<1>2. Entries(history') /\ Len(history') > 0 /\ history'[1] = history[i]
  <2>1. Entries(Promote(i)) /\ Len(Promote(i)) = Len(history) /\ Len(Promote(i)) > 0 /\ Promote(i)[1] = history[i]
    BY <1>1, PromoteTyped DEF Typed
  <2> QED BY <1>1, <2>1
<1>3. history' # <<>>
  BY <1>2
<1> QED BY <1>1, <1>2, <1>3, SavedIs, OwnerOffers DEF Serves, Servable, HeadIsCurrent

LEMMA ClearServes ==
  ASSUME Serves, Clear PROVE Serves'
BY EmptyIsClip, NoEntries, SavedIs DEF Clear, NoSource, Serves, Servable, HeadIsCurrent

LEMMA RestartServes ==
  ASSUME Typed, Serves, Restart PROVE Serves'
<1> DEFINE clip == IF saved = <<>> THEN Empty ELSE saved[1]
<1>1. /\ history' = saved /\ current' = clip /\ saved' = saved
      /\ mine'.types = DOMAIN clip \/ mine'.types = {}
  BY DEF Restart, NoSource
<1>2. saved = [i \in DOMAIN saved |-> Primary(saved[i])]
  BY DEF Serves, FileReadsBack, Typed, TypedKept, Entries
<1> QED BY <1>1, <1>2 DEF Serves, Servable, HeadIsCurrent, FileReadsBack

LEMMA NextServes == Typed /\ Serves /\ [Next]_vars => Serves'
<1> SUFFICES ASSUME Typed, Serves, [Next]_vars PROVE Serves'
  OBVIOUS
<1>1. CASE Applications
  BY <1>1, KeptStays DEF Applications, Copy, CopyMore, DropCancelled, Drop, Leave, daemonVars, keptVars
<1>2. CASE User
  BY <1>2, SelectServes, ClearServes, RestartServes DEF User
<1>3. CASE Server
  BY <1>3, KeptStays DEF Server, daemonVars, keptVars
<1>4. CASE Pipe
  BY <1>4, KeptStays DEF Pipe, Answer, AnswerPart, daemonVars, keptVars
<1>5. CASE Dispatch
  <2>1. mine'.types \in {mine.types, {}} /\ UNCHANGED <<current, history, saved, unsaved>>
    BY <1>5 DEF Dispatch, DeviceDataOffer, DeviceSelection, SourceCancelled, NoSource
  <2> QED BY <2>1, KeptStays
<1>6. CASE DrainPendingOffer
  BY <1>6, KeptStays DEF DrainPendingOffer, keptVars
<1>7. CASE ReadToEnd \/ ReceiveTimeout
  BY <1>7, ReceivingIs, ReceivedServes
<1>8. CASE UNCHANGED vars
  BY <1>8, KeptStays DEF vars, keptVars
<1> QED BY <1>1, <1>2, <1>3, <1>4, <1>5, <1>6, <1>7, <1>8 DEF Next, DaemonRuns

LEMMA Serving == Spec => []Serves
<1>1. Init => Serves
  BY EmptyIsClip DEF Init, Serves, Servable, HeadIsCurrent, FileReadsBack, NoSource
<1> QED BY <1>1, NextServes, Typing, PTL DEF Spec

(* Whatever types the source of the daemon offers, source_send finds their *)
(* content in g.current.                                                   *)
THEOREM AlwaysServable == Spec => []Servable
<1>1. Serves => Servable
  BY DEF Serves
<1> QED BY <1>1, Serving, PTL

(* What is served is the newest entry, and the file has all the entries    *)
(* unless the last history_save failed.                                    *)
THEOREM HeadStaysCurrent == Spec => []HeadIsCurrent
<1>1. Serves => HeadIsCurrent
  BY DEF Serves
<1> QED BY <1>1, Serving, PTL

-----------------------------------------------------------------------------
(* The offers.  What is announced is an offer nobody has yet, followed by  *)
(* the event that makes it the selection; between the two it is g.offer.   *)

Queued(q, off, h, g) ==
  /\ \A i \in 1 .. Len(q) : q[i].ev = "data_offer" =>
       /\ q[i].id \in OfferId \ h /\ off[q[i].id] # NoOffer
       /\ i < Len(q) /\ q[i + 1] = Event("selection", q[i].id)
       /\ \A j \in 1 .. Len(q) : q[j].ev = "data_offer" /\ q[j].id = q[i].id => i = j
  /\ \A i \in 1 .. Len(q) : q[i].ev = "selection" /\ q[i].id # None =>
       IF i = 1 THEN g = q[i].id ELSE q[i - 1] = Event("data_offer", q[i].id)
  /\ g # None => Len(q) > 0 /\ q[1] = Event("selection", g)
  /\ \A id \in h : off[id] # NoOffer

Holds == held = {g_offer, pending, taking.of} \ {None}
Distinct == /\ g_offer # None => g_offer # pending /\ g_offer # taking.of
            /\ pending # None => pending # taking.of
Offers == Queued(toDaemon, offer, held, g_offer) /\ Holds /\ Distinct

LEMMA AppendQueued ==
  ASSUME NEW q, TypedEvents(q), NEW off, NEW h, NEW g, Queued(q, off, h, g),
         NEW e \in Events, e.ev # "data_offer", e.ev = "selection" => e.id = None
  PROVE  Queued(Append(q, e), off, h, g)
<1> DEFINE p == Append(q, e)
<1>1. /\ Len(q) \in Nat /\ Len(p) = Len(q) + 1 /\ p[Len(p)] = e
      /\ \A i \in 1 .. Len(q) : p[i] = q[i]
  BY DEF TypedEvents
<1> HIDE DEF p
<1>2. \A i \in 1 .. Len(p) : i = Len(p) \/ (i \in 1 .. Len(q) /\ p[i] = q[i])
  BY <1>1
<1>3. \A i \in 1 .. Len(p) : p[i].ev = "data_offer" =>
       /\ p[i].id \in OfferId \ h /\ off[p[i].id] # NoOffer
       /\ i < Len(p) /\ p[i + 1] = Event("selection", p[i].id)
       /\ \A j \in 1 .. Len(p) : p[j].ev = "data_offer" /\ p[j].id = p[i].id => i = j
  BY <1>1, <1>2 DEF Queued
<1>4. \A i \in 1 .. Len(p) : p[i].ev = "selection" /\ p[i].id # None =>
       IF i = 1 THEN g = p[i].id ELSE p[i - 1] = Event("data_offer", p[i].id)
  BY <1>1, <1>2 DEF Queued
<1>5. g # None => Len(p) > 0 /\ p[1] = Event("selection", g)
  BY <1>1, <1>2 DEF Queued
<1> QED BY <1>3, <1>4, <1>5 DEF Queued, p

LEMMA OfferQueued ==
  ASSUME NEW q, TypedEvents(q), NEW off, TypedOffers(off), NEW h, NEW g, Queued(q, off, h, g), g \in OfferId \cup {None},
         NEW id \in OfferId, off[id] = NoOffer, NEW o, o # NoOffer
  PROVE  Queued(q \o <<Event("data_offer", id), Event("selection", id)>>, [off EXCEPT ![id] = o], h, g)
<1> DEFINE p == q \o <<Event("data_offer", id), Event("selection", id)>>
           new == [off EXCEPT ![id] = o]
           n == Len(q)
<1>1. /\ n \in Nat /\ Len(p) = n + 2 /\ p[n + 1] = Event("data_offer", id) /\ p[n + 2] = Event("selection", id)
      /\ \A i \in 1 .. n : p[i] = q[i]
  BY DEF TypedEvents
<1>2. \A i \in 1 .. Len(p) : i = n + 1 \/ i = n + 2 \/ (i \in 1 .. n /\ p[i] = q[i])
  BY <1>1
<1>3. \A x \in OfferId : new[x] = IF x = id THEN o ELSE off[x]
  BY DEF TypedOffers
<1>4. /\ \A x \in h : x # id /\ off[x] # NoOffer
      /\ \A i \in 1 .. n : q[i].ev = "data_offer" => q[i].id # id
  BY DEF Queued
<1>5. /\ p[n + 1].ev = "data_offer" /\ p[n + 1].id = id /\ p[n + 2].ev = "selection" /\ p[n + 2].id = id
  BY <1>1 DEF Event
<1>6. id \notin h
  BY <1>4
<1> HIDE DEF p, new
<1>7. \A x \in h : new[x] # NoOffer
  BY <1>3, <1>4 DEF Queued, TypedOffers, new
<1>8. \A i \in 1 .. Len(p) : p[i].ev = "data_offer" =>
       /\ p[i].id \in OfferId \ h /\ new[p[i].id] # NoOffer
       /\ i < Len(p) /\ p[i + 1] = Event("selection", p[i].id)
       /\ \A j \in 1 .. Len(p) : p[j].ev = "data_offer" /\ p[j].id = p[i].id => i = j
  <2> SUFFICES ASSUME NEW i \in 1 .. Len(p), p[i].ev = "data_offer"
               PROVE  /\ p[i].id \in OfferId \ h /\ new[p[i].id] # NoOffer
                      /\ i < Len(p) /\ p[i + 1] = Event("selection", p[i].id)
                      /\ \A j \in 1 .. Len(p) : p[j].ev = "data_offer" /\ p[j].id = p[i].id => i = j
    OBVIOUS
  <2>1. CASE i = n + 1
    BY <2>1, <1>1, <1>2, <1>3, <1>4, <1>5, <1>6
  <2>2. CASE i \in 1 .. n
    <3>1. /\ q[i].ev = "data_offer" /\ p[i] = q[i] /\ i < n /\ q[i + 1] = Event("selection", q[i].id)
          /\ q[i].id \in OfferId \ h /\ off[q[i].id] # NoOffer
          /\ \A j \in 1 .. n : q[j].ev = "data_offer" /\ q[j].id = q[i].id => i = j
      BY <2>2, <1>1 DEF Queued
    <3>2. p[i + 1] = q[i + 1] /\ q[i].id # id
      BY <2>2, <3>1, <1>1, <1>4
    <3> QED BY <2>2, <3>1, <3>2, <1>1, <1>2, <1>3, <1>5
  <2> QED BY <1>2, <1>5, <2>1, <2>2
<1>9. \A i \in 1 .. Len(p) : p[i].ev = "selection" /\ p[i].id # None =>
       IF i = 1 THEN g = p[i].id ELSE p[i - 1] = Event("data_offer", p[i].id)
  <2> SUFFICES ASSUME NEW i \in 1 .. Len(p), p[i].ev = "selection" /\ p[i].id # None
               PROVE  IF i = 1 THEN g = p[i].id ELSE p[i - 1] = Event("data_offer", p[i].id)
    OBVIOUS
  <2>1. CASE i = n + 2
    BY <2>1, <1>1, <1>5
  <2>2. CASE i \in 1 .. n
    <3>1. p[i] = q[i] /\ (i > 1 => p[i - 1] = q[i - 1])
      BY <2>2, <1>1
    <3> QED BY <2>2, <3>1, <1>1 DEF Queued
  <2> QED BY <1>2, <1>5, <2>1, <2>2
<1>10. g # None => Len(p) > 0 /\ p[1] = Event("selection", g)
  BY <1>1 DEF Queued
<1> QED BY <1>7, <1>8, <1>9, <1>10 DEF Queued, p, new

LEMMA EmitQueued ==
  ASSUME Typed, NEW q, TypedEvents(q), Queued(q, offer, held, g_offer),
         NEW s, NEW src, EmitTo(q, s, src)
  PROVE  Queued(toDaemon', offer', held, g_offer)
<1>1. CASE s = None
  <2>1. Event("selection", None) \in Events
    BY DEF Events, Event, None
  <2> QED BY <1>1, <2>1, AppendQueued DEF EmitTo, Event
<1>2. CASE s # None /\ (src[s].owner = Daemon \/ src[s].types = {})
  BY <1>2 DEF EmitTo
<1>3. CASE s # None /\ ~(src[s].owner = Daemon \/ src[s].types = {})
  <2>1. PICK id \in FreeOffers :
          /\ offer' = [offer EXCEPT ![id] = [of |-> s, types |-> src[s].types]]
          /\ toDaemon' = q \o <<Event("data_offer", id), Event("selection", id)>>
    BY <1>3 DEF EmitTo
  <2>2. id \in OfferId /\ offer[id] = NoOffer /\ [of |-> s, types |-> src[s].types] # NoOffer
    BY <1>3 DEF FreeOffers, NoOffer
  <2> QED BY <2>1, <2>2, OfferQueued DEF Typed, TypedServer, TypedDaemon
<1> QED BY <1>1, <1>2, <1>3

LEMMA EndQueued ==
  ASSUME Typed, Queued(toDaemon, offer, held, g_offer), NEW s \in Source
  PROVE  Queued(EventsOfEnd(selection, s), offer, held, g_offer)
<1>1. CASE Cancelling(selection, s) /\ source[selection].owner = Daemon
  <2>1. Event("cancelled", selection) \in Events
    BY <1>1, Bounds DEF Events, Event, Typed, TypedServer, Cancelling
  <2> QED BY <2>1, <1>1, AppendQueued DEF Typed, TypedServer, Event, EventsOfEnd
<1>2. CASE ~(Cancelling(selection, s) /\ source[selection].owner = Daemon)
  BY <1>2 DEF EventsOfEnd
<1> QED BY <1>1, <1>2

LEMMA DestroyQueued ==
  ASSUME Typed, NEW q, NEW g, Queued(q, offer, held, g), NEW D \in SUBSET (held \cup {None}), DestroyOffers(D)
  PROVE  Queued(q, offer', held \ D, g)
<1>1. \A x \in OfferId : offer'[x] = IF x \in D THEN NoOffer ELSE offer[x]
  BY DEF DestroyOffers
<1>2. \A i \in 1 .. Len(q) : q[i].ev = "data_offer" => q[i].id \in OfferId /\ q[i].id \notin D
  BY Bounds DEF Queued
<1>3. held \subseteq OfferId
  BY DEF Typed, TypedDaemon
<1> QED BY <1>1, <1>2, <1>3 DEF Queued

LEMMA TailQueued ==
  ASSUME NEW q, TypedEvents(q), q # <<>>, NEW off, NEW h, NEW g, Queued(q, off, h, g)
  PROVE  /\ Head(q).ev = "data_offer" =>
              /\ g = None /\ Head(q).id \in OfferId \ h
              /\ Queued(Tail(q), off, h \cup {Head(q).id}, Head(q).id)
         /\ Head(q).ev = "selection" =>
              g = Head(q).id /\ Queued(Tail(q), off, h, None)
         /\ Head(q).ev = "cancelled" => Queued(Tail(q), off, h, g)
<1> DEFINE p == Tail(q)
           id == q[1].id
<1>1. /\ Len(q) \in Nat \ {0} /\ Len(p) = Len(q) - 1 /\ Head(q) = q[1]
      /\ \A i \in 1 .. Len(p) : p[i] = q[i + 1]
  BY DEF TypedEvents
<1> HIDE DEF p
<1>2. /\ \A i \in 1 .. Len(p) : i + 1 \in 1 .. Len(q) /\ p[i] = q[i + 1] /\ (i > 1 => p[i - 1] = q[i])
      /\ \A i \in 1 .. Len(p) : i < Len(p) => p[i + 1] = q[i + 2]
  BY <1>1
<1>3. \A i \in 1 .. Len(p) : p[i].ev = "data_offer" =>
       /\ p[i].id \in OfferId \ h /\ off[p[i].id] # NoOffer
       /\ i < Len(p) /\ p[i + 1] = Event("selection", p[i].id)
       /\ \A j \in 1 .. Len(p) : p[j].ev = "data_offer" /\ p[j].id = p[i].id => i = j
       /\ q[1].ev = "data_offer" => p[i].id # id
  <2> TAKE i \in 1 .. Len(p)
  <2> HAVE p[i].ev = "data_offer"
  <2> DEFINE k == i + 1
  <2>1. k \in 1 .. Len(q) /\ q[k] = p[i] /\ k # 1
    BY <1>1, <1>2
  <2>2. /\ q[k].id \in OfferId \ h /\ off[q[k].id] # NoOffer
        /\ k < Len(q) /\ q[k + 1] = Event("selection", q[k].id)
        /\ \A j \in 1 .. Len(q) : q[j].ev = "data_offer" /\ q[j].id = q[k].id => k = j
    BY <2>1 DEF Queued
  <2>3. i < Len(p) /\ p[i + 1] = q[k + 1]
    BY <2>2, <1>1, <1>2
  <2>4. \A j \in 1 .. Len(p) : p[j].ev = "data_offer" /\ p[j].id = p[i].id => i = j
    <3> TAKE j \in 1 .. Len(p)
    <3> HAVE p[j].ev = "data_offer" /\ p[j].id = p[i].id
    <3>1. j + 1 \in 1 .. Len(q) /\ q[j + 1] = p[j]
      BY <1>2
    <3>2. k = j + 1
      BY <3>1, <2>1, <2>2
    <3> QED BY <3>2
  <2>5. q[1].ev = "data_offer" => p[i].id # id
    BY <2>1, <2>2, <1>1
  <2> QED BY <2>1, <2>2, <2>3, <2>4, <2>5
<1>4. \A i \in 2 .. Len(p) : p[i].ev = "selection" /\ p[i].id # None => p[i - 1] = Event("data_offer", p[i].id)
  <2> TAKE i \in 2 .. Len(p)
  <2> HAVE p[i].ev = "selection" /\ p[i].id # None
  <2>1. i \in 1 .. Len(p) /\ i + 1 \in 1 .. Len(q) /\ q[i + 1] = p[i] /\ p[i - 1] = q[i] /\ i + 1 # 1 /\ (i + 1) - 1 = i
    BY <1>1, <1>2
  <2>2. q[(i + 1) - 1] = Event("data_offer", q[i + 1].id)
    BY <2>1 DEF Queued
  <2> QED BY <2>1, <2>2
<1>5. Len(p) > 0 /\ p[1].ev = "selection" /\ p[1].id # None => q[1] = Event("data_offer", p[1].id)
  BY <1>1, <1>2 DEF Queued
<1>6. ASSUME q[1].ev = "data_offer"
      PROVE  g = None /\ id \in OfferId \ h /\ Queued(p, off, h \cup {id}, id)
  <2>1. /\ id \in OfferId \ h /\ off[id] # NoOffer /\ Len(q) > 1 /\ q[2] = Event("selection", id)
    BY <1>1, <1>6 DEF Queued
  <2>2. g = None
    BY <1>6 DEF Queued, Event
  <2>3. Len(p) > 0 /\ p[1] = Event("selection", id)
    BY <1>1, <2>1
  <2>4. p[1].id = id
    BY <2>3 DEF Event
  <2> QED BY <1>3, <1>4, <1>6, <2>1, <2>2, <2>3, <2>4 DEF Queued
<1>7. ASSUME q[1].ev # "data_offer" PROVE Queued(p, off, h, None)
  <2>1. Len(p) > 0 /\ p[1].ev = "selection" => p[1].id = None
    BY <1>5, <1>7 DEF Event
  <2> QED BY <1>3, <1>4, <2>1 DEF Queued
<1>8. ASSUME q[1].ev = "selection" PROVE g = id
  <2>1. CASE id = None
    BY <1>1, <1>8, <2>1 DEF Queued, Event
  <2>2. CASE id # None
    BY <1>1, <1>8, <2>2 DEF Queued
  <2> QED BY <2>1, <2>2
<1>9. ASSUME q[1].ev = "cancelled" PROVE g = None
  BY <1>9 DEF Queued, Event
<1> QED BY <1>1, <1>6, <1>7, <1>8, <1>9 DEF p

LEMMA OffersStay ==
  ASSUME Offers, UNCHANGED <<g_offer, pending, held>>, taking'.of = taking.of,
         Queued(toDaemon', offer', held, g_offer)
  PROVE  Offers'
BY DEF Offers, Holds, Distinct

LEMMA CopyOffers ==
  ASSUME Typed, Offers, NEW a \in App, NEW t \in TypeSets, NEW v \in Value, Copy(a, t, v)
  PROVE  Offers'
<1> DEFINE s == copies + 1
           src == [source EXCEPT ![s] = NewSource(a, t, v)]
<1>1. s \in Source /\ EmitTo(EventsOfEnd(selection, s), s, src) /\ UNCHANGED <<g_offer, pending, held, taking>>
  BY Bounds DEF Copy, CopyInto, Typed, TypedDaemon, Source, AppSource, daemonVars, offerVars
<1>2. TypedEvents(EventsOfEnd(selection, s)) /\ Queued(EventsOfEnd(selection, s), offer, held, g_offer)
  BY <1>1, EndTyped, EndQueued DEF Typed, Offers
<1> HIDE DEF s, src
<1>3. Queued(toDaemon', offer', held, g_offer)
  BY <1>1, <1>2, EmitQueued
<1> QED BY <1>1, <1>3, OffersStay

LEMMA ApplicationOffers ==
  ASSUME Typed, Offers, Applications
  PROVE  Offers'
<1>1. CASE \E a \in App, t \in TypeSets, v \in Value : Copy(a, t, v)
  BY <1>1, CopyOffers
<1>2. CASE ~(\E a \in App, t \in TypeSets, v \in Value : Copy(a, t, v))
  <2>1. UNCHANGED <<g_offer, pending, held, taking>>
    BY <1>2 DEF Applications, CopyMore, DropCancelled, Drop, Leave, daemonVars, offerVars
  <2>2. (toDaemon' = toDaemon /\ offer' = offer) \/ \E s, src : EmitTo(toDaemon, s, src)
    BY <1>2 DEF Applications, CopyMore, OfferType, DropCancelled, Drop, DestroySource, ClearSelection, Leave, Disconnect
  <2>3. Queued(toDaemon', offer', held, g_offer)
    BY <2>2, EmitQueued DEF Offers, Typed, TypedServer
  <2> QED BY <2>1, <2>3, OffersStay
<1> QED BY <1>1, <1>2

LEMMA ServerOffers ==
  ASSUME Typed, Offers, Server
  PROVE  Offers'
<1>1. UNCHANGED <<g_offer, pending, held, taking>>
  BY DEF Server, daemonVars, offerVars
<1>2. CASE Serve
  <2>1. Head(fromDaemon).id \in Source
    <3>1. fromDaemon # <<>> /\ fromDaemon \in Seq(Requests)
      BY <1>2 DEF Serve, Typed, TypedServer
    <3>2. Head(fromDaemon) \in Requests
      BY <3>1
    <3> QED BY <3>2 DEF Requests, Source
  <2>2. offer' = offer /\ toDaemon' \in {toDaemon, EventsOfEnd(selection, Head(fromDaemon).id)}
    BY <1>2 DEF Serve, SetSelection, DestroyOwnSource
  <2>3. Queued(toDaemon', offer', held, g_offer)
    BY <2>1, <2>2, EndQueued DEF Offers
  <2> QED BY <1>1, <2>3, OffersStay
<1>3. CASE FlushBroadcast
  <2>1. EmitTo(toDaemon, selection, source)
    BY <1>3 DEF FlushBroadcast
  <2>2. Queued(toDaemon', offer', held, g_offer)
    BY <2>1, EmitQueued DEF Offers, Typed, TypedServer
  <2> QED BY <1>1, <2>2, OffersStay
<1> QED BY <1>2, <1>3 DEF Server

LEMMA DispatchOffers ==
  ASSUME Typed, Offers, Dispatch
  PROVE  Offers'
<1> DEFINE e == Head(toDaemon)
<1>1. /\ TypedEvents(toDaemon) /\ toDaemon # <<>> /\ Queued(toDaemon, offer, held, g_offer)
      /\ toDaemon' = Tail(toDaemon)
  BY DEF Dispatch, Offers, Typed, TypedServer
<1>2. taking'.of = taking.of
  <2>1. \/ taking' = taking
        \/ taking # NoTake /\ taking' = [taking EXCEPT !.preferredGone = TRUE, !.mimeGone = TRUE]
    BY DEF Dispatch, DeviceDataOffer, DeviceSelection, SourceCancelled, PointersGone
  <2> QED BY <2>1 DEF Typed, TypedDaemon
<1>3. CASE e.ev = "data_offer" /\ DeviceDataOffer(e.id)
  <2>1. /\ g_offer = None /\ e.id \in OfferId \ held
        /\ Queued(Tail(toDaemon), offer, held \cup {e.id}, e.id)
    BY <1>1, <1>3, TailQueued
  <2>2. /\ g_offer' = e.id /\ held' = (held \ {g_offer}) \cup {e.id} /\ pending' = pending
        /\ DestroyOffers({g_offer})
    BY <1>3 DEF DeviceDataOffer
  <2>3. held' = held \cup {e.id} /\ offer' = offer
    BY <2>1, <2>2, Bounds DEF DestroyOffers, Typed, TypedServer, TypedDaemon, TypedOffers
  <2>4. e.id # None
    BY <2>1, Bounds
  <2> QED BY <1>1, <1>2, <2>1, <2>2, <2>3, <2>4 DEF Offers, Holds, Distinct
<1>4. CASE e.ev = "selection" /\ DeviceSelection(e.id)
  <2> DEFINE old == {pending} \ {e.id}
  <2>1. g_offer = e.id /\ Queued(Tail(toDaemon), offer, held, None)
    BY <1>1, <1>4, TailQueued
  <2>2. /\ g_offer' = None /\ held' = held \ old /\ pending' = e.id /\ DestroyOffers(old)
    BY <1>4 DEF DeviceSelection
  <2>3. old \in SUBSET (held \cup {None})
    BY DEF Offers, Holds
  <2>4. Queued(Tail(toDaemon), offer', held \ old, None)
    BY <2>1, <2>2, <2>3, DestroyQueued
  <2>5. held' = {None, e.id, taking.of} \ {None}
    BY <2>1, <2>2 DEF Offers, Holds, Distinct
  <2>6. e.id # None => e.id # taking.of
    BY <2>1 DEF Offers, Distinct
  <2> QED BY <1>1, <1>2, <2>2, <2>4, <2>5, <2>6 DEF Offers, Holds, Distinct
<1>5. CASE e.ev = "cancelled" /\ SourceCancelled(e.id)
  <2>1. Queued(Tail(toDaemon), offer, held, g_offer)
    BY <1>1, <1>5, TailQueued
  <2>2. UNCHANGED <<offer, held, g_offer, pending>>
    BY <1>5 DEF SourceCancelled
  <2> QED BY <1>1, <1>2, <2>1, <2>2, OffersStay
<1> QED BY <1>3, <1>4, <1>5 DEF Dispatch

LEMMA DrainOffers ==
  ASSUME Typed, Offers, DrainPendingOffer
  PROVE  Offers'
<1>1. /\ taking.of = None /\ pending # None /\ pending' = None /\ g_offer' = g_offer /\ toDaemon' = toDaemon
  BY DEF DrainPendingOffer, NoTake
<1>2. CASE mimes = <<>>
  <2>1. DestroyOffers({pending}) /\ held' = held \ {pending} /\ taking' = taking
    BY <1>2 DEF DrainPendingOffer
  <2>2. {pending} \in SUBSET (held \cup {None})
    BY DEF Offers, Holds
  <2>3. Queued(toDaemon, offer', held \ {pending}, g_offer)
    BY <2>1, <2>2, DestroyQueued DEF Offers
  <2> QED BY <1>1, <2>1, <2>3 DEF Offers, Holds, Distinct
<1>3. CASE mimes # <<>>
  <2>1. taking'.of = pending /\ UNCHANGED <<offer, held>>
    BY <1>3 DEF DrainPendingOffer
  <2> QED BY <1>1, <2>1 DEF Offers, Holds, Distinct
<1> QED BY <1>2, <1>3

LEMMA ReceivedOffers ==
  ASSUME Typed, Offers, taking # NoTake, NEW c, Received(c)
  PROVE  Offers'
<1>1. UNCHANGED <<toDaemon, g_offer, pending>>
  BY DEF Received
<1>2. ASSUME NEW p \in 1 .. Len(mimes), Continue(c, p) PROVE Offers'
  <2>1. UNCHANGED <<offer, held>> /\ taking'.of = taking.of
    BY <1>2 DEF Continue, Typed, TypedDaemon
  <2> QED BY <1>1, <2>1, OffersStay DEF Offers
<1>3. ASSUME Finish(c) PROVE Offers'
  <2>1. DestroyOffers({taking.of}) /\ held' = held \ {taking.of} /\ taking'.of = None
    BY <1>3 DEF Finish, NoTake
  <2>2. {taking.of} \in SUBSET (held \cup {None})
    BY DEF Offers, Holds
  <2>3. Queued(toDaemon, offer', held \ {taking.of}, g_offer)
    BY <2>1, <2>2, DestroyQueued DEF Offers
  <2> QED BY <1>1, <2>1, <2>3 DEF Offers, Holds, Distinct
<1> QED BY <1>2, <1>3 DEF Received

LEMMA RestartOffers ==
  ASSUME Typed, Restart
  PROVE  Offers'
<1> DEFINE sel == IF selection \in OwnSource THEN None ELSE selection
           told == sel # None /\ source[sel].types # {}
           first == IF told THEN 1 ELSE None
<1>1. /\ offer' = [o \in OfferId |-> IF o = first THEN [of |-> sel, types |-> source[sel].types] ELSE NoOffer]
      /\ toDaemon' = <<>> /\ taking' = NoTake /\ g_offer' = None /\ pending' = first /\ held' = {first} \ {None}
  BY DEF Restart
<1>2. Holds' /\ Distinct'
  BY <1>1, Bounds DEF Holds, Distinct, NoTake
<1>3. \A x \in held' : offer'[x] # NoOffer
  <2> SUFFICES ASSUME told PROVE offer'[1] # NoOffer
    BY <1>1
  <2>1. 1 \in OfferId
    BY Bounds DEF OfferId
  <2>2. offer'[1] = [of |-> sel, types |-> source[sel].types]
    BY <1>1, <2>1
  <2> QED BY <2>2 DEF NoOffer
<1>4. Len(toDaemon') = 0
  BY <1>1
<1>5. Queued(toDaemon', offer', held', g_offer')
  BY <1>1, <1>3, <1>4 DEF Queued
<1> QED BY <1>2, <1>5 DEF Offers

LEMMA NextOffers == Typed /\ Offers /\ [Next]_vars => Offers'
<1> SUFFICES ASSUME Typed, Offers, [Next]_vars PROVE Offers'
  OBVIOUS
<1>1. CASE Applications
  BY <1>1, ApplicationOffers
<1>2. CASE Server
  BY <1>2, ServerOffers
<1>3. CASE Restart
  BY <1>3, RestartOffers
<1>4. CASE Clear \/ (\E i \in 1 .. HistMax : Select(i)) \/ Pipe
  <2>1. UNCHANGED <<g_offer, pending, held, taking, toDaemon, offer>>
    BY <1>4 DEF Clear, Select, Pipe, Answer, AnswerPart, daemonVars, offerVars
  <2> QED BY <2>1, OffersStay DEF Offers
<1>5. CASE Dispatch
  BY <1>5, DispatchOffers
<1>6. CASE DrainPendingOffer
  BY <1>6, DrainOffers
<1>7. CASE ReadToEnd \/ ReceiveTimeout
  BY <1>7, ReceivingIs, ReceivedOffers
<1>8. CASE UNCHANGED vars
  <2>1. UNCHANGED <<g_offer, pending, held, taking, toDaemon, offer>>
    BY <1>8 DEF vars, offerVars, serverVars
  <2> QED BY <2>1, OffersStay DEF Offers
<1> QED BY <1>1, <1>2, <1>3, <1>4, <1>5, <1>6, <1>7, <1>8 DEF Next, User, DaemonRuns

LEMMA Accounting == Spec => []Offers
<1>1. Init => Offers
  <2> SUFFICES ASSUME Init PROVE Offers
    OBVIOUS
  <2>1. Len(toDaemon) = 0 /\ held = {} /\ g_offer = None /\ pending = None /\ taking.of = None
    BY DEF Init, NoTake
  <2> QED BY <2>1 DEF Offers, Queued, Holds, Distinct
<1> QED BY <1>1, NextOffers, Typing, PTL DEF Spec

(* No offer is lost between its announcement and take_offer, and none is   *)
(* named twice: however events overtake what is being read.                *)
THEOREM OffersNeverLost == Spec => []OffersAccounted
<1>1. Offers => OffersAccounted
  <2> SUFFICES ASSUME Offers PROVE OffersAccounted
    OBVIOUS
  <2> DEFINE known == <<g_offer, pending, taking.of>>
  <2>1. known[1] = g_offer /\ known[2] = pending /\ known[3] = taking.of /\ DOMAIN known = 1 .. 3
    OBVIOUS
  <2> HIDE DEF known
  <2>2. 1 .. 3 = {1, 2, 3}
    OBVIOUS
  <2>3. Range(known) = {known[i] : i \in {1, 2, 3}}
    BY <2>1, <2>2 DEF Range
  <2>4. held = Range(known) \ {None}
    BY <2>1, <2>3 DEF Offers, Holds
  <2>5. \A i, j \in {1, 2, 3} : i # j /\ known[i] = known[j] => known[i] = None
    BY <2>1 DEF Offers, Distinct
  <2> QED BY <2>2, <2>4, <2>5 DEF OffersAccounted, known
<1> QED BY <1>1, Accounting, PTL
=============================================================================
