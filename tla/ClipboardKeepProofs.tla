------------------------ MODULE ClipboardKeepProofs -------------------------
(***************************************************************************)
(* What the clipboard daemon is for: a copy that was made while nothing    *)
(* was on its way, and whose source stayed and answered in time, is kept   *)
(* with every type it has.                                                 *)
(*                                                                         *)
(* The proof follows that copy through the queues, the list of types and   *)
(* the pipe: it is in one of the stages below from when it is made until   *)
(* another copy, a command, a restart or a timeout takes its place.        *)
(***************************************************************************)
EXTENDS ClipboardOwnerProofs

Copied == last.copy
Types == source[Copied].types
Content == source[Copied].value
Clean == last.copy # None /\ ~last.overtook /\ ~last.spoiled

(* The list of types is the offer's, in some order.                        *)
Lists(q, S) ==
  /\ q \in Seq(S) /\ \A m \in S : \E i \in 1 .. Len(q) : q[i] = m

OfThis(id) == id \in OfferId /\ offer[id] = [of |-> Copied, types |-> Types]
Resting == pending = None /\ taking = NoTake

(* The copy is the selection, and no request on its way changes that.      *)
Selected ==
  /\ selection = Copied /\ source[Copied].live /\ ~dirty
  /\ \A i \in 1 .. Len(fromDaemon) : fromDaemon[i].req = "destroy_source"

(* The source has no type yet, so nobody was told of it; or it never will. *)
Unannounced ==
  /\ Selected /\ Types = {} /\ Resting
  /\ \/ mine.id = None /\ toDaemon = <<>>
     \/ mine.id # None /\ toDaemon = <<Event("cancelled", mine.id)>>
Abandoned == Types = {} /\ selection \notin AppSource

(* The events that announce it are on their way, after the one that says   *)
(* that the daemon's source is the selection no more.                      *)
Announced ==
  /\ Selected /\ Types # {} /\ Resting
  /\ \E id \in OfferId :
       /\ OfThis(id)
       /\ \/ /\ mine.id = None
             /\ toDaemon = <<Event("data_offer", id), Event("selection", id)>>
          \/ /\ mine.id # None
             /\ toDaemon = <<Event("cancelled", mine.id), Event("data_offer", id), Event("selection", id)>>

(* The daemon has the offer and its types, and nothing to offer itself.    *)
Listed == Selected /\ Types # {} /\ mine.id = None /\ Lists(mimes, Types)
Named ==
  /\ Listed /\ Resting
  /\ \E id \in OfferId : OfThis(id) /\ toDaemon = <<Event("selection", id)>>
Waiting == Listed /\ ~own /\ toDaemon = <<>> /\ taking = NoTake /\ OfThis(pending)

(* take_offer has some of the types and is waiting for one more.           *)
SoFar ==
  IF taking.pass = 0 THEN {} ELSE {taking.preferred} \cup {mimes[q] : q \in 1 .. taking.pass - 1}
Asking ==
  /\ taking # NoTake /\ OfThis(taking.of) /\ ~taking.preferredGone /\ ~taking.mimeGone
  /\ taking.preferred \in Types /\ taking.pass \in 0 .. Len(mimes)
  /\ taking.mime = IF taking.pass = 0 THEN taking.preferred ELSE mimes[taking.pass]
  /\ taking.clip = [m \in SoFar |-> Content]
Coming ==
  \/ pipe.at = Copied /\ ~pipe.end
  \/ pipe.at = None /\ pipe.end /\ pipe.data = Content
Reading == Listed /\ ~own /\ toDaemon = <<>> /\ pending = None /\ Asking /\ Coming

(* It is kept, and the daemon is the owner or asked to be.                 *)
HasIt ==
  /\ Kept(Copied) /\ Types # {} /\ Resting /\ toDaemon = <<>>
  /\ \/ /\ selection = Copied /\ ~dirty
        /\ Len(fromDaemon) = 1 /\ fromDaemon[1].req = "set_selection"
     \/ selection \in OwnSource /\ fromDaemon = <<>>

Stage ==
  \/ Unannounced \/ Abandoned \/ Announced \/ Named \/ Waiting \/ Reading \/ HasIt

(* What applications copied is theirs.                                     *)
TypedLast ==
  /\ last \in [copy : 0 .. copies, overtook : BOOLEAN, spoiled : BOOLEAN]
  /\ last.copy # None => source[last.copy].owner \in App /\ source[last.copy].value \in Value
  /\ selection \in AppSource => source[selection].owner \in App

Followed == TypedLast /\ (Clean => Stage)

-----------------------------------------------------------------------------
LEMMA Copying ==
  ASSUME Typed, TypedLast, last.copy # None
  PROVE  /\ Copied \in AppSource /\ Copied \in Source /\ Copied \notin OwnSource /\ Copied # None
         /\ source[Copied].owner # Daemon /\ Content # Nothing
BY Bounds, DaemonAssumption, ValueAssumption DEF TypedLast, Typed, TypedDaemon, Copied, Content,
   AppSource, Source, None

LEMMA PermutationLists ==
  ASSUME NEW S \in SUBSET Type, NEW q \in SetToSeqs(S)
  PROVE  Lists(q, S)
<1> DEFINE n == Cardinality(S)
<1>1. IsFiniteSet(S)
  BY MimeAssumption, FS_AddElement, FS_Subset DEF Type
<1>2. n \in Nat
  BY <1>1, FS_CardinalityType
<1>3. q \in [1 .. n -> S] /\ \A i, j \in 1 .. n : i # j => q[i] # q[j]
  BY DEF SetToSeqs
<1>4. IsFiniteSet(1 .. n) /\ Cardinality(1 .. n) = n
  BY <1>2, FS_Interval
<1>5. q \in Injection(1 .. n, S)
  BY <1>3 DEF Injection, IsInjective
<1>6. q \in Surjection(1 .. n, S)
  BY <1>1, <1>4, <1>5, FS_Injection
<1>7. Len(q) = n /\ q \in Seq(S)
  BY <1>2, <1>3
<1> QED BY <1>6, <1>7 DEF Lists, Surjection

(* pick_mime chooses one of the types of the list.                         *)
LEMMA PickIsListed ==
  ASSUME NEW S, S # {}, Lists(mimes, S)
  PROVE  mimes # <<>> /\ PickMime \in S
<1>1. mimes # <<>> /\ mimes[1] \in S
  <2>1. PICK m \in S : TRUE
    OBVIOUS
  <2>2. PICK i \in 1 .. Len(mimes) : mimes[i] = m
    BY <2>1 DEF Lists
  <2> QED BY <2>2 DEF Lists
<1>2. Text \in Range(mimes) => Text \in S
  BY DEF Range, Lists
<1> QED BY <1>1, <1>2 DEF PickMime

-----------------------------------------------------------------------------
(* Nobody changes whose a source is, or what it holds.                     *)
LEMMA OwnersStay ==
  ASSUME Typed, [Next]_vars, NEW s \in AppSource, copies' # copies => s # copies'
  PROVE  source'[s].owner = source[s].owner /\ source'[s].value = source[s].value
<1>1. /\ s \in Source /\ s \notin OwnSource /\ source = [x \in Source |-> source[x]]
      /\ \A x \in Source : /\ source[x] = [owner |-> source[x].owner, types |-> source[x].types,
                                           value |-> source[x].value, live |-> source[x].live,
                                           cancelled |-> source[x].cancelled]
  BY Bounds DEF Typed, TypedServer, TypedSources, Source
<1>2. CASE \E a \in App, t \in TypeSets, v \in Value : Copy(a, t, v)
  <2>1. PICK a \in App, t \in TypeSets, v \in Value : Copy(a, t, v)
    BY <1>2
  <2>2. /\ copies' = copies + 1 /\ copies \in Nat /\ copies + 1 # s /\ selection \in Source \cup {None}
        /\ source' = ToldOfEnd([source EXCEPT ![copies + 1] = NewSource(a, t, v)], selection, copies + 1)
    BY <2>1, Bounds DEF Copy, CopyInto, Typed, TypedDaemon, TypedServer
  <2> QED BY <1>1, <2>2 DEF ToldOfEnd, Cancelling
<1>3. CASE \E x \in AppSource, m \in Mime : CopyMore(x, m)
  BY <1>1, <1>3 DEF CopyMore, OfferType
<1>4. CASE \E x \in AppSource : DropCancelled(x) \/ Drop(x)
  BY <1>1, <1>4 DEF DropCancelled, Drop, DestroySource, ClearSelection
<1>5. CASE \E a \in App : Leave(a)
  BY <1>1, <1>5 DEF Leave, Disconnect
<1>6. CASE Server
  <2>1. CASE FlushBroadcast
    BY <2>1 DEF FlushBroadcast
  <2>2. CASE Serve
    <3>1. Head(fromDaemon) \in Requests
      BY <2>2 DEF Serve, Typed, TypedServer
    <3>2. Head(fromDaemon).id # s /\ selection \in Source \cup {None}
      BY <1>1, <3>1 DEF Requests, Typed, TypedServer
    <3> QED BY <1>1, <2>2, <3>2 DEF Serve, SetSelection, DestroyOwnSource, ToldOfEnd, Cancelling
  <2> QED BY <1>6, <2>1, <2>2 DEF Server
<1>7. CASE Restart
  BY <1>1, <1>7 DEF Restart
<1>8. CASE (\E i \in 1 .. HistMax : Select(i)) \/ Clear \/ Pipe \/ DaemonRuns \/ UNCHANGED vars
  BY <1>8 DEF Select, Clear, Pipe, Answer, AnswerPart, DaemonRuns, Dispatch, DrainPendingOffer, ReadToEnd,
              ReceiveTimeout, Received, vars, serverVars
<1> QED BY <1>2, <1>3, <1>4, <1>5, <1>6, <1>7, <1>8 DEF Next, Applications, User

LEMMA LastTyped ==
  ASSUME Typed, TypedLast, [Next]_vars
  PROVE  TypedLast'
<1>1. copies \in 0 .. MaxCopies /\ MaxCopies \in Nat /\ last.copy \in 0 .. copies
  BY Bounds DEF Typed, TypedDaemon, TypedLast
<1>2. CASE \E a \in App, t \in TypeSets, v \in Value : Copy(a, t, v)
  <2>1. PICK a \in App, t \in TypeSets, v \in Value : Copy(a, t, v)
    BY <1>2
  <2> DEFINE s == copies + 1
  <2>2. s \in AppSource /\ s \in Source /\ selection \in Source \cup {None}
    BY <1>1, <2>1 DEF AppSource, Source, Copy, Typed, TypedServer
  <2>3. /\ copies' = s /\ selection' = s /\ last' = [copy |-> s, overtook |-> ~Quiet, spoiled |-> FALSE]
        /\ source' = ToldOfEnd([source EXCEPT ![s] = NewSource(a, t, v)], selection, s)
    BY <2>1 DEF Copy, CopyInto
  <2>4. source'[s].owner = a /\ source'[s].value = v
    BY <2>2, <2>3 DEF ToldOfEnd, Cancelling, NewSource, Typed, TypedServer, TypedSources
  <2>5. Quiet \in BOOLEAN
    BY DEF Quiet
  <2> QED BY <1>1, <2>3, <2>4, <2>5 DEF TypedLast
<1>3. CASE ~(\E a \in App, t \in TypeSets, v \in Value : Copy(a, t, v))
  <2>1. /\ copies' = copies
        /\ last' \in [copy : {last.copy, None}, overtook : BOOLEAN, spoiled : BOOLEAN]
    <3>1. CASE Applications
      BY <1>3, <3>1 DEF Applications, CopyMore, DropCancelled, Drop, Leave, Spoil, TypedLast, Quiet
    <3>2. CASE User
      BY <3>2 DEF User, Select, Clear, Command, Restart, TypedLast
    <3>3. CASE Server \/ Pipe \/ UNCHANGED vars
      BY <3>3 DEF Server, Pipe, Answer, AnswerPart, ghostVars, vars, TypedLast
    <3>4. CASE DaemonRuns
      BY <3>4 DEF DaemonRuns, Dispatch, DrainPendingOffer, ReadToEnd, ReceiveTimeout, ghostVars, TypedLast
    <3> QED BY <3>1, <3>2, <3>3, <3>4 DEF Next
  <2>2. \A s \in AppSource : source'[s].owner = source[s].owner /\ source'[s].value = source[s].value
    BY <2>1, OwnersStay
  <2>3. selection' \in {selection, None} \cup OwnSource
    <3>1. CASE Applications
      BY <1>3, <3>1 DEF Applications, CopyMore, OfferType, DropCancelled, Drop, DestroySource, ClearSelection,
         Leave, Disconnect
    <3>2. CASE User
      BY <3>2 DEF User, Select, Clear, Restart
    <3>3. CASE Server
      <4>1. fromDaemon # <<>> => Head(fromDaemon) \in Requests
        BY DEF Typed, TypedServer
      <4> QED BY <3>3, <4>1 DEF Server, Serve, SetSelection, DestroyOwnSource, FlushBroadcast, Requests
    <3>4. CASE Pipe \/ DaemonRuns \/ UNCHANGED vars
      BY <3>4 DEF Pipe, Answer, AnswerPart, DaemonRuns, Dispatch, DrainPendingOffer, ReadToEnd,
         ReceiveTimeout, Received, vars, serverVars
    <3> QED BY <3>1, <3>2, <3>3, <3>4 DEF Next
  <2>4. last.copy # None => last.copy \in AppSource
    BY <1>1 DEF AppSource, None
  <2>5. None \notin AppSource /\ AppSource \cap OwnSource = {}
    BY Bounds DEF Source
  <2> QED BY <1>1, <2>1, <2>2, <2>3, <2>4, <2>5 DEF TypedLast, None
<1> QED BY <1>2, <1>3

-----------------------------------------------------------------------------
(* A step that leaves the daemon and what it is told of alone.             *)
LEMMA StageStays ==
  ASSUME Stage, UNCHANGED <<offer, toDaemon, daemonVars>>, last'.copy = last.copy,
         source'[Copied].types = Types, source'[Copied].value = Content,
         Selected => Selected', Abandoned => Abandoned', Reading => Coming', HasIt => HasIt'
  PROVE  Stage'
<1>1. Copied' = Copied /\ Types' = Types /\ Content' = Content
  BY DEF Copied, Types, Content
<1>2. UNCHANGED <<own, mine, pending, mimes, taking, offer, toDaemon>>
  BY DEF daemonVars, keptVars, offerVars
<1>3. \A id \in OfferId : OfThis(id) <=> OfThis(id)'
  BY <1>1, <1>2 DEF OfThis
<1>4. CASE Unannounced
  BY <1>1, <1>2, <1>4 DEF Unannounced, Resting, Stage
<1>5. CASE Announced
  BY <1>1, <1>2, <1>3, <1>5 DEF Announced, Resting, Stage
<1>6. CASE Named
  BY <1>1, <1>2, <1>3, <1>6 DEF Named, Listed, Lists, Resting, Stage
<1>7. CASE Waiting
  BY <1>1, <1>2, <1>3, <1>7 DEF Waiting, Listed, Lists, OfThis, Stage
<1>8. CASE Reading
  BY <1>1, <1>2, <1>3, <1>8 DEF Reading, Listed, Lists, Asking, SoFar, OfThis, Stage
<1>9. CASE Abandoned \/ HasIt
  BY <1>9 DEF Stage
<1> QED BY <1>4, <1>5, <1>6, <1>7, <1>8, <1>9 DEF Stage

(* When nothing is on its way it was not announced, or it is kept.         *)
LEMMA AtRest ==
  ASSUME Typed, Stage, Quiet
  PROVE  \/ Unannounced /\ mine.id = None
         \/ Abandoned
         \/ HasIt /\ selection \in OwnSource
<1>1. toDaemon = <<>> /\ fromDaemon = <<>> /\ pending = None /\ taking = NoTake /\ Len(fromDaemon) = 0
  BY DEF Quiet
<1>2. ~Waiting /\ ~Reading
  BY <1>1, Bounds DEF Waiting, OfThis, Reading, Asking
<1>3. ~Announced /\ ~Named
  <2>1. \A e, f, g : <<e>> # <<>> /\ <<e, f>> # <<>> /\ <<e, f, g>> # <<>>
    OBVIOUS
  <2> QED BY <1>1, <2>1 DEF Announced, Named
<1>4. Unannounced => mine.id = None
  <2>1. \A e : <<e>> # <<>>
    OBVIOUS
  <2> QED BY <1>1, <2>1 DEF Unannounced
<1>5. HasIt => selection \in OwnSource
  BY <1>1 DEF HasIt
<1> QED BY <1>2, <1>3, <1>4, <1>5 DEF Stage

LEMMA OwnDiffer ==
  ASSUME Typed
  PROVE  /\ \A s \in AppSource : s \in Source /\ s \notin OwnSource /\ s # None
         /\ \A s \in OwnSource : s \in Source /\ s \notin AppSource /\ s # None /\ source[s].owner = Daemon
         /\ None \notin Source
BY Bounds DEF Typed, TypedServer, TypedSources, Source

LEMMA Concat3 == \A x, y, z : <<x>> \o <<y, z>> = <<x, y, z>>
<1> TAKE x, y, z
<1> DEFINE S == {x, y, z}
           l == <<x>> \o <<y, z>>
<1>1. <<x>> \in Seq(S) /\ <<y, z>> \in Seq(S) /\ <<x, y, z>> \in Seq(S)
  OBVIOUS
<1>2. l \in Seq(S) /\ Len(l) = 3
  BY <1>1
<1>3. l[1] = x /\ l[2] = y /\ l[3] = z
  BY <1>1
<1> HIDE DEF l
<1>4. l = <<x, y, z>>
  <2>1. \A i \in 1 .. 3 : l[i] = <<x, y, z>>[i]
    <3>1. 1 .. 3 = {1, 2, 3}
      OBVIOUS
    <3> QED BY <1>3, <3>1
  <2> QED BY <1>1, <1>2, <2>1, SeqEqual
<1> QED BY <1>4 DEF l

LEMMA CopyFollowed ==
  ASSUME Typed, TypedLast, OwnerAgrees, NEW a \in App, NEW t \in TypeSets, NEW v \in Value, Copy(a, t, v), Clean'
  PROVE  Stage'
<1> DEFINE s == copies + 1
           src == [source EXCEPT ![s] = NewSource(a, t, v)]
<1>1. s \in AppSource /\ s \in Source /\ s \notin OwnSource /\ s # None
  BY Bounds, OwnDiffer DEF Typed, TypedDaemon, Copy, AppSource
<1>2. /\ selection' = s /\ source' = ToldOfEnd(src, selection, s) /\ last'.copy = s
      /\ EmitTo(EventsOfEnd(selection, s), s, src)
      /\ UNCHANGED <<dirty, fromDaemon, pending, taking, mine>> /\ Quiet
  BY DEF Copy, CopyInto, daemonVars, keptVars, offerVars, Clean
<1>3. /\ src[s] = NewSource(a, t, v) /\ source'[s].types = t /\ source'[s].live
  BY <1>1, <1>2 DEF ToldOfEnd, Cancelling, NewSource, Typed, TypedServer, TypedSources
<1>4. Copied' = s /\ Types' = t
  BY <1>2, <1>3 DEF Copied, Types
<1>5. Selected' /\ Resting'
  <2>1. fromDaemon' = <<>> /\ Len(fromDaemon') = 0 /\ ~dirty' /\ pending' = None /\ taking' = NoTake
    BY <1>2 DEF Quiet
  <2>2. source'[Copied'].live
    BY <1>3, <1>4
  <2> QED BY <1>2, <1>4, <2>1, <2>2 DEF Selected, Resting
<1> DEFINE end == IF mine.id = None THEN <<>> ELSE <<Event("cancelled", mine.id)>>
<1>6. EventsOfEnd(selection, s) = end
  <2>1. toDaemon = <<>> /\ (selection = mine.id \/ (mine.id = None /\ selection \notin OwnSource))
    BY <1>2 DEF OwnerAgrees, Quiet
  <2>2. CASE mine.id = None
    <3>1. selection = None \/ selection \in AppSource
      BY <2>1, <2>2, OwnDiffer DEF Typed, TypedServer, Source
    <3>2. ~(Cancelling(selection, s) /\ source[selection].owner = Daemon)
      BY <3>1, DaemonAssumption DEF Cancelling, TypedLast
    <3> QED BY <2>1, <2>2, <3>2 DEF EventsOfEnd
  <2>3. CASE mine.id # None
    <3>1. selection = mine.id /\ mine.id \in OwnSource
      BY <2>1, <2>3 DEF Typed, TypedDaemon
    <3>2. Cancelling(selection, s) /\ source[selection].owner = Daemon
      BY <1>1, <2>3, <3>1, OwnDiffer DEF Cancelling
    <3> QED BY <2>1, <2>3, <3>1, <3>2 DEF EventsOfEnd
  <2> QED BY <2>2, <2>3
<1>9. src[s].owner # Daemon /\ src[s].types = t
  BY <1>3, DaemonAssumption DEF NewSource
<1> HIDE DEF src, s, end
<1>7. CASE t = {}
  <2>1. toDaemon' = end
    BY <1>1, <1>2, <1>6, <1>7, <1>9 DEF EmitTo
  <2> QED BY <1>2, <1>4, <1>5, <1>7, <2>1 DEF Stage, Unannounced, end
<1>8. CASE t # {}
  <2>1. PICK id \in FreeOffers :
          /\ offer' = [offer EXCEPT ![id] = [of |-> s, types |-> t]]
          /\ toDaemon' = end \o <<Event("data_offer", id), Event("selection", id)>>
    BY <1>1, <1>2, <1>6, <1>8, <1>9 DEF EmitTo
  <2>2. OfThis(id)'
    BY <1>4, <2>1 DEF OfThis, FreeOffers, Typed, TypedServer, TypedOffers
  <2>3. \/ /\ mine'.id = None
           /\ toDaemon' = <<Event("data_offer", id), Event("selection", id)>>
        \/ /\ mine'.id # None
           /\ toDaemon' = <<Event("cancelled", mine'.id), Event("data_offer", id), Event("selection", id)>>
    <3>1. CASE mine.id = None
      <4>1. toDaemon' = <<>> \o <<Event("data_offer", id), Event("selection", id)>>
        BY <2>1, <3>1 DEF end
      <4> QED BY <1>2, <3>1, <4>1
    <3>2. CASE mine.id # None
      <4>1. toDaemon' = <<Event("cancelled", mine.id)>> \o <<Event("data_offer", id), Event("selection", id)>>
        BY <2>1, <3>2 DEF end
      <4>2. \A x, y, z : <<x>> \o <<y, z>> = <<x, y, z>>
        BY Concat3
      <4>3. toDaemon' = <<Event("cancelled", mine.id), Event("data_offer", id), Event("selection", id)>>
        BY <4>1, <4>2
      <4> QED BY <1>2, <3>2, <4>3
    <3> QED BY <3>1, <3>2
  <2>4. id \in OfferId
    BY DEF FreeOffers
  <2> QED BY <1>4, <1>5, <1>8, <2>2, <2>3, <2>4 DEF Stage, Announced
<1> QED BY <1>7, <1>8

(* The source that had no type gets its first one.                         *)
LEMMA CopyMoreFollowed ==
  ASSUME Typed, Followed, NEW s \in AppSource, NEW m \in Mime, CopyMore(s, m), Clean'
  PROVE  Stage'
<1> DEFINE src == [source EXCEPT ![s].types = @ \cup {m}]
<1>1. Quiet /\ selection = s /\ last'.copy = last.copy /\ Clean
  BY DEF CopyMore, Clean, Followed, TypedLast
<1>2. Unannounced /\ mine.id = None /\ Copied = s /\ Types = {}
  <2>1. Stage
    BY <1>1 DEF Followed
  <2>2. ~Abandoned /\ selection \notin OwnSource
    BY <1>1, OwnDiffer DEF Abandoned
  <2> QED BY <1>1, <2>1, <2>2, AtRest DEF Unannounced, Selected
<1>3. /\ source' = src /\ EmitTo(toDaemon, s, src)
      /\ UNCHANGED <<selection, dirty, fromDaemon, pending, taking, mine>>
  BY <1>1 DEF CopyMore, OfferType, daemonVars, keptVars, offerVars
<1>4. s \in Source /\ s # None /\ src[s].owner # Daemon /\ src[s].types = {m} /\ src[s].live
  BY <1>1, <1>2, OwnDiffer, Copying DEF Followed, Clean, Types, Unannounced, Selected, Typed, TypedServer, TypedSources
<1>5. Copied' = s /\ Types' = {m}
  BY <1>1, <1>2, <1>3, <1>4 DEF Copied, Types
<1>6. Selected' /\ Resting'
  BY <1>2, <1>3, <1>4, <1>5 DEF Unannounced, Selected, Resting
<1> HIDE DEF src
<1>7. PICK id \in FreeOffers :
        /\ offer' = [offer EXCEPT ![id] = [of |-> s, types |-> {m}]]
        /\ toDaemon' = toDaemon \o <<Event("data_offer", id), Event("selection", id)>>
  BY <1>3, <1>4 DEF EmitTo
<1>8. OfThis(id)' /\ id \in OfferId
  BY <1>5, <1>7 DEF OfThis, FreeOffers, Typed, TypedServer, TypedOffers
<1>9. toDaemon' = <<Event("data_offer", id), Event("selection", id)>>
  BY <1>1, <1>7 DEF Quiet
<1> QED BY <1>2, <1>3, <1>5, <1>6, <1>8, <1>9 DEF Stage, Announced

(* A source goes when it was told of its end, or before anybody was told   *)
(* of it.                                                                  *)
LEMMA DropFollowed ==
  ASSUME Typed, Followed, NEW s \in AppSource, DropCancelled(s) \/ Drop(s), Clean'
  PROVE  Stage'
<1>1. /\ UNCHANGED <<daemonVars, dirty, fromDaemon, pipe>> /\ last'.copy = last.copy /\ Clean
      /\ last.copy # s \/ Quiet
  BY DEF DropCancelled, Drop, DestroySource, ClearSelection, Spoil, Clean, Followed, TypedLast
<1>2. Stage /\ Copied \in AppSource /\ Copied # None /\ Copied' = Copied
  BY <1>1, Copying DEF Followed, Clean, Copied
<1>3. /\ source'[Copied].types = Types /\ source'[Copied].value = Content
      /\ Copied # s => source'[Copied].live = source[Copied].live
  BY <1>2, OwnDiffer DEF DropCancelled, Drop, DestroySource, ClearSelection, Types, Content,
     Typed, TypedServer, TypedSources
<1>4. CASE selection = s
  <2>1. ~Abandoned /\ selection \notin OwnSource
    BY <1>4, OwnDiffer DEF Abandoned
  <2>2. selection = Copied
    BY <1>2, <2>1 DEF Stage, Unannounced, Announced, Named, Waiting, Reading, Listed, HasIt, Selected
  <2>3. Unannounced
    BY <1>1, <1>2, <1>4, <2>1, <2>2, AtRest DEF Copied
  <2>4. selection' = None
    BY <1>4 DEF DropCancelled, Drop, DestroySource, ClearSelection
  <2>5. None \notin AppSource
    BY OwnDiffer
  <2> QED BY <1>2, <1>3, <2>3, <2>4, <2>5 DEF Stage, Abandoned, Unannounced, Types
<1>5. CASE selection # s
  <2>1. UNCHANGED <<selection, toDaemon, offer>>
    BY <1>5 DEF DropCancelled, Drop, DestroySource, ClearSelection
  <2>2. Types' = Types /\ Content' = Content
    BY <1>2, <1>3 DEF Types, Content
  <2>3. Selected => Selected'
    BY <1>1, <1>2, <1>3, <1>5, <2>1 DEF Selected
  <2>4. (Abandoned => Abandoned') /\ (Reading => Coming')
    BY <1>1, <1>2, <2>1, <2>2 DEF Abandoned, Reading, Coming
  <2>5. HasIt => HasIt'
    BY <1>1, <1>2, <2>1, <2>2 DEF HasIt, Kept, Resting, daemonVars, keptVars, offerVars, Types, Content
  <2> QED BY <1>1, <1>2, <1>3, <2>1, <2>3, <2>4, <2>5, StageStays
<1> QED BY <1>4, <1>5

LEMMA LeaveFollowed ==
  ASSUME Typed, Followed, NEW a \in App, Leave(a), Clean'
  PROVE  Stage'
<1>1. /\ UNCHANGED <<daemonVars, dirty, fromDaemon>> /\ last'.copy = last.copy /\ Clean
      /\ source[Copied].owner # a \/ Quiet
  BY DEF Leave, Disconnect, Clean, Followed, TypedLast, OwnerOf, Copied
<1>2. /\ Stage /\ Copied \in AppSource /\ Copied \in Source /\ Copied # None /\ Copied' = Copied
  BY <1>1, Copying DEF Followed, Clean, Copied
<1>3. /\ source'[Copied].types = Types /\ source'[Copied].value = Content
      /\ source[Copied].owner # a => source'[Copied].live = source[Copied].live
  BY <1>2 DEF Leave, Disconnect, OwnerOf, Types, Content, Typed, TypedServer, TypedSources
<1>4. selection \notin OwnSource \/ source[selection].owner # a
  BY DaemonAssumption, OwnDiffer
<1>5. CASE selection # None /\ source[selection].owner = a
  <2>1. ~Abandoned /\ selection \notin OwnSource
    BY <1>4, <1>5 DEF Abandoned, Typed, TypedServer, Source
  <2>2. selection = Copied
    BY <1>2, <2>1 DEF Stage, Unannounced, Announced, Named, Waiting, Reading, Listed, HasIt, Selected
  <2>3. Unannounced
    BY <1>1, <1>2, <1>5, <2>1, <2>2, AtRest
  <2>4. selection' = None
    BY <1>5 DEF Leave, Disconnect, OwnerOf
  <2>5. None \notin AppSource
    BY OwnDiffer
  <2> QED BY <1>2, <1>3, <2>3, <2>4, <2>5 DEF Stage, Abandoned, Unannounced, Types
<1>6. CASE ~(selection # None /\ source[selection].owner = a)
  <2>1. UNCHANGED <<selection, toDaemon, offer>>
    BY <1>6 DEF Leave, Disconnect, OwnerOf
  <2>2. Types' = Types /\ Content' = Content
    BY <1>2, <1>3 DEF Types, Content
  <2>3. Selected => Selected'
    BY <1>1, <1>2, <1>3, <1>6, <2>1 DEF Selected
  <2>4. Abandoned => Abandoned'
    BY <1>2, <2>1, <2>2 DEF Abandoned
  <2>5. HasIt => HasIt'
    BY <1>1, <1>2, <2>1, <2>2 DEF HasIt, Kept, Resting, daemonVars, keptVars, offerVars, Types, Content
  <2>6. Reading => Coming'
    <3> SUFFICES ASSUME Reading PROVE Coming'
      OBVIOUS
    <3>1. source[Copied].owner # a
      BY <1>1 DEF Reading, Asking, Quiet
    <3>2. pipe' = pipe
      BY <1>2, <3>1, OwnDiffer DEF Reading, Coming, Leave, Disconnect, OwnerOf
    <3> QED BY <1>2, <2>2, <3>2 DEF Reading, Coming
  <2> QED BY <1>1, <1>2, <1>3, <2>1, <2>3, <2>4, <2>5, <2>6, StageStays
<1> QED BY <1>5, <1>6

-----------------------------------------------------------------------------
(* The compositor.                                                         *)

LEMMA ServeFollowed ==
  ASSUME Typed, TypedLast, last.copy # None, Stage, Serve, UNCHANGED <<daemonVars, last>>
  PROVE  Stage'
<1> DEFINE r == Head(fromDaemon)
<1>1. /\ fromDaemon # <<>> /\ fromDaemon \in Seq(Requests) /\ fromDaemon' = Tail(fromDaemon)
  BY DEF Serve, Typed, TypedServer
<1>2. r \in Requests /\ r = fromDaemon[1] /\ Len(fromDaemon) \in Nat \ {0}
  BY <1>1
<1>3. r.id \in OwnSource /\ r.id \in Source /\ r.id \notin AppSource /\ r.id # None
  BY <1>2, OwnDiffer DEF Requests
<1>4. /\ Copied \in AppSource /\ Copied \in Source /\ Copied # None /\ Copied' = Copied /\ r.id # Copied
      /\ source[Copied].owner # Daemon
  BY <1>3, Copying DEF Copied
<1>5. (r.req = "set_selection" /\ SetSelection(r)) \/ (r.req = "destroy_source" /\ DestroyOwnSource(r))
  BY DEF Serve
<1> HIDE DEF r
<1>6. /\ source'[Copied].types = Types /\ source'[Copied].value = Content
      /\ source'[Copied].live = source[Copied].live
  BY <1>3, <1>4, <1>5 DEF SetSelection, DestroyOwnSource, ToldOfEnd, Cancelling, Types, Content,
     Typed, TypedServer, TypedSources
<1>7. Types' = Types /\ Content' = Content /\ UNCHANGED <<current, pending, taking>>
  BY <1>4, <1>6 DEF Types, Content, daemonVars, keptVars, offerVars
<1>8. CASE Abandoned
  <2>1. selection' \in {r.id, None, selection}
    BY <1>5 DEF SetSelection, DestroyOwnSource
  <2> QED BY <1>3, <1>7, <1>8, <2>1, OwnDiffer DEF Abandoned, Stage
<1>9. CASE HasIt
  <2>1. Len(fromDaemon) = 1 /\ r.req = "set_selection" /\ SetSelection(r) /\ selection = Copied /\ toDaemon = <<>>
    BY <1>1, <1>2, <1>5, <1>9 DEF HasIt
  <2>2. fromDaemon' = <<>>
    BY <1>1, <2>1
  <2>3. selection' = r.id /\ toDaemon' = <<>>
    BY <1>4, <2>1 DEF SetSelection, EventsOfEnd
  <2> QED BY <1>3, <1>7, <1>4, <1>9, <2>2, <2>3 DEF HasIt, Kept, Resting, Types, Content, Stage
<1>10. CASE Selected /\ ~HasIt
  <2>1. r.req = "destroy_source" /\ DestroyOwnSource(r)
    BY <1>2, <1>5, <1>10 DEF Selected
  <2>2. UNCHANGED <<selection, dirty, offer, toDaemon, pipe>>
    BY <1>4, <1>10, <2>1 DEF DestroyOwnSource, Selected
  <2>3. Len(fromDaemon') = Len(fromDaemon) - 1 /\ \A i \in 1 .. Len(fromDaemon') : fromDaemon'[i] = fromDaemon[i + 1]
    BY <1>1
  <2>4. Selected'
    BY <1>2, <1>4, <1>6, <1>10, <2>2, <2>3 DEF Selected
  <2>5. (Abandoned => Abandoned') /\ (Reading => Coming')
    BY <1>4, <1>7, <2>2 DEF Abandoned, Reading, Coming
  <2> QED BY <1>4, <1>6, <1>10, <2>2, <2>4, <2>5, StageStays
<1> QED BY <1>8, <1>9, <1>10 DEF Stage, Unannounced, Announced, Named, Waiting, Reading, Listed

LEMMA FlushFollowed ==
  ASSUME Typed, TypedLast, last.copy # None, Stage, FlushBroadcast, UNCHANGED <<daemonVars, last>>
  PROVE  Stage'
<1>1. /\ dirty /\ EmitTo(toDaemon, selection, source) /\ UNCHANGED <<selection, source, fromDaemon>>
      /\ UNCHANGED <<current, pending, taking>> /\ Copied' = Copied /\ Types' = Types
  BY DEF FlushBroadcast, daemonVars, keptVars, offerVars, Copied, Types
<1>2. CASE Abandoned
  BY <1>1, <1>2 DEF Abandoned, Stage
<1>3. CASE HasIt
  <2>1. selection \in OwnSource /\ fromDaemon = <<>>
    BY <1>1, <1>3 DEF HasIt
  <2>2. toDaemon' = toDaemon
    BY <1>1, <2>1, OwnDiffer DEF EmitTo
  <2> QED BY <1>1, <1>3, <2>1, <2>2 DEF HasIt, Kept, Resting, Stage
<1> QED BY <1>1, <1>2, <1>3 DEF Stage, Unannounced, Announced, Named, Waiting, Reading, Listed, Selected

(* The application answers for its source.                                 *)
LEMMA PipeFollowed ==
  ASSUME Typed, TypedLast, last.copy # None, Stage, Pipe
  PROVE  Stage'
<1>1. /\ UNCHANGED <<selection, dirty, source, offer, toDaemon, fromDaemon, daemonVars, last>>
  BY DEF Pipe, Answer, AnswerPart, ghostVars
<1>2. Copied' = Copied /\ Types' = Types /\ Content' = Content /\ UNCHANGED <<current, pending, taking>>
  BY <1>1 DEF Copied, Types, Content, daemonVars, keptVars, offerVars
<1>3. (Selected => Selected') /\ (Abandoned => Abandoned')
  BY <1>1, <1>2 DEF Selected, Abandoned
<1>4. HasIt => HasIt'
  BY <1>1, <1>2 DEF HasIt, Kept, Resting
<1>5. Reading => Coming'
  <2> SUFFICES ASSUME Reading PROVE Coming'
    OBVIOUS
  <2>1. pipe.at # None
    BY DEF Pipe, Answer, AnswerPart
  <2>2. pipe.at = Copied /\ ~pipe.end /\ source[pipe.at].live
    BY <2>1 DEF Reading, Coming, Listed, Selected
  <2>3. CASE Answer
    BY <1>2, <2>2, <2>3 DEF Answer, Coming, Content
  <2>4. CASE AnswerPart
    BY <1>2, <2>2, <2>4 DEF AnswerPart, Coming, Typed, TypedServer, TypedPipe
  <2> QED BY <2>3, <2>4 DEF Pipe
<1> QED BY <1>1, <1>2, <1>3, <1>4, <1>5, StageStays DEF Types, Content

-----------------------------------------------------------------------------
(* The daemon is told.                                                     *)

LEMMA DispatchFollowed ==
  ASSUME Typed, Offers, TypedLast, last.copy # None, Stage, Dispatch
  PROVE  Stage'
<1> DEFINE e == Head(toDaemon)
<1>1. /\ toDaemon # <<>> /\ TypedEvents(toDaemon) /\ toDaemon' = Tail(toDaemon)
      /\ UNCHANGED <<selection, dirty, source, pipe, last>>
      /\ \/ e.ev = "data_offer" /\ DeviceDataOffer(e.id)
         \/ e.ev = "selection" /\ DeviceSelection(e.id)
         \/ e.ev = "cancelled" /\ SourceCancelled(e.id)
  BY DEF Dispatch, ghostVars, Typed, TypedServer
<1>2. Copied' = Copied /\ Types' = Types
  BY <1>1 DEF Copied, Types
<1>3. CASE Abandoned
  BY <1>1, <1>2, <1>3 DEF Abandoned, Stage
<1>4. ASSUME mine.id # None, e = Event("cancelled", mine.id)
      PROVE  /\ mine'.id = None /\ UNCHANGED <<offer, pending, taking>>
             /\ Selected => Selected'
  <2> DEFINE r == Request("destroy_source", mine.id, {})
  <2>1. SourceCancelled(mine.id)
    BY <1>1, <1>4 DEF Event
  <2>2. /\ mine' = NoSource /\ UNCHANGED <<offer, pending, taking>>
        /\ fromDaemon' = fromDaemon \o <<r>> /\ fromDaemon \in Seq(Requests)
    BY <1>4, <2>1 DEF SourceCancelled, DestroyMine, Typed, TypedServer
  <2>3. r \in Requests
    BY <1>4 DEF Requests, Request, Typed, TypedDaemon
  <2>4. /\ Len(fromDaemon') = Len(fromDaemon) + 1 /\ fromDaemon'[Len(fromDaemon) + 1] = r
        /\ Len(fromDaemon) \in Nat /\ \A i \in 1 .. Len(fromDaemon) : fromDaemon'[i] = fromDaemon[i]
    BY <2>2, <2>3
  <2>5. r.req = "destroy_source"
    BY DEF Request
  <2> HIDE DEF r
  <2>6. Selected => \A i \in 1 .. Len(fromDaemon') : fromDaemon'[i].req = "destroy_source"
    <3>1. \A i \in 1 .. Len(fromDaemon') : i = Len(fromDaemon) + 1 \/ i \in 1 .. Len(fromDaemon)
      BY <2>4
    <3> QED BY <2>4, <2>5, <3>1 DEF Selected
  <2> QED BY <1>1, <1>2, <2>2, <2>6 DEF Selected, NoSource
<1>5. CASE Unannounced
  <2>1. mine.id # None /\ toDaemon = <<Event("cancelled", mine.id)>>
    BY <1>1, <1>5 DEF Unannounced
  <2>2. e = Event("cancelled", mine.id) /\ toDaemon' = <<>>
    BY <1>1, <2>1
  <2> QED BY <1>2, <1>4, <1>5, <2>1, <2>2 DEF Unannounced, Resting, Stage
<1>6. ASSUME Announced, mine.id # None PROVE Stage'
  <2>1. PICK id \in OfferId :
          /\ OfThis(id)
          /\ toDaemon = <<Event("cancelled", mine.id), Event("data_offer", id), Event("selection", id)>>
    BY <1>6 DEF Announced
  <2>2. e = Event("cancelled", mine.id) /\ toDaemon' = <<Event("data_offer", id), Event("selection", id)>>
    BY <1>1, <2>1
  <2>3. OfThis(id)'
    BY <1>2, <1>4, <1>6, <2>1, <2>2 DEF OfThis
  <2> QED BY <1>2, <1>4, <1>6, <2>2, <2>3 DEF Announced, Resting, Stage
<1>7. ASSUME Announced, mine.id = None PROVE Stage'
  <2>1. PICK id \in OfferId : OfThis(id) /\ toDaemon = <<Event("data_offer", id), Event("selection", id)>>
    BY <1>7 DEF Announced
  <2>2. e = Event("data_offer", id) /\ toDaemon' = <<Event("selection", id)>>
    BY <1>1, <2>1
  <2>3. DeviceDataOffer(id) /\ e.ev = "data_offer"
    BY <1>1, <2>2 DEF Event
  <2>4. g_offer = None
    BY <1>1, <2>3, TailQueued DEF Offers
  <2>5. /\ mimes' \in SetToSeqs(offer[id].types) /\ UNCHANGED <<fromDaemon, mine, pending>>
        /\ taking' = taking /\ DestroyOffers({None})
    BY <1>7, <2>3, <2>4 DEF DeviceDataOffer, PointersGone, Announced, Resting
  <2>6. offer[id] = [of |-> Copied, types |-> Types] /\ Types \in SUBSET Type
    BY <2>1 DEF OfThis, Typed, TypedServer, TypedOffers
  <2>7. Lists(mimes', Types)
    BY <2>5, <2>6, PermutationLists
  <2>8. OfThis(id)'
    BY <1>2, <2>1, <2>5, Bounds DEF OfThis, DestroyOffers
  <2>9. Selected' /\ Resting'
    BY <1>1, <1>2, <1>7, <2>5 DEF Announced, Selected, Resting
  <2>10. Lists(mimes, Types)'
    BY <1>2, <2>7 DEF Lists
  <2> QED BY <1>2, <1>7, <2>2, <2>5, <2>8, <2>9, <2>10 DEF Announced, Named, Listed, Stage
<1>8. CASE Named
  <2>1. PICK id \in OfferId : OfThis(id) /\ toDaemon = <<Event("selection", id)>>
    BY <1>8 DEF Named
  <2>2. e = Event("selection", id) /\ toDaemon' = <<>>
    BY <1>1, <2>1
  <2>3. DeviceSelection(id) /\ id # None
    BY <1>1, <2>2, Bounds DEF Event
  <2>4. /\ pending' = id /\ own' = FALSE /\ UNCHANGED <<mimes, taking, fromDaemon, mine>>
    BY <2>3 DEF DeviceSelection
  <2>5. \A o \in OfferId : offer'[o] = offer[o]
    BY <1>8, <2>3, Bounds DEF DeviceSelection, DestroyOffers, Named, Resting
  <2>6. OfThis(pending)'
    BY <1>2, <2>1, <2>4, <2>5 DEF OfThis
  <2>7. Selected'
    BY <1>1, <1>2, <1>8, <2>4 DEF Named, Listed, Selected
  <2> QED BY <1>2, <1>8, <2>2, <2>4, <2>6, <2>7 DEF Named, Listed, Lists, Resting, Waiting, Stage
<1> QED BY <1>1, <1>3, <1>5, <1>6, <1>7, <1>8 DEF Stage, Waiting, Reading, HasIt

LEMMA DrainFollowed ==
  ASSUME Typed, TypedLast, last.copy # None, Stage, DrainPendingOffer
  PROVE  Stage'
<1>1. /\ taking = NoTake /\ pending # None /\ pending' = None
      /\ UNCHANGED <<selection, dirty, source, toDaemon, fromDaemon, own, mine, mimes, last>>
      /\ Copied' = Copied /\ Types' = Types /\ Content' = Content
  BY DEF DrainPendingOffer, keptVars, ghostVars, Copied, Types, Content
<1>2. CASE Abandoned
  BY <1>1, <1>2 DEF Abandoned, Stage
<1>3. CASE Waiting
  <2>1. Listed /\ OfThis(pending) /\ mimes # <<>> /\ PickMime \in Types
    BY <1>3, PickIsListed DEF Waiting, Listed
  <2>2. /\ taking' = [of |-> pending, pass |-> 0, preferred |-> PickMime, mime |-> PickMime,
                      clip |-> Empty, preferredGone |-> FALSE, mimeGone |-> FALSE]
        /\ ReceiveType(pending, PickMime) /\ offer' = offer
    BY <2>1 DEF DrainPendingOffer
  <2>3. pipe'.at = Copied /\ ~pipe'.end
    BY <2>1, <2>2 DEF ReceiveType, OfThis, EmptyPipe
  <2>4. Empty = [m \in {} |-> Content]
    BY DEF Empty
  <2>5. Listed'
    BY <1>1, <2>1 DEF Listed, Selected, Lists
  <2>6. Asking'
    <3>1. taking'.pass = 0 /\ taking'.of = pending /\ taking'.clip = Empty /\ taking'.preferred = PickMime
      BY <2>2
    <3>2. taking' # NoTake
      BY <1>1, <3>1 DEF NoTake
    <3>3. SoFar' = {}
      BY <3>1 DEF SoFar
    <3>4. 0 \in 0 .. Len(mimes)
      BY DEF Typed, TypedDaemon
    <3>5. OfThis(taking.of)'
      BY <1>1, <2>1, <2>2, <3>1 DEF OfThis
    <3> QED BY <1>1, <2>1, <2>2, <2>4, <3>1, <3>2, <3>3, <3>4, <3>5 DEF Asking
  <2> QED BY <1>1, <1>3, <2>3, <2>5, <2>6 DEF Waiting, Reading, Coming, Stage
<1> QED BY <1>1, <1>2, <1>3 DEF Stage, Unannounced, Announced, Named, Resting, Reading, HasIt

(* take_offer has read a type, and goes on with the next, or is done.      *)
LEMMA ReadFollowed ==
  ASSUME Typed, TypedLast, last.copy # None, Stage, ReadToEnd
  PROVE  Stage'
<1>1. /\ taking # NoTake /\ pipe.end /\ fromDaemon = <<>> /\ last' = last
  BY DEF ReadToEnd, ghostVars
<1>2. UNCHANGED <<selection, dirty, source, toDaemon, pending>>
  BY DEF ReadToEnd, Received
<1>3. Copied' = Copied /\ Types' = Types /\ Content' = Content
  BY <1>1, <1>2 DEF Copied, Types, Content
<1>4. CASE Abandoned
  BY <1>2, <1>3, <1>4 DEF Abandoned, Stage
<1>5. CASE Reading
  <2> DEFINE S == SoFar \cup {taking.mime}
             c == [m \in S |-> Content]
  <2>1. pipe.data = Content /\ Content # Nothing /\ ~taking.mimeGone /\ ~taking.preferredGone
    BY <1>1, <1>5, Copying DEF Reading, Coming, Asking
  <2>2. With(taking.clip, taking.mime, pipe.data) = c
    BY <1>5, <2>1 DEF Reading, Asking, With
  <2>3. Received(c)
    BY <2>1, <2>2 DEF ReadToEnd, Read
  <2>4. /\ taking.pass \in 0 .. Len(mimes) /\ Len(mimes) \in Nat /\ taking.preferred \in Types
        /\ taking.mime = IF taking.pass = 0 THEN taking.preferred ELSE mimes[taking.pass]
        /\ OfThis(taking.of) /\ Listed /\ ~own /\ toDaemon = <<>> /\ pending = None
    BY <1>5 DEF Reading, Asking, Typed, TypedDaemon
  <2>5. /\ S = {taking.preferred} \cup {mimes[q] : q \in 1 .. taking.pass}
    <3>1. CASE taking.pass = 0
      BY <2>4, <3>1 DEF SoFar
    <3>2. CASE taking.pass # 0
      <4>1. 1 .. taking.pass = (1 .. taking.pass - 1) \cup {taking.pass}
        BY <2>4, <3>2
      <4> QED BY <2>4, <3>2, <4>1 DEF SoFar
    <3> QED BY <3>1, <3>2
  <2>6. \A q : Skips(q) = {mimes[q] = taking.preferred}
    BY <2>1 DEF Skips
  <2> HIDE DEF c, S
  <2>7. ASSUME NEW p \in 1 .. Len(mimes), Continue(c, p) PROVE Stage'
    <3>1. /\ p \in taking.pass + 1 .. Len(mimes)
          /\ \A q \in taking.pass + 1 .. p - 1 : mimes[q] = taking.preferred
      BY <2>6, <2>7 DEF Continue, NextPass
    <3>2. /\ taking' = [taking EXCEPT !.pass = p, !.mime = mimes[p], !.clip = c, !.mimeGone = FALSE]
          /\ ReceiveType(taking.of, mimes[p])
          /\ UNCHANGED <<offer, fromDaemon, own, mine, mimes>>
      BY <2>7 DEF Continue, keptVars
    <3>3. S = {taking.preferred} \cup {mimes[q] : q \in 1 .. p - 1}
      <4>1. 1 .. p - 1 = (1 .. taking.pass) \cup (taking.pass + 1 .. p - 1)
        BY <2>4, <3>1
      <4> QED BY <2>5, <3>1, <4>1
    <3>4. taking \in [of : OfferId, pass : Nat, preferred : Type, mime : Type, clip : {taking.clip},
                      preferredGone : BOOLEAN, mimeGone : BOOLEAN]
      BY <1>1 DEF Typed, TypedDaemon
    <3>5. /\ taking'.of = taking.of /\ taking'.pass = p /\ taking'.preferred = taking.preferred
          /\ taking'.mime = mimes[p] /\ taking'.clip = c /\ ~taking'.mimeGone /\ ~taking'.preferredGone
      BY <2>1, <3>2, <3>4
    <3>6. SoFar' = S
      BY <3>1, <3>2, <3>3, <3>5, <2>4 DEF SoFar
    <3>7. OfThis(taking.of)' /\ taking' # NoTake
      <4>1. taking.of # None /\ NoTake.of = None
        BY <2>4, Bounds DEF OfThis, NoTake
      <4>2. taking' # NoTake
        BY <3>5, <4>1
      <4> QED BY <1>3, <2>4, <3>2, <3>5, <4>2 DEF OfThis
    <3>8. Asking'
      BY <1>3, <2>4, <3>1, <3>2, <3>5, <3>6, <3>7 DEF Asking, c
    <3>9. Listed'
      BY <1>2, <1>3, <2>4, <3>2 DEF Listed, Selected, Lists
    <3>10. Coming'
      <4>1. mimes[p] \in Types
        BY <2>4 DEF Listed, Lists
      <4>2. pipe'.at = Copied /\ ~pipe'.end
        BY <2>4, <3>2, <4>1 DEF ReceiveType, OfThis, EmptyPipe
      <4> QED BY <1>3, <4>2 DEF Coming
    <3> QED BY <1>2, <2>4, <3>2, <3>8, <3>9, <3>10 DEF Reading, Stage
  <2>8. ASSUME Finish(c) PROVE Stage'
    <3>1. \A q \in taking.pass + 1 .. Len(mimes) : mimes[q] = taking.preferred
      BY <2>6, <2>8 DEF Finish, NoPass
    <3>2. S = Types
      <4>1. 1 .. Len(mimes) = (1 .. taking.pass) \cup (taking.pass + 1 .. Len(mimes))
        BY <2>4
      <4>2. S = {taking.preferred} \cup {mimes[q] : q \in 1 .. Len(mimes)}
        BY <2>5, <3>1, <4>1
      <4>3. mimes \in Seq(Types) /\ \A m \in Types : \E q \in 1 .. Len(mimes) : mimes[q] = m
        BY <2>4 DEF Listed, Lists
      <4>4. \A q \in 1 .. Len(mimes) : mimes[q] \in Types
        BY <4>3
      <4>5. {mimes[q] : q \in 1 .. Len(mimes)} = Types
        BY <4>3, <4>4, Zenon
      <4> QED BY <2>4, <4>2, <4>5
    <3>3. c # Empty
      BY <2>4, <3>2, EmptyIsClip DEF c
    <3>4. /\ current' = c /\ taking' = NoTake /\ BecomeOwner(c)
      BY <2>4, <2>8, <3>3 DEF Finish
    <3>5. fromDaemon' = fromDaemon \o DestroyMine \o <<Request("set_selection", mine'.id, DOMAIN c)>>
      BY <3>4 DEF BecomeOwner
    <3>6. DestroyMine = <<>>
      BY <2>4 DEF Listed, DestroyMine
    <3>7. Len(fromDaemon') = 1 /\ fromDaemon'[1].req = "set_selection"
      BY <1>1, <3>5, <3>6 DEF Request
    <3>8. Kept(Copied)'
      BY <1>3, <3>2, <3>4 DEF Kept, c, Types, Content
    <3>9. selection = Copied /\ ~dirty /\ Types # {}
      BY <2>4 DEF Listed, Selected
    <3> QED BY <1>2, <1>3, <2>4, <3>4, <3>7, <3>8, <3>9 DEF HasIt, Resting, Stage
  <2> QED BY <2>3, <2>7, <2>8 DEF Received
<1> QED BY <1>1, <1>4, <1>5 DEF Stage, Unannounced, Announced, Named, Waiting, Resting, HasIt

-----------------------------------------------------------------------------
LEMMA NextFollowed ==
  ASSUME Typed, Offers, OwnerAgrees, Followed, [Next]_vars
  PROVE  Followed'
<1>1. TypedLast'
  BY LastTyped DEF Followed
<1>2. ASSUME Clean' PROVE Stage'
  <2>1. CASE \E a \in App, t \in TypeSets, v \in Value : Copy(a, t, v)
    BY <1>2, <2>1, CopyFollowed DEF Followed
  <2>2. CASE \E s \in AppSource, m \in Mime : CopyMore(s, m)
    BY <1>2, <2>2, CopyMoreFollowed
  <2>3. CASE \E s \in AppSource : DropCancelled(s) \/ Drop(s)
    BY <1>2, <2>3, DropFollowed
  <2>4. CASE \E a \in App : Leave(a)
    BY <1>2, <2>4, LeaveFollowed
  <2>5. CASE User
    <3>1. last \in [copy : 0 .. copies, overtook : BOOLEAN, spoiled : BOOLEAN]
      BY DEF Followed, TypedLast
    <3>2. last'.copy = None \/ last'.spoiled
      BY <2>5, <3>1 DEF User, Select, Clear, Command, Restart
    <3> QED BY <1>2, <3>2 DEF Clean
  <2>6. ASSUME last' = last PROVE Clean /\ Stage /\ last.copy # None /\ TypedLast
    BY <1>2, <2>6 DEF Clean, Followed
  <2>7. CASE Server
    BY <2>6, <2>7, ServeFollowed, FlushFollowed DEF Server, ghostVars
  <2>8. CASE Pipe
    BY <2>6, <2>8, PipeFollowed DEF Pipe, Answer, AnswerPart, ghostVars
  <2>9. CASE Dispatch
    BY <2>6, <2>9, DispatchFollowed DEF Dispatch, ghostVars
  <2>10. CASE DrainPendingOffer
    BY <2>6, <2>10, DrainFollowed DEF DrainPendingOffer, ghostVars
  <2>11. CASE ReadToEnd
    BY <2>6, <2>11, ReadFollowed DEF ReadToEnd, ghostVars
  <2>12. CASE ReceiveTimeout
    <3>1. last \in [copy : 0 .. copies, overtook : BOOLEAN, spoiled : BOOLEAN]
      BY DEF Followed, TypedLast
    <3> QED BY <1>2, <2>12, <3>1 DEF ReceiveTimeout, Clean
  <2>13. CASE UNCHANGED vars
    <3>1. /\ UNCHANGED <<selection, dirty, source, offer, toDaemon, fromDaemon, pipe, daemonVars, last>>
      BY <2>13 DEF vars, serverVars, ghostVars, daemonVars
    <3>2. Copied' = Copied /\ Types' = Types /\ Content' = Content /\ UNCHANGED <<current, pending, taking>>
      BY <3>1 DEF Copied, Types, Content, daemonVars, keptVars, offerVars
    <3>3. (Selected => Selected') /\ (Abandoned => Abandoned') /\ (Reading => Coming') /\ (HasIt => HasIt')
      BY <3>1, <3>2 DEF Selected, Abandoned, Reading, Coming, HasIt, Kept, Resting
    <3> QED BY <2>6, <3>1, <3>2, <3>3, StageStays DEF Types, Content
  <2> QED BY <2>1, <2>2, <2>3, <2>4, <2>5, <2>7, <2>8, <2>9, <2>10, <2>11, <2>12, <2>13
           DEF Next, Applications, DaemonRuns
<1> QED BY <1>1, <1>2 DEF Followed

(* A copy that was made while nothing was on its way, and whose source     *)
(* stayed and answered in time, is kept with every type it has when the    *)
(* daemon and the compositor have nothing left to do: the events, the list *)
(* of types and the pipe carry it to g.current whole, in whatever order    *)
(* the types come and whatever else happens meanwhile.                     *)
THEOREM KeepsCopies == Spec => []KeepsLatest
<1>1. Init => Followed
  BY BoundAssumption DEF Init, Followed, TypedLast, Clean, AppSource, None
<1>2. Typed /\ Followed => KeepsLatest
  <2> SUFFICES ASSUME Typed, Followed, Keepable, ~last.overtook PROVE Kept(last.copy)
    BY DEF KeepsLatest
  <2>1. Quiet /\ Clean /\ Types # {} /\ Stage
    BY DEF Keepable, Clean, Followed, Types, Copied
  <2> QED BY <2>1, AtRest DEF Unannounced, Abandoned, HasIt, Copied
<1>3. Typed /\ Offers /\ OwnerAgrees /\ Followed /\ [Next]_vars => Followed'
  BY NextFollowed
<1> QED BY <1>1, <1>2, <1>3, Typing, Accounting, OwnersAgree, PTL DEF Spec
=============================================================================
