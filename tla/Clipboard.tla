----------------------------- MODULE Clipboard ------------------------------
(***************************************************************************)
(* luna-clipboard.c with the selection of the compositor: whatever an      *)
(* application copies, the daemon reads all its types, keeps them and      *)
(* becomes the owner itself, so that the content outlives the application. *)
(*                                                                         *)
(* The daemon is one thread, but receive_offer runs its event listeners    *)
(* while it waits for a pipe.  So the selection can change under           *)
(* take_offer, and the one list of types, g.offer_mimes, is emptied and    *)
(* filled again while take_offer reads it and holds pointers into it.      *)
(***************************************************************************)
EXTENDS Selection

CONSTANTS
  Part,            \* the beginning of what a slow application writes
  Junk,            \* a type read through a pointer that was freed
  HistMax,         \* HIST_MAX
  MaxEvents,       \* bound: commands, restarts, timeouts, and what an
                   \* application does besides copying and answering
  TypeSets         \* the types sources have when they are selected

ASSUME TypeSetAssumption == TypeSets \subseteq SUBSET Mime
ASSUME HistAssumption == HistMax \in Nat \ {0}
ASSUME ValueAssumption == Nothing \notin Value

VARIABLES
  current,         \* g.current, a function from the types kept to contents
  history, saved,  \* g.history, and the file
  unsaved,         \* history_save failed the last time
  own,             \* g.own_selection
  mine,            \* g.source and the types it offers
  g_offer, pending,\* g.offer, g_pending_offer
  held,            \* the offer objects there are on this side
  mimes,           \* g.offer_mimes
  taking,          \* what take_offer and receive_offer are at
  copies, events,  \* how often something was copied, how much happened else
  last             \* the copy to be kept now, and what got in its way

keptVars == <<current, history, saved, unsaved, own, mine>>
offerVars == <<g_offer, pending, held, mimes, taking>>
ghostVars == <<copies, events, last>>
vars == <<serverVars, keptVars, offerVars, ghostVars>>

Empty == <<>>                        \* no content of any type
NoTake == [of |-> None]
NoSource == [id |-> None, types |-> {}]
Request(req, id, types) == [req |-> req, id |-> id, types |-> types]

Quiet == /\ toDaemon = <<>> /\ fromDaemon = <<>> /\ ~dirty
         /\ pending = None /\ taking = NoTake

(* What is not a copy and its handling happens MaxEvents times at most.    *)
Happens == events < MaxEvents /\ events' = events + 1

-----------------------------------------------------------------------------
(* Contents and the history.                                               *)

(* pick_mime: the plain text, else the first.                              *)
PickMime == IF Text \in Range(mimes) THEN Text ELSE mimes[1]

(* clip_add: what a type already has is kept.                              *)
With(clip, mime, data) ==
  [m \in DOMAIN clip \cup {mime} |-> IF m \in DOMAIN clip THEN clip[m] ELSE data]

(* What the file keeps of an entry: e->mime and e->data.                   *)
Primary(clip) ==
  LET m == IF Text \in DOMAIN clip THEN Text ELSE CHOOSE t \in DOMAIN clip : TRUE
  IN [x \in {m} |-> clip[x]]

HistoryPush(clip) ==
  IF history # <<>> /\ history[1] = clip THEN history
  ELSE SubSeq(<<clip>> \o history, 1, IF Len(history) < HistMax THEN Len(history) + 1 ELSE HistMax)

(* A mutant: the selected entry stays where it is.                         *)
PromoteInPlace(i) == history

(* The entry becomes the newest.                                           *)
Promote(i) == <<history[i]>> \o RemoveAt(history, i)

(* history_save: a new file takes the place of the old one, or the old one *)
(* stays, whichever of mkdir, fopen, write and rename failed.              *)
Save(entries) ==
  \/ unsaved' = FALSE /\ saved' = [i \in DOMAIN entries |-> Primary(entries[i])]
  \/ unsaved' = TRUE /\ saved' = saved

(* become_selection_owner: a source takes the place of the one there was.  *)
(* expect_self_offer is set and reset in it with no listener in between,   *)
(* so no listener sees it set.                                             *)
FreeOwn == {s \in OwnSource : /\ ~source[s].live
                              /\ \A i \in DOMAIN fromDaemon : fromDaemon[i].id # s
                              /\ \A i \in DOMAIN toDaemon : toDaemon[i] # Event("cancelled", s)} \ {mine.id}
DestroyMine == IF mine.id = None THEN <<>> ELSE <<Request("destroy_source", mine.id, {})>>
BecomeOwner(clip) ==
  \E id \in FreeOwn :
  /\ \A s \in FreeOwn : id <= s
  /\ mine' = [id |-> id, types |-> DOMAIN clip]
  /\ own' = TRUE
  /\ fromDaemon' = fromDaemon \o DestroyMine \o <<Request("set_selection", id, DOMAIN clip)>>

-----------------------------------------------------------------------------
(* The listeners.  They run in the main loop and, while take_offer waits   *)
(* for a pipe, under it.                                                   *)

(* offer_mimes_clear frees the strings take_offer points to.               *)
PointersGone ==
  taking' = IF taking = NoTake THEN taking
            ELSE [taking EXCEPT !.preferredGone = TRUE, !.mimeGone = TRUE]

(* data_offer, and the offer events that fill the list, in any order.       *)
DeviceDataOffer(id) ==
  /\ mimes' \in SetToSeqs(offer[id].types) /\ PointersGone
  /\ DestroyOffers({g_offer})
  /\ held' = (held \ {g_offer}) \cup {id}
  /\ g_offer' = id
  /\ UNCHANGED <<fromDaemon, pending, own, mine>>

(* A mutant: the offer that waited already is forgotten.                   *)
DeviceSelectionLeaks(id) ==
  /\ pending' = id /\ g_offer' = None /\ own' = FALSE
  /\ IF id = None THEN mimes' = <<>> /\ PointersGone ELSE UNCHANGED <<mimes, taking>>
  /\ UNCHANGED <<offer, held, fromDaemon, mine>>

DeviceSelection(id) ==
  /\ LET old == {pending} \ {id} IN DestroyOffers(old) /\ held' = held \ old
  /\ pending' = id
  /\ g_offer' = None /\ own' = FALSE
  /\ IF id = None THEN mimes' = <<>> /\ PointersGone ELSE UNCHANGED <<mimes, taking>>
  /\ UNCHANGED <<fromDaemon, mine>>

(* A mutant: only another source would be taken for the cancelled one.     *)
SourceCancelledUnnoticed(id) == UNCHANGED <<fromDaemon, mine, own, offer, held, g_offer, pending, mimes, taking>>

SourceCancelled(id) ==
  /\ IF mine.id = id
     THEN /\ fromDaemon' = fromDaemon \o DestroyMine
          /\ mine' = NoSource /\ own' = FALSE
     ELSE UNCHANGED <<fromDaemon, mine, own>>
  /\ UNCHANGED <<offer, held, g_offer, pending, mimes, taking>>

(* One event.  Reads may end anywhere in the stream, so the main loop can  *)
(* get to drain_pending_offer between any two of them.                     *)
Dispatch ==
  /\ toDaemon # <<>>
  /\ LET e == Head(toDaemon) IN
       \/ e.ev = "data_offer" /\ DeviceDataOffer(e.id)
       \/ e.ev = "selection" /\ DeviceSelection(e.id)
       \/ e.ev = "cancelled" /\ SourceCancelled(e.id)
  /\ toDaemon' = Tail(toDaemon)
  /\ UNCHANGED <<selection, dirty, source, pipe, current, history, saved, unsaved, ghostVars>>

-----------------------------------------------------------------------------
(* take_offer: the preferred type first, then each of the others.          *)

(* A mutant: g_pending_offer goes on naming the offer that is read.        *)
DrainAgain ==
  /\ taking = NoTake /\ pending # None
  /\ IF mimes = <<>>
     THEN DestroyOffers({pending}) /\ held' = held \ {pending} /\ UNCHANGED <<taking, pipe>>
     ELSE /\ taking' = [of |-> pending, pass |-> 0, preferred |-> PickMime, mime |-> PickMime,
                        clip |-> Empty, preferredGone |-> FALSE, mimeGone |-> FALSE]
          /\ ReceiveType(pending, PickMime)
          /\ UNCHANGED <<offer, held>>
  /\ UNCHANGED <<selection, dirty, source, toDaemon, fromDaemon, keptVars, g_offer, pending, mimes, ghostVars>>

DrainPendingOffer ==
  /\ taking = NoTake /\ pending # None
  /\ pending' = None
  /\ IF mimes = <<>>
     THEN DestroyOffers({pending}) /\ held' = held \ {pending} /\ UNCHANGED <<taking, pipe>>
     ELSE /\ taking' = [of |-> pending, pass |-> 0, preferred |-> PickMime, mime |-> PickMime,
                        clip |-> Empty, preferredGone |-> FALSE, mimeGone |-> FALSE]
          /\ ReceiveType(pending, PickMime)
          /\ UNCHANGED <<offer, held>>
  /\ UNCHANGED <<selection, dirty, source, toDaemon, fromDaemon, keptVars, g_offer, mimes, ghostVars>>

(* The types a pointer can show: once freed, the string or anything.       *)
Read(mime, gone) == IF gone THEN {mime, Junk} ELSE {mime}

(* A mutant: of the other types those are read that were read already.     *)
SkipsOthers(p) == IF taking.preferredGone THEN BOOLEAN ELSE {mimes[p] # taking.preferred}
(* The passes after this one; the list is the one that is there now.  A    *)
(* freed preferred type compares equal with a type or not.                 *)
Skips(p) == IF taking.preferredGone THEN BOOLEAN ELSE {mimes[p] = taking.preferred}
NextPass(p) ==
  /\ p \in taking.pass + 1 .. Len(mimes) /\ FALSE \in Skips(p)
  /\ \A q \in taking.pass + 1 .. p - 1 : TRUE \in Skips(q)
NoPass == \A q \in taking.pass + 1 .. Len(mimes) : TRUE \in Skips(q)

Continue(clip, p) ==
  /\ NextPass(p)
  /\ taking' = [taking EXCEPT !.pass = p, !.mime = mimes[p], !.clip = clip, !.mimeGone = FALSE]
  /\ ReceiveType(taking.of, mimes[p])
  /\ UNCHANGED <<offer, fromDaemon, keptVars, held, mimes>>

Finish(clip) ==
  /\ NoPass
  /\ DestroyOffers({taking.of}) /\ held' = held \ {taking.of}
  /\ taking' = NoTake /\ mimes' = <<>> /\ pipe' = EmptyPipe
  /\ \/ clip = Empty /\ UNCHANGED <<fromDaemon, keptVars>>
     \/ /\ clip # Empty /\ clip = current
        /\ IF own THEN UNCHANGED <<fromDaemon, own, mine>> ELSE BecomeOwner(clip)
        /\ UNCHANGED <<current, history, saved, unsaved>>
     \/ /\ clip # Empty /\ clip # current
        /\ current' = clip
        /\ history' = HistoryPush(clip) /\ Save(history')
        /\ BecomeOwner(clip)

Received(clip) ==
  /\ \/ \E p \in 1 .. Len(mimes) : Continue(clip, p)
     \/ Finish(clip)
  /\ UNCHANGED <<selection, dirty, source, toDaemon, g_offer, pending>>

(* A mutant: an empty answer is an entry as well.                          *)
ReadToEndEmpty ==
  /\ taking # NoTake /\ pipe.end /\ fromDaemon = <<>>
  /\ \E m \in Read(taking.mime, taking.mimeGone) : Received(With(taking.clip, m, pipe.data))
  /\ UNCHANGED ghostVars

(* The pipe was closed: what was written is an entry of the type.          *)
ReadToEnd ==
  /\ taking # NoTake /\ pipe.end /\ fromDaemon = <<>>
  /\ IF pipe.data = Nothing THEN Received(taking.clip)
     ELSE \E m \in Read(taking.mime, taking.mimeGone) : Received(With(taking.clip, m, pipe.data))
  /\ UNCHANGED ghostVars

(* poll timed out: what has come so far is kept, if anything has.          *)
ReceiveTimeout ==
  /\ Happens /\ taking # NoTake /\ ~pipe.end
  /\ IF pipe.data = Nothing THEN Received(taking.clip)
     ELSE \E m \in Read(taking.mime, taking.mimeGone) : Received(With(taking.clip, m, pipe.data))
  /\ last' = [last EXCEPT !.spoiled = TRUE]
  /\ UNCHANGED copies

-----------------------------------------------------------------------------
(* Commands over the socket, between two rounds of the main loop.          *)

Command ==
  /\ taking = NoTake /\ Happens
  /\ last' = [last EXCEPT !.copy = None]

Select(i) ==
  /\ Command /\ i \in DOMAIN history
  /\ current' = history[i]
  /\ history' = Promote(i) /\ Save(history')
  /\ BecomeOwner(history[i])
  /\ UNCHANGED <<selection, dirty, source, offer, toDaemon, pipe, offerVars, copies>>

(* A mutant: the source goes on offering what was cleared.                 *)
ClearKeepsSource ==
  /\ Command
  /\ history' = <<>> /\ current' = Empty /\ Save(<<>>)
  /\ UNCHANGED <<fromDaemon, mine, own>>
  /\ UNCHANGED <<selection, dirty, source, offer, toDaemon, pipe, offerVars, copies>>

Clear ==
  /\ Command
  /\ history' = <<>> /\ current' = Empty /\ Save(<<>>)
  /\ fromDaemon' = fromDaemon \o DestroyMine
  /\ mine' = NoSource
  /\ own' = (own /\ mine.id = None)
  /\ UNCHANGED <<selection, dirty, source, offer, toDaemon, pipe, offerVars, copies>>

(* The daemon dies and starts again: its objects go, the new device is     *)
(* told of the selection, and that is read before the history is; then it  *)
(* becomes the owner of what the history has.                              *)
Restart ==
  LET sel == IF selection \in OwnSource THEN None ELSE selection
      told == sel # None /\ source[sel].types # {}
      first == IF told THEN 1 ELSE None
      clip == IF saved = <<>> THEN Empty ELSE saved[1]
      id == MaxCopies + 1
  IN
  /\ Happens /\ last' = [last EXCEPT !.spoiled = TRUE]
  /\ selection' = sel /\ dirty' = FALSE
  /\ source' = [s \in Source |->
                  IF s \in OwnSource THEN [source[s] EXCEPT !.live = FALSE] ELSE source[s]]
  /\ offer' = [o \in OfferId |->
                 IF o = first THEN [of |-> sel, types |-> source[sel].types] ELSE NoOffer]
  /\ toDaemon' = <<>> /\ pipe' = EmptyPipe /\ taking' = NoTake
  /\ g_offer' = None /\ pending' = first
  /\ held' = {first} \ {None}
  /\ mimes' \in IF told THEN SetToSeqs(source[sel].types) ELSE {<<>>}
  /\ history' = saved /\ current' = clip /\ unsaved' = FALSE
  /\ IF clip = Empty
     THEN mine' = NoSource /\ own' = FALSE /\ fromDaemon' = <<>>
     ELSE /\ mine' = [id |-> id, types |-> DOMAIN clip] /\ own' = TRUE
          /\ fromDaemon' = <<Request("set_selection", id, DOMAIN clip)>>
  /\ UNCHANGED <<saved, copies>>

-----------------------------------------------------------------------------
(* The applications.                                                       *)

daemonVars == <<keptVars, offerVars>>

Copy(a, types, value) ==
  /\ copies < MaxCopies
  /\ copies' = copies + 1
  /\ CopyInto(a, copies + 1, types, value)
  /\ last' = [copy |-> copies + 1, overtook |-> ~Quiet, spoiled |-> FALSE]
  /\ UNCHANGED <<daemonVars, events>>

CopyMore(s, m) ==
  /\ Happens /\ source[s].live /\ m \notin source[s].types
  /\ OfferType(s, m)
  /\ last' = [last EXCEPT !.overtook = @ \/ ~Quiet \/ selection # s]
  /\ UNCHANGED <<daemonVars, copies>>

(* A source is destroyed when it was told that it is the selection no      *)
(* more, or because the application wants to or ends.                      *)
Spoil(s) == last' = [last EXCEPT !.spoiled = @ \/ (last.copy = s /\ ~Quiet)]
DropCancelled(s) ==
  /\ source[s].cancelled /\ DestroySource(s) /\ Spoil(s)
  /\ UNCHANGED <<daemonVars, copies, events>>
Drop(s) ==
  /\ Happens /\ (DestroySource(s) \/ ClearSelection(s)) /\ Spoil(s)
  /\ UNCHANGED <<daemonVars, copies>>
Leave(a) ==
  /\ Happens /\ \E s \in AppSource : source[s].live /\ OwnerOf(s) = a
  /\ Disconnect(a)
  /\ last' = [last EXCEPT !.spoiled = @ \/ (last.copy # None /\ OwnerOf(last.copy) = a /\ ~Quiet)]
  /\ UNCHANGED <<daemonVars, copies>>

(* data_source.send: the application writes and closes; it may write only  *)
(* a part at first; without the source the pipe is closed.                 *)
Answer ==
  /\ pipe.at # None /\ fromDaemon = <<>>
  /\ pipe' = [at |-> None, end |-> TRUE,
              data |-> IF source[pipe.at].live THEN source[pipe.at].value ELSE pipe.data]
  /\ UNCHANGED <<selection, dirty, source, offer, toDaemon, fromDaemon, daemonVars, ghostVars>>
AnswerPart ==
  /\ fromDaemon = <<>> /\ pipe.at # None /\ source[pipe.at].live /\ pipe.data = Nothing
  /\ pipe' = [pipe EXCEPT !.data = Part]
  /\ UNCHANGED <<selection, dirty, source, offer, toDaemon, fromDaemon, daemonVars, ghostVars>>

-----------------------------------------------------------------------------
Init ==
  /\ selection = None /\ dirty = FALSE
  /\ source = [s \in Source |-> [owner |-> Daemon, types |-> {}, value |-> Nothing,
                                 live |-> FALSE, cancelled |-> FALSE]]
  /\ offer = [o \in OfferId |-> NoOffer]
  /\ toDaemon = <<>> /\ fromDaemon = <<>> /\ pipe = EmptyPipe
  /\ current = Empty /\ history = <<>> /\ saved = <<>> /\ unsaved = FALSE
  /\ own = FALSE /\ mine = NoSource
  /\ g_offer = None /\ pending = None /\ held = {} /\ mimes = <<>> /\ taking = NoTake
  /\ copies = 0 /\ events = 0
  /\ last = [copy |-> None, overtook |-> FALSE, spoiled |-> FALSE]

Applications ==
  \/ \E a \in App, t \in TypeSets, v \in Value : Copy(a, t, v)
  \/ \E s \in AppSource, m \in Mime : CopyMore(s, m)
  \/ \E s \in AppSource : DropCancelled(s) \/ Drop(s)
  \/ \E a \in App : Leave(a)
User == (\E i \in 1 .. HistMax : Select(i)) \/ Clear \/ Restart
Server == (Serve \/ FlushBroadcast) /\ UNCHANGED <<daemonVars, ghostVars>>
Pipe == Answer \/ AnswerPart
DaemonRuns == Dispatch \/ DrainPendingOffer \/ ReadToEnd \/ ReceiveTimeout

Next == Applications \/ User \/ Server \/ Pipe \/ DaemonRuns
Spec == Init /\ [][Next]_vars

(* The compositor, the daemon and its timeout, and the applications as far *)
(* as they answer, go on.                                                  *)
FairSpec == Spec /\ WF_vars(Server) /\ WF_vars(DaemonRuns) /\ WF_vars(Answer)
-----------------------------------------------------------------------------
(* Every variable has its type.  No entry is empty, and there are never    *)
(* more of them than g.history has room for.                               *)
TypeOK ==
  /\ selection \in Source \cup {None} /\ dirty \in BOOLEAN
  /\ pending \in OfferId \cup {None} /\ g_offer \in OfferId \cup {None}
  /\ held \subseteq OfferId /\ own \in BOOLEAN /\ unsaved \in BOOLEAN
  /\ mine.id \in OwnSource \cup {None} /\ Len(history) <= HistMax
  /\ DOMAIN current \subseteq Mime \cup {Junk}
  /\ \A m \in DOMAIN current : current[m] \in Value \cup {Part}

(* Offers are handed from data_offer to selection to take_offer, each of   *)
(* which may be overtaken by the next.  None is lost on the way: those     *)
(* that were not destroyed are the ones g.offer, g_pending_offer and       *)
(* take_offer name, each once, so none is used after it was destroyed.     *)
OffersAccounted ==
  LET known == <<g_offer, pending, taking.of>> IN
  /\ held = Range(known) \ {None}
  /\ \A i, j \in 1 .. 3 : i # j /\ known[i] = known[j] => known[i] = None

(* source_send finds in g.current whatever the daemon's source offers: the *)
(* content is never exchanged or cleared under a source of another one.    *)
Servable == mine.types \subseteq DOMAIN current

(* When nothing is on its way the daemon and the compositor agree on       *)
(* whether the daemon's source is the selection, and which one.            *)
OwnerAgrees == Quiet => selection = mine.id \/ (mine.id = None /\ selection \notin OwnSource)

(* What is served is the newest entry of the history, after pushes,        *)
(* selections, clear and restarts alike, also a restart from a file that   *)
(* is older than what was served before it.  The file holds the primary    *)
(* representation of every entry, unless history_save failed the last time.*)
HeadIsCurrent ==
  /\ current = IF history = <<>> THEN Empty ELSE history[1]
  /\ ~unsaved => saved = [i \in DOMAIN history |-> Primary(history[i])]

(* A copy that was made while nothing was on its way, and whose source     *)
(* stayed and answered in time, is kept completely, every type of it.      *)
Kept(s) == current = [m \in source[s].types |-> source[s].value]
Keepable == Quiet /\ last.copy # None /\ ~last.spoiled /\ source[last.copy].types # {}
KeepsLatest == Keepable /\ ~last.overtook => Kept(last.copy)

(* The same whether or not another copy was still being read: what the     *)
(* header and the usage of the daemon promise.  take_offer empties the one *)
(* list of types when it is done, the types of the next offer with it.     *)
LatestCopyWins == Keepable => Kept(last.copy)

(* The daemon and the compositor do not answer each other forever: again   *)
(* and again everything that was sent is handled and nothing is read.      *)
Settles == []<>Quiet
=============================================================================
