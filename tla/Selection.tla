----------------------------- MODULE Selection ------------------------------
(***************************************************************************)
(* The clipboard selection of the seat in server.rs, as one client of it   *)
(* sees it that takes part through two queues: the clipboard daemon.  The  *)
(* other clients act on the server at once.                                *)
(*                                                                         *)
(* A selection is the name of a data source, a client and an object id.    *)
(* It is offered again to everybody whenever it changes, except to its     *)
(* owner, and a source may be offered before it has any type.  Offers the  *)
(* daemon was given stay in its table until it destroys them, whatever     *)
(* became of the source they name.                                         *)
(***************************************************************************)
EXTENDS Integers, Sequences, FiniteSets, SequencesExt

CONSTANTS
  App, Daemon,     \* the clients that copy, and the one that keeps
  Mime, Text,      \* types; Text stands for the plain-text names
  Value, Nothing,  \* what can be copied, and no data
  MaxCopies,       \* bound: how often something is copied
  MaxOffers,       \* offers the daemon holds or is being told of at once
  MaxOwn           \* sources of the daemon that exist or are being destroyed

ASSUME MimeAssumption == Text \in Mime /\ IsFiniteSet(Mime)
ASSUME DaemonAssumption == Daemon \notin App
ASSUME BoundAssumption == {MaxCopies, MaxOffers, MaxOwn} \subseteq Nat \ {0}

None == 0
AppSource == 1 .. MaxCopies
OwnSource == MaxCopies + 1 .. MaxCopies + MaxOwn
Source == AppSource \cup OwnSource
OfferId == 1 .. MaxOffers

VARIABLES
  selection,       \* the source that is the selection, or None
  dirty,           \* pending_selection_broadcast
  source,          \* data sources: live, types, value, told of their end
  offer,           \* offers in the daemon's table: the source and types
  toDaemon,        \* events on their way
  fromDaemon,      \* requests on their way
  pipe             \* what the pipe of the daemon's last receive holds

serverVars == <<selection, dirty, source, offer, toDaemon, fromDaemon, pipe>>

NoOffer == [of |-> None, types |-> {}]
NewSource(owner, types, value) ==
  [owner |-> owner, types |-> types, value |-> value, live |-> TRUE, cancelled |-> FALSE]
EmptyPipe == [at |-> None, data |-> Nothing, end |-> FALSE]
OwnerOf(s) == source[s].owner

Event(ev, id) == [ev |-> ev, id |-> id]

-----------------------------------------------------------------------------
(* The ids alloc_server_id may give: none that is still in use anywhere.   *)
FreeOffers == {id \in OfferId : offer[id] = NoOffer}

(* emit_selection_to_client_fd for the daemon: nothing to the owner, no    *)
(* offer of a source that has no types yet.  The events that name the      *)
(* types come with the object, before it is said to be the selection.      *)
EmitTo(events, s, src) ==
  IF s = None
  THEN toDaemon' = Append(events, Event("selection", None)) /\ UNCHANGED offer
  ELSE IF src[s].owner = Daemon \/ src[s].types = {}
  THEN toDaemon' = events /\ UNCHANGED offer
  ELSE \E id \in FreeOffers :
         /\ \A j \in FreeOffers : id <= j
         /\ offer' = [offer EXCEPT ![id] = [of |-> s, types |-> src[s].types]]
         /\ toDaemon' = events \o <<Event("data_offer", id), Event("selection", id)>>

(* cancelled goes to the source that was the selection.  An application    *)
(* knows at once, the daemon has to read it.                               *)
Cancelling(prev, s) == prev # None /\ prev # s
ToldOfEnd(src, prev, s) ==
  IF Cancelling(prev, s) /\ src[prev].owner # Daemon
  THEN [src EXCEPT ![prev].cancelled = TRUE] ELSE src
EventsOfEnd(prev, s) ==
  IF Cancelling(prev, s) /\ source[prev].owner = Daemon
  THEN Append(toDaemon, Event("cancelled", prev)) ELSE toDaemon

-----------------------------------------------------------------------------
(* Requests of applications, each a batch of its own: the selection is     *)
(* broadcast before anything else happens.                                 *)

(* A new source, its types, and set_selection.                             *)
CopyInto(a, s, types, value) ==
  LET src == [source EXCEPT ![s] = NewSource(a, types, value)] IN
  /\ ~dirty
  /\ selection' = s
  /\ source' = ToldOfEnd(src, selection, s)
  /\ EmitTo(EventsOfEnd(selection, s), s, src)
  /\ UNCHANGED <<dirty, fromDaemon, pipe>>

(* wl_data_source.offer on a source that may be the selection already.     *)
OfferType(s, m) ==
  LET src == [source EXCEPT ![s].types = @ \cup {m}] IN
  /\ ~dirty /\ source[s].live
  /\ source' = src
  /\ IF selection = s THEN EmitTo(toDaemon, s, src) ELSE UNCHANGED <<toDaemon, offer>>
  /\ UNCHANGED <<selection, dirty, fromDaemon, pipe>>

(* wl_data_source.destroy, set_selection without a source.                 *)
DestroySource(s) ==
  /\ ~dirty /\ source[s].live
  /\ source' = [source EXCEPT ![s].live = FALSE]
  /\ IF selection = s
     THEN selection' = None /\ EmitTo(toDaemon, None, source)
     ELSE UNCHANGED <<selection, toDaemon, offer>>
  /\ UNCHANGED <<dirty, fromDaemon, pipe>>

ClearSelection(s) ==
  /\ ~dirty /\ selection = s
  /\ selection' = None /\ EmitTo(toDaemon, None, source)
  /\ UNCHANGED <<source, dirty, fromDaemon, pipe>>

(* The client is gone with all its sources; what it had yet to write ends. *)
Disconnect(a) ==
  /\ ~dirty
  /\ source' = [s \in Source |->
                  IF OwnerOf(s) = a THEN [source[s] EXCEPT !.live = FALSE] ELSE source[s]]
  /\ IF selection # None /\ OwnerOf(selection) = a
     THEN selection' = None /\ EmitTo(toDaemon, None, source)
     ELSE UNCHANGED <<selection, toDaemon, offer>>
  /\ pipe' = IF pipe.at \in Source /\ OwnerOf(pipe.at) = a
             THEN [pipe EXCEPT !.at = None, !.end = TRUE] ELSE pipe
  /\ UNCHANGED <<dirty, fromDaemon>>

-----------------------------------------------------------------------------
(* Requests of the daemon about its sources, in the order it sent them.    *)
(* Those that arrive together are followed by one broadcast.               *)

SetSelection(r) ==
  LET src == [source EXCEPT ![r.id] = NewSource(Daemon, r.types, Nothing)] IN
  /\ selection' = r.id /\ dirty' = TRUE
  /\ source' = ToldOfEnd(src, selection, r.id)
  /\ toDaemon' = EventsOfEnd(selection, r.id)
  /\ UNCHANGED <<offer, pipe>>

DestroyOwnSource(r) ==
  /\ source' = [source EXCEPT ![r.id].live = FALSE]
  /\ IF selection = r.id
     THEN selection' = None /\ dirty' = TRUE
     ELSE UNCHANGED <<selection, dirty>>
  /\ UNCHANGED <<offer, toDaemon, pipe>>

Serve ==
  /\ fromDaemon # <<>>
  /\ LET r == Head(fromDaemon) IN
       \/ r.req = "set_selection" /\ SetSelection(r)
       \/ r.req = "destroy_source" /\ DestroyOwnSource(r)
  /\ fromDaemon' = Tail(fromDaemon)

FlushBroadcast ==
  /\ dirty /\ dirty' = FALSE
  /\ EmitTo(toDaemon, selection, source)
  /\ UNCHANGED <<selection, source, fromDaemon, pipe>>

-----------------------------------------------------------------------------
(* receive and destroy on an offer concern only the daemon, so they take   *)
(* effect when they are sent; but nothing comes through the pipe before    *)
(* the requests that were sent earlier are served.  The pipe goes to the   *)
(* client of the source, if the offer has the type; whether that client    *)
(* and the source are still there shows when it is to write.               *)
ReceiveType(id, m) ==
  pipe' = IF m \in offer[id].types
          THEN [EmptyPipe EXCEPT !.at = offer[id].of] ELSE [EmptyPipe EXCEPT !.end = TRUE]

DestroyOffers(ids) ==
  offer' = [o \in OfferId |-> IF o \in ids THEN NoOffer ELSE offer[o]]
=============================================================================
