----------------------------- MODULE RoomEvents -----------------------------
(***************************************************************************)
(* The event log of one active room: RoomStore.publish over the tables     *)
(* rooms and room_events, the live event stream of routes.ts with its gate *)
(* (connectionGate.ts), and the room view a browser keeps from snapshots,  *)
(* events and polls (TransferRoomPage.tsx, roomClient.ts).                 *)
(*                                                                         *)
(* A request reads the room record when it is authorized and publishes     *)
(* with that copy after its awaits: the event identifier is the copy's     *)
(* plus one, and the whole copy is written back first.  Of the room's      *)
(* items we keep only a version, the number of changes committed to them.  *)
(* All browsers have one address; what a stream of theirs is refused by is *)
(* the count of the gate for it.                                           *)
(* Left out: issueTicket, whose event announces no change, and heartbeats. *)
(***************************************************************************)
EXTENDS Integers, FiniteSets

CONSTANTS
  Handlers,     \* requests that may hold a copy of the room record
  Clients,      \* browsers with the page open
  NoView,       \* an event without a room view
  Keep,         \* eventHistoryLimit
  MaxStreams,   \* maxPerKey of the ConnectionGate
  MaxPolls,     \* bound on the poll responses under way to one browser
  MaxBudget     \* bound on changes, crashes and page reloads of a behaviour

ASSUME EventBounds ==
  /\ IsFiniteSet(Clients)
  /\ Keep \in Nat \ {0} /\ MaxStreams \in Nat \ {0}
  /\ MaxPolls \in Nat \ {0}
  /\ MaxBudget \in Nat
  /\ NoView \notin Nat

VARIABLES
  eventId,    \* rooms.event_id
  log,        \* room_events
  items,      \* version of the items in the database
  text,       \* revision of the shared text
  pc, held,   \* where each request is, and the event_id of its copy of the room
  open, sent, \* the event stream of each browser, and its lastSentId
  lost,       \* slots of the gate that are held for nobody
  refused,    \* the EventSource was answered 503 and is closed for good
  wire,       \* events on their way to each browser, delivered by identifier
  last,       \* the Last-Event-ID each browser would present
  view, seen, \* the item version and the text revision each page shows
  replies,    \* poll responses under way
  budget,
  announced,  \* ghost: item version of the latest event with a view
  known       \* ghost: highest item version a page was ever given

server == <<eventId, log, items, text, pc, held, announced>>
browser == <<last, view, seen, replies, known>>
gate == <<lost, refused>>
vars == <<server, open, sent, gate, wire, browser, budget>>

-----------------------------------------------------------------------------
(* Events.                                                                  *)

\* A view carries the shared-text revision with the items; the event of a text
\* update carries the revision alone.
Event == [id : Nat, view : Nat \union {NoView}, text : Nat]

Greater(a, b) == IF a < b THEN b ELSE a

TypeOK ==
  /\ eventId \in Nat /\ items \in Nat /\ text \in Nat
  /\ log \subseteq Event
  /\ pc \in [Handlers -> {"idle", "open", "publish"}]
  /\ held \in [Handlers -> Nat]
  /\ open \in [Clients -> BOOLEAN]
  /\ sent \in [Clients -> Nat]
  /\ lost \in 0 .. MaxStreams
  /\ refused \in [Clients -> BOOLEAN]
  /\ wire \in [Clients -> SUBSET Event]
  /\ last \in [Clients -> Nat]
  /\ view \in [Clients -> Nat]
  /\ seen \in [Clients -> Nat]
  /\ replies \in [Clients -> SUBSET [view : Nat, text : Nat]]
  /\ budget \in 0 .. MaxBudget
  /\ announced \in Nat
  /\ known \in [Clients -> Nat]

\* createRoom published its snapshot; the pages loaded the room.
Init ==
  /\ eventId = 1 /\ items = 0 /\ text = 0 /\ announced = 0
  /\ log = {[id |-> 1, view |-> 0, text |-> 0]}
  /\ pc = [h \in Handlers |-> "idle"]
  /\ held = [h \in Handlers |-> 0]
  /\ open = [c \in Clients |-> FALSE]
  /\ sent = [c \in Clients |-> 0]
  /\ lost = 0 /\ refused = [c \in Clients |-> FALSE]
  /\ wire = [c \in Clients |-> {}]
  /\ last = [c \in Clients |-> 0]
  /\ view = [c \in Clients |-> 0]
  /\ seen = [c \in Clients |-> 0]
  /\ replies = [c \in Clients |-> {}]
  /\ budget = MaxBudget
  /\ known = [c \in Clients |-> 0]

\* trimEvents: what is Keep or more below the highest identifier goes.
Trimmed(es) == {e \in es : \A d \in es : d.id - Keep < e.id}

\* Variant: the insert would replace an event with the same identifier.
NeverTaken(id) == FALSE

\* The primary key of room_events.
Taken(id) == \E e \in log : e.id = id

Spend == budget > 0 /\ budget' = budget - 1

\* publish, with a copy of the room whose event_id is base, once v items and t
\* text changes are committed.  The copy is written back, the event appended and
\* the log trimmed; each open stream takes the event if its identifier is above
\* the last one it sent.  When the identifier is taken the insert throws after
\* the room record was written.
Publish(base, v, t, body) ==
  LET event == [id |-> base + 1, view |-> body, text |-> t] IN
  /\ eventId' = base + 1
  /\ items' = v /\ text' = t
  /\ IF Taken(base + 1)
       THEN UNCHANGED <<log, sent, wire, announced>>
       ELSE /\ log' = Trimmed(log \union {event})
            /\ sent' = [c \in Clients |-> IF open[c] THEN Greater(sent[c], base + 1)
                                                     ELSE sent[c]]
            /\ wire' = [c \in Clients |-> IF open[c] /\ sent[c] < base + 1
                                            THEN wire[c] \union {event} ELSE wire[c]]
            /\ announced' = IF body = NoView THEN announced ELSE body

Return(h) == pc' = [pc EXCEPT ![h] = "idle"] /\ held' = [held EXCEPT ![h] = 0]

\* After publishing, a request goes on with the same copy or returns; after a
\* failure it returns.
Published(h) ==
  \/ Return(h)
  \/ /\ ~ Taken(held[h] + 1)
     /\ pc' = [pc EXCEPT ![h] = "open"]
     /\ held' = [held EXCEPT ![h] = @ + 1]

-----------------------------------------------------------------------------
(* The server.                                                              *)

\* requireAuthorized (or requireByToken): the copy is read; writing it back at
\* once changes no event identifier.
Authorize(h) ==
  /\ pc[h] = "idle"
  /\ pc' = [pc EXCEPT ![h] = "open"]
  /\ held' = [held EXCEPT ![h] = eventId]
  /\ UNCHANGED <<eventId, log, items, text, announced, open, sent, gate, wire, browser, budget>>

\* The request ends without publishing.
Leave(h) ==
  /\ pc[h] = "open"
  /\ Return(h)
  /\ UNCHANGED <<eventId, log, items, text, announced, open, sent, gate, wire, browser, budget>>

\* A checkpoint is committed; its event follows in a later step.
CommitCheckpoint(h) ==
  /\ pc[h] = "open"
  /\ Spend
  /\ items' = items + 1
  /\ pc' = [pc EXCEPT ![h] = "publish"]
  /\ UNCHANGED <<eventId, log, text, held, announced, open, sent, gate, wire, browser>>

PublishProgress(h) ==
  /\ pc[h] = "publish"
  /\ Publish(held[h], items, text, items)
  /\ Published(h)
  /\ UNCHANGED <<open, gate, browser, budget>>

\* Registration, completion, cancellation, added files and download progress
\* change the items and publish in one step.
ChangeItem(h) ==
  /\ pc[h] = "open"
  /\ Spend
  /\ Publish(held[h], items + 1, text, items + 1)
  /\ Published(h)
  /\ UNCHANGED <<open, gate, browser>>

\* updateSharedText reads the room itself and has no await.
UpdateText ==
  /\ Spend
  /\ Publish(eventId, items, text + 1, NoView)
  /\ UNCHANGED <<pc, held, open, gate, browser>>

\* The process dies and is started again; a publication under way may have
\* written the room record and not the event.
Crash ==
  /\ Spend
  /\ eventId' \in {eventId, eventId + 1}
                    \union {held[h] + 1 : h \in {g \in Handlers : pc[g] # "idle"}}
  /\ pc' = [h \in Handlers |-> "idle"]
  /\ held' = [h \in Handlers |-> 0]
  /\ open' = [c \in Clients |-> FALSE]
  /\ sent' = [c \in Clients |-> 0]
  /\ lost' = 0
  /\ wire' = [c \in Clients |-> {}]
  /\ UNCHANGED <<log, items, text, announced, refused, browser>>

-----------------------------------------------------------------------------
(* The event stream and the browser.                                        *)

\* ConnectionGate.acquire: a slot for every stream that is open, and for those
\* that nobody reads any more.
Free == Cardinality({c \in Clients : open[c]}) + lost < MaxStreams

\* Variant: the event after the last one received is skipped.
LaterThan(n) == {e \in log : e.id > n + 1}

\* eventsAfter
EventsAfter(n) == {e \in log : e.id > n}

\* GET events, one step on the server: replay, and a snapshot when the replay
\* does not reach the room's event identifier.
Connect(c) ==
  LET replay == EventsAfter(last[c])
      reached == IF replay = {} THEN last[c]
                   ELSE CHOOSE n \in {e.id : e \in replay} : \A e \in replay : e.id <= n
      snapshot == [id |-> eventId, view |-> items, text |-> text]
  IN
  /\ ~ open[c] /\ ~ refused[c] /\ Free
  /\ open' = [open EXCEPT ![c] = TRUE]
  /\ sent' = [sent EXCEPT ![c] = Greater(reached, eventId)]
  /\ wire' = [wire EXCEPT ![c] = IF reached < eventId THEN replay \union {snapshot}
                                                      ELSE replay]
  /\ UNCHANGED <<server, gate, browser, budget>>

\* 503: an EventSource does not connect again after it.
Refuse(c) ==
  /\ ~ open[c] /\ ~ refused[c] /\ ~ Free
  /\ refused' = [refused EXCEPT ![c] = TRUE]
  /\ UNCHANGED <<server, open, sent, lost, wire, browser, budget>>

\* The browser of a request has gone while the hook awaits a sweep: the handler
\* takes a slot and listens for a close that was before.
OpenForNobody ==
  /\ Free /\ Spend
  /\ lost' = lost + 1
  /\ UNCHANGED <<server, open, sent, refused, wire, browser>>

\* The stream is gone, and with it what was on its way.
Closed(c) ==
  /\ open' = [open EXCEPT ![c] = FALSE]
  /\ sent' = [sent EXCEPT ![c] = 0]
  /\ wire' = [wire EXCEPT ![c] = {}]

\* The connection breaks, and the server sees it close at once or, if ever,
\* later.
Drop(c) ==
  /\ open[c]
  /\ Closed(c)
  /\ \/ UNCHANGED <<lost, budget>>
     \/ Spend /\ lost' = lost + 1
  /\ UNCHANGED <<server, refused, browser>>

\* The close event of a connection: release().  Nothing makes it come.
SeeClosed ==
  /\ lost > 0 /\ lost' = lost - 1
  /\ UNCHANGED <<server, open, sent, refused, wire, browser, budget>>

\* Variant: the page takes over the view of an event that has none.
AlwaysApplied(c, e) == view' = [view EXCEPT ![c] = e.view]

\* apply(event.room)
Applied(c, e) == view' = [view EXCEPT ![c] = IF e.view = NoView THEN @ ELSE e.view]

\* observeSharedTextRevision: the page never goes back to an older revision.
Observed(c, revision) == seen' = [seen EXCEPT ![c] = Greater(@, revision)]

\* onmessage: the events arrive in the order they were sent.
Deliver(c) ==
  \E e \in wire[c] :
    /\ \A d \in wire[c] : e.id <= d.id
    /\ wire' = [wire EXCEPT ![c] = @ \ {e}]
    /\ last' = [last EXCEPT ![c] = e.id]
    /\ Applied(c, e)
    /\ Observed(c, e.text)
    /\ known' = [known EXCEPT ![c] = IF e.view = NoView THEN @ ELSE Greater(@, e.view)]
    /\ UNCHANGED <<server, open, sent, gate, replies, budget>>

\* Variant: the page polls only while it has no stream.
PollsWhileAway(c) == ~ open[c]

\* The fallback timer does not look at the stream.
Polls(c) == TRUE

\* GET room is answered; the response travels beside the stream.
AskRoom(c) ==
  /\ Polls(c)
  /\ Cardinality(replies[c]) < MaxPolls
  /\ replies' = [replies EXCEPT ![c] = @ \union {[view |-> items, text |-> text]}]
  /\ UNCHANGED <<server, open, sent, gate, wire, last, view, seen, known, budget>>

\* apply(await getRoom(roomId)), in whatever order the responses arrive.
ApplyRoom(c, r) ==
  /\ r \in replies[c]
  /\ replies' = [replies EXCEPT ![c] = @ \ {r}]
  /\ view' = [view EXCEPT ![c] = r.view]
  /\ Observed(c, r.text)
  /\ known' = [known EXCEPT ![c] = Greater(@, r.view)]
  /\ UNCHANGED <<server, open, sent, gate, wire, last, budget>>

\* The page is loaded again: a new EventSource has no Last-Event-ID.
Reload(c) ==
  /\ Spend
  /\ Closed(c)
  /\ refused' = [refused EXCEPT ![c] = FALSE]
  /\ last' = [last EXCEPT ![c] = 0]
  /\ view' = [view EXCEPT ![c] = items]
  /\ seen' = [seen EXCEPT ![c] = text]
  /\ known' = [known EXCEPT ![c] = Greater(@, items)]
  /\ replies' = [replies EXCEPT ![c] = {}]
  /\ UNCHANGED <<server, lost>>

-----------------------------------------------------------------------------

HandlerStep(h) ==
  \/ Authorize(h) \/ Leave(h) \/ CommitCheckpoint(h) \/ PublishProgress(h) \/ ChangeItem(h)

BrowserStep(c) ==
  \/ Connect(c) \/ Refuse(c) \/ Drop(c) \/ Deliver(c) \/ AskRoom(c) \/ Reload(c)
  \/ \E r \in replies[c] : ApplyRoom(c, r)

Next ==
  \/ \E h \in Handlers : HandlerStep(h)
  \/ UpdateText \/ Crash \/ OpenForNobody \/ SeeClosed
  \/ \E c \in Clients : BrowserStep(c)

Spec == Init /\ [][Next]_vars

\* The fallback timer keeps asking and some response arrives.  Nothing forces a
\* request to be made, a stream to be opened or an event to be delivered.
FairSpec ==
  /\ Spec
  /\ \A c \in Clients :
       WF_vars(AskRoom(c)) /\ WF_vars(\E r \in replies[c] : ApplyRoom(c, r))

-----------------------------------------------------------------------------
(* Properties.                                                              *)

\* Every event that enters the log is put on every open stream, although it may
\* carry an identifier derived from an old copy of the room and a stream skips
\* what is not above the last identifier it sent.  (The event of a request that lived
\* through Keep publications of others does not enter: it is trimmed at once.)
PublishedReachesStreams ==
  [][\A e \in log' \ log : \A c \in Clients : open[c] => e \in wire'[c]]_vars

\* A browser that has received everything on its stream has been given every item
\* change that was ever announced, also those announced while it was away:
\* replay from Last-Event-ID, snapshot, crash and failed publications included.
\* Holds while no request lives through Keep publications of others, and the log does
\* not end in Keep events without a view.
AnnouncedReachesBrowser ==
  \A c \in Clients : open[c] /\ wire[c] = {} => announced <= known[c]

\* The page ends up showing the room as it is, whatever was lost, reordered or
\* never announced, and also when its stream was refused for good.
PageConverges ==
  \A c \in Clients : <>[](view[c] = items /\ seen[c] = text)

\* The room's event identifier only grows.
EventIdMonotone == [][eventId <= eventId']_eventId

=============================================================================
