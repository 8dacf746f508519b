-------------------------- MODULE RoomEventsProofs --------------------------
(***************************************************************************)
(* Proofs about RoomEvents: its type invariant; that every event reaches   *)
(* every open stream; and, for behaviours in which no request is outlived  *)
(* by the history of events, that a browser whose stream is empty was      *)
(* given every announced change.                                           *)
(*                                                                         *)
(* The argument is about identifiers.  A request publishes with the one    *)
(* after its copy of the room.  If an event has it, the insert fails and   *)
(* no stream is concerned.  If it is so old that the event would have been *)
(* trimmed, the new one is trimmed at once.  Otherwise it is above all     *)
(* that were ever given out, so no stream skips the event.  For this, the  *)
(* identifiers between a copy and the newest event have no gap: only a     *)
(* crash leaves one, and it also ends every request.                       *)
(***************************************************************************)
EXTENDS RoomEvents, FiniteSetTheorems, TLAPS

-----------------------------------------------------------------------------
(* Hypotheses about a behaviour.                                            *)

\* No request lives through more than Keep publications of others: the event that
\* follows its copy of the room has not been trimmed.  Otherwise its own event would
\* be trimmed as soon as it is inserted, and skipped by the streams.
NoneOutlived == \A h \in Handlers : pc[h] # "idle" => \A e \in log : e.id <= held[h] + Keep

\* The history still has an event with a view: there were never Keep updates of the
\* text, and nothing else, in a row.
ViewInLog == \E e \in log : e.view # NoView

-----------------------------------------------------------------------------
(* The inductive invariant.                                                  *)

Top(e) == e \in log /\ \A d \in log : d.id <= e.id

HasTop == \E e \in log : Top(e)

\* The slots of the gate are those of open streams and those held for nobody.
GateInv == Cardinality({c \in Clients : open[c]}) + lost <= MaxStreams

TypeInv == TypeOK /\ HasTop /\ GateInv

\* No higher than the highest identifier that was given out, with an event or
\* without.
Bound(n) == n <= eventId \/ \E e \in log : n <= e.id

\* The room's identifier is above every event: a crash kept the one and not the other.
Gap == \A e \in log : e.id < eventId

\* Every identifier above n, up to the highest of an event, is that of an event, if
\* it was not trimmed.
Gapless(n) ==
  \A m \in Nat :
    n < m /\ (\E e \in log : m <= e.id) /\ (\A e \in log : e.id - Keep < m) => Taken(m)

\* An identifier that a publication may be derived from.
Base(n) == Gapless(n) /\ (Gap => n = eventId) /\ Bound(n)

LogInv ==
  /\ \A d, e \in log : d.id = e.id => d = e
  /\ \A d, e \in log : d.id - Keep < e.id
  /\ \A e \in log : e.id > 0
  /\ Gapless(eventId)

\* A copy of the room is no newer than the log, and none is older than a gap.
HeldInv == \A h \in Handlers : pc[h] # "idle" => Base(held[h])

\* Nobody was given an identifier that is still to come, and an open stream has
\* passed every event.
StreamInv ==
  \A c \in Clients :
    /\ Bound(last[c]) /\ Bound(sent[c])
    /\ open[c] => \A e \in log : e.id <= sent[c]
    /\ ~ open[c] => wire[c] = {}
    /\ \A e \in wire[c] : Bound(e.id)
    /\ \A d, e \in wire[c] : d.id = e.id => d = e

\* The latest event with a view is the one that was announced.
LatestAnnounced ==
  ViewInLog =>
    \E e \in log : e.view = announced /\ \A d \in log : d.view # NoView => d.id <= e.id

\* A browser knows the views up to its last event; an open stream has the others.
KnownInv ==
  \A c \in Clients, e \in log : e.view # NoView =>
    /\ e.id <= last[c] => e.view <= known[c]
    /\ open[c] => e \in wire[c] \/ e.view <= known[c]

EventInv == LogInv /\ HeldInv /\ StreamInv /\ KnownInv

\* The history does not outlive n: an event with the identifier after n would still
\* be there.
Young(n) == \A e \in log : e.id <= n + Keep

\* Holds while no request is outlived.
AnnouncedInv == LatestAnnounced /\ Young(eventId)

-----------------------------------------------------------------------------
(* Types.                                                                   *)

\* trimEvents keeps the highest event.
LEMMA TrimKeepsTop ==
  ASSUME Keep \in Nat \ {0}, NEW es, es \subseteq Event,
         NEW e \in es, \A d \in es : d.id <= e.id
  PROVE  e \in Trimmed(es) /\ Trimmed(es) \subseteq es
BY DEF Trimmed, Event

\* A publication keeps the types, and the log has a highest event after it, whether
\* the event was inserted or not.
LEMMA PublishTypes ==
  ASSUME TypeOK, HasTop, NEW base \in Nat, NEW v \in Nat, NEW t \in Nat,
         NEW body \in Nat \union {NoView}, Publish(base, v, t, body)
  PROVE  /\ eventId' \in Nat /\ items' \in Nat /\ text' \in Nat
         /\ log' \subseteq Event
         /\ sent' \in [Clients -> Nat]
         /\ wire' \in [Clients -> SUBSET Event]
         /\ announced' \in Nat
         /\ HasTop'
<1> DEFINE event == [id |-> base + 1, view |-> body, text |-> t]
<1>1. Keep \in Nat \ {0} /\ event \in Event
  BY EventBounds DEF Event
<1>2. eventId' \in Nat /\ items' \in Nat /\ text' \in Nat
  BY DEF Publish
<1>3. CASE Taken(base + 1)
  <2>1. UNCHANGED <<log, sent, wire, announced>>
    BY <1>3 DEF Publish
  <2> QED BY <2>1, <1>2 DEF TypeOK, HasTop, Top
<1>4. CASE ~ Taken(base + 1)
  <2>1. /\ log' = Trimmed(log \union {event})
        /\ sent' = [c \in Clients |-> IF open[c] THEN Greater(sent[c], base + 1)
                                                 ELSE sent[c]]
        /\ wire' = [c \in Clients |-> IF open[c] /\ sent[c] < base + 1
                                        THEN wire[c] \union {event} ELSE wire[c]]
        /\ announced' = IF body = NoView THEN announced ELSE body
    BY <1>4 DEF Publish
  <2>2. PICK e \in log : \A d \in log : d.id <= e.id
    BY DEF HasTop, Top
  <2>3. event.id = base + 1
    OBVIOUS
  <2> HIDE DEF event
  <2>4. log \union {event} \subseteq Event
    BY <1>1 DEF TypeOK
  <2>5. PICK f \in log \union {event} : \A d \in log \union {event} : d.id <= f.id
    <3>1. CASE e.id <= base + 1
      BY <3>1, <2>2, <2>3, <2>4 DEF Event
    <3>2. CASE ~ (e.id <= base + 1)
      BY <3>2, <2>2, <2>3, <2>4 DEF Event
    <3> QED BY <3>1, <3>2
  <2>6. f \in log' /\ log' \subseteq log \union {event}
    BY <1>1, <2>1, <2>4, <2>5, TrimKeepsTop
  <2>7. HasTop'
    BY <2>5, <2>6 DEF HasTop, Top
  <2>8. log' \subseteq Event
    BY <2>4, <2>6
  <2>9. sent' \in [Clients -> Nat]
    BY <2>1 DEF TypeOK, Greater
  <2>10. wire' \in [Clients -> SUBSET Event]
    BY <1>1, <2>1 DEF TypeOK
  <2>11. announced' \in Nat
    BY <2>1 DEF TypeOK
  <2> QED BY <1>2, <2>7, <2>8, <2>9, <2>10, <2>11
<1> QED BY <1>3, <1>4


\* Connect finds the highest event of a replay that is not empty.
LEMMA ReplayReaches ==
  ASSUME TypeOK, HasTop, NEW n \in Nat
  PROVE  LET replay == EventsAfter(n)
             reached == IF replay = {} THEN n
                          ELSE CHOOSE k \in {e.id : e \in replay} : \A e \in replay : e.id <= k
         IN /\ reached \in Nat
            /\ n <= reached
            /\ \A e \in replay : e.id <= reached
            /\ reached = n \/ \E e \in log : reached = e.id
<1> DEFINE replay == EventsAfter(n)
           ids == {e.id : e \in replay}
           reached == IF replay = {} THEN n
                        ELSE CHOOSE k \in ids : \A e \in replay : e.id <= k
<1>1. CASE replay = {}
  BY <1>1
<1>2. CASE replay # {}
  <2>1. PICK e \in log : \A d \in log : d.id <= e.id
    BY DEF HasTop, Top
  <2>2. PICK d \in log : d.id > n
    BY <1>2 DEF EventsAfter
  <2>3. log \subseteq Event
    BY DEF TypeOK
  <2>4. e \in replay /\ \A f \in replay : f.id <= e.id
    BY <2>1, <2>2, <2>3 DEF EventsAfter, Event
  <2>5. e.id \in ids
    BY <2>4
  <2>6. \E k \in ids : \A f \in replay : f.id <= k
    BY <2>4, <2>5
  <2>7. reached \in ids /\ \A f \in replay : f.id <= reached
    BY <1>2, <2>6
  <2>8. \A k \in ids : k \in Nat /\ n <= k /\ \E f \in log : k = f.id
    BY <2>3 DEF EventsAfter, Event
  <2> QED BY <2>7, <2>8
<1> QED BY <1>1, <1>2

\* The rest of the state keeps its types in a step of a request.
LEMMA HandlerTypes ==
  ASSUME TypeOK, HasTop, NEW h \in Handlers, HandlerStep(h)
  PROVE  TypeOK' /\ HasTop'
<1>1. ASSUME Return(h)
      PROVE  /\ pc' \in [Handlers -> {"idle", "open", "publish"}]
             /\ held' \in [Handlers -> Nat]
  BY <1>1 DEF Return, TypeOK
<1>2. ASSUME Published(h)
      PROVE  /\ pc' \in [Handlers -> {"idle", "open", "publish"}]
             /\ held' \in [Handlers -> Nat]
  BY <1>1, <1>2 DEF Published, TypeOK
<1>3. eventId \in Nat /\ items \in Nat /\ items + 1 \in Nat /\ text \in Nat /\ held[h] \in Nat
  BY DEF TypeOK
<1>4. CASE Authorize(h)
  BY <1>3, <1>4 DEF Authorize, TypeOK, HasTop, Top, gate, browser
<1>5. CASE Leave(h)
  BY <1>1, <1>5 DEF Leave, TypeOK, HasTop, Top, gate, browser
<1>6. CASE CommitCheckpoint(h)
  BY EventBounds, <1>3, <1>6 DEF CommitCheckpoint, Spend, TypeOK, HasTop, Top, gate, browser
<1>7. CASE PublishProgress(h)
  <2>1. Publish(held[h], items, text, items) /\ Published(h)
        /\ UNCHANGED <<open, gate, browser, budget>>
    BY <1>7 DEF PublishProgress
  <2> QED BY <1>2, <1>3, <2>1, PublishTypes DEF TypeOK, gate, browser
<1>8. CASE ChangeItem(h)
  <2>1. Publish(held[h], items + 1, text, items + 1) /\ Published(h)
        /\ UNCHANGED <<open, gate, browser>> /\ budget' \in 0 .. MaxBudget
    BY EventBounds, <1>8 DEF ChangeItem, Spend, TypeOK
  <2> QED BY <1>2, <1>3, <2>1, PublishTypes DEF TypeOK, gate, browser
<1> QED BY <1>4, <1>5, <1>6, <1>7, <1>8 DEF HandlerStep

\* Every step of the model keeps the types.
LEMMA TypesKept ==
  ASSUME TypeInv, [Next]_vars
  PROVE  TypeOK' /\ HasTop'
<1> USE DEF TypeInv
<1>1. CASE \E h \in Handlers : HandlerStep(h)
  BY <1>1, HandlerTypes
<1>2. CASE UpdateText
  <2>1. Publish(eventId, items, text + 1, NoView) /\ UNCHANGED <<pc, held, open, gate, browser>>
        /\ budget' \in 0 .. MaxBudget
    BY EventBounds, <1>2 DEF UpdateText, Spend, TypeOK
  <2>2. eventId \in Nat /\ items \in Nat /\ text + 1 \in Nat /\ NoView \in Nat \union {NoView}
    BY DEF TypeOK
  <2> QED BY <2>1, <2>2, PublishTypes DEF TypeOK, gate, browser
<1>3. CASE Crash
  <2>1. eventId' \in Nat
    BY <1>3 DEF Crash, TypeOK
  <2> QED BY EventBounds, <1>3, <2>1 DEF Crash, Spend, TypeOK, HasTop, Top, browser
<1>4. CASE OpenForNobody
  <2>1. lost' \in 0 .. MaxStreams
    <3>1. IsFiniteSet({c \in Clients : open[c]})
      BY EventBounds, FS_Subset
    <3>2. Cardinality({c \in Clients : open[c]}) \in Nat
      BY <3>1, FS_CardinalityType
    <3> QED BY EventBounds, <1>4, <3>2 DEF OpenForNobody, Free, TypeOK
  <2> QED BY EventBounds, <1>4, <2>1 DEF OpenForNobody, Spend, TypeOK, HasTop, Top, server, browser
<1>5. CASE SeeClosed
  BY EventBounds, <1>5 DEF SeeClosed, TypeOK, HasTop, Top, server, browser
<1>6. ASSUME NEW c \in Clients, BrowserStep(c)
      PROVE  TypeOK' /\ HasTop'
  <2>1. CASE Connect(c)
    <3>1. /\ last[c] \in Nat /\ eventId \in Nat /\ items \in Nat /\ text \in Nat
          /\ EventsAfter(last[c]) \subseteq Event
      BY DEF TypeOK, EventsAfter
    <3> DEFINE replay == EventsAfter(last[c])
               reached == IF replay = {} THEN last[c]
                            ELSE CHOOSE n \in {e.id : e \in replay} :
                                   \A e \in replay : e.id <= n
               snapshot == [id |-> eventId, view |-> items, text |-> text]
               taken == IF reached < eventId THEN replay \union {snapshot} ELSE replay
    <3>2. reached \in Nat
      BY <3>1, ReplayReaches
    <3>3. snapshot \in Event
      BY <3>1 DEF Event
    <3>4. /\ open' = [open EXCEPT ![c] = TRUE]
          /\ sent' = [sent EXCEPT ![c] = Greater(reached, eventId)]
          /\ wire' = [wire EXCEPT ![c] = taken]
          /\ UNCHANGED <<server, gate, browser, budget>>
      BY <2>1 DEF Connect
    <3> HIDE DEF reached, snapshot
    <3>5. taken \subseteq Event /\ Greater(reached, eventId) \in Nat
      BY <3>1, <3>2, <3>3 DEF Greater
    <3> HIDE DEF taken
    <3> QED BY <3>4, <3>5 DEF TypeOK, HasTop, Top, server, gate, browser
  <2>2. CASE Refuse(c)
    BY <2>2 DEF Refuse, TypeOK, HasTop, Top, server, browser
  <2>3. CASE Drop(c)
    <3>1. lost' \in 0 .. MaxStreams /\ budget' \in 0 .. MaxBudget
      <4>1. CASE UNCHANGED <<lost, budget>>
        BY <4>1 DEF TypeOK
      <4>2. CASE Spend /\ lost' = lost + 1
        <5>1. IsFiniteSet({d \in Clients : open[d]}) /\ c \in {d \in Clients : open[d]}
          BY EventBounds, FS_Subset, <2>3 DEF Drop
        <5>2. /\ Cardinality({d \in Clients : open[d]}) \in Nat
              /\ Cardinality({d \in Clients : open[d]}) # 0
          BY <5>1, FS_CardinalityType, FS_EmptySet
        <5> QED BY EventBounds, <4>2, <5>2 DEF GateInv, Spend, TypeOK
      <4> QED BY <2>3, <4>1, <4>2 DEF Drop
    <3> QED BY <2>3, <3>1 DEF Drop, Closed, TypeOK, HasTop, Top, server, browser
  <2>4. CASE Deliver(c)
    <3>1. PICK e \in wire[c] :
            /\ wire' = [wire EXCEPT ![c] = @ \ {e}]
            /\ last' = [last EXCEPT ![c] = e.id]
            /\ Applied(c, e)
            /\ Observed(c, e.text)
            /\ known' = [known EXCEPT ![c] = IF e.view = NoView THEN @ ELSE Greater(@, e.view)]
            /\ UNCHANGED <<server, open, sent, gate, replies, budget>>
      BY <2>4 DEF Deliver
    <3>2. e \in Event /\ wire[c] \ {e} \subseteq Event
      BY DEF TypeOK
    <3>3. /\ e.id \in Nat /\ e.text \in Nat
          /\ e.view # NoView => e.view \in Nat
      BY <3>2 DEF Event
    <3>4. /\ last' \in [Clients -> Nat] /\ view' \in [Clients -> Nat]
          /\ seen' \in [Clients -> Nat] /\ known' \in [Clients -> Nat]
      BY <3>1, <3>3 DEF TypeOK, Applied, Observed, Greater
    <3>5. wire' \in [Clients -> SUBSET Event]
      BY <3>1, <3>2 DEF TypeOK
    <3> QED BY <3>1, <3>4, <3>5 DEF TypeOK, HasTop, Top, server, gate
  <2>5. CASE AskRoom(c)
    <3>1. [view |-> items, text |-> text] \in [view : Nat, text : Nat]
      BY DEF TypeOK
    <3>2. replies' \in [Clients -> SUBSET [view : Nat, text : Nat]]
      BY <2>5, <3>1 DEF AskRoom, TypeOK
    <3> QED BY <2>5, <3>2 DEF AskRoom, TypeOK, HasTop, Top, server, gate
  <2>6. CASE Reload(c)
    BY EventBounds, <2>6 DEF Reload, Spend, Closed, Greater, TypeOK, HasTop, Top, server
  <2>7. CASE \E r \in replies[c] : ApplyRoom(c, r)
    <3>1. PICK r \in replies[c] : ApplyRoom(c, r)
      BY <2>7
    <3>2. r.view \in Nat /\ r.text \in Nat
      BY DEF TypeOK
    <3>3. /\ replies' \in [Clients -> SUBSET [view : Nat, text : Nat]]
          /\ view' \in [Clients -> Nat]
          /\ seen' \in [Clients -> Nat] /\ known' \in [Clients -> Nat]
      BY <3>1, <3>2 DEF ApplyRoom, Observed, Greater, TypeOK
    <3> QED BY <3>1, <3>3 DEF ApplyRoom, TypeOK, HasTop, Top, server, gate
  <2> QED BY <1>6, <2>1, <2>2, <2>3, <2>4, <2>5, <2>6, <2>7 DEF BrowserStep
<1>7. CASE UNCHANGED vars
  BY <1>7 DEF vars, server, gate, browser, TypeOK, HasTop, Top
<1> QED BY <1>1, <1>2, <1>3, <1>4, <1>5, <1>6, <1>7 DEF Next

-----------------------------------------------------------------------------
(* The slots of the gate.                                                   *)

\* The number of open streams: one more when a stream is opened, one less when an
\* open one is closed.
LEMMA OpenCount ==
  ASSUME TypeOK, NEW c \in Clients
  PROVE  /\ Cardinality({d \in Clients : open[d]}) \in Nat
         /\ (~ open[c] /\ open' = [open EXCEPT ![c] = TRUE])
              => Cardinality({d \in Clients : open'[d]})
                   = Cardinality({d \in Clients : open[d]}) + 1
         /\ (open[c] /\ open' = [open EXCEPT ![c] = FALSE])
              => Cardinality({d \in Clients : open'[d]})
                   = Cardinality({d \in Clients : open[d]}) - 1
<1> DEFINE S == {d \in Clients : open[d]}
           T == {d \in Clients : open'[d]}
<1>1. IsFiniteSet(S)
  BY EventBounds, FS_Subset
<1>2. ASSUME ~ open[c], open' = [open EXCEPT ![c] = TRUE]
      PROVE  Cardinality(T) = Cardinality(S) + 1
  <2>1. T = S \union {c} /\ c \notin S
    BY <1>2 DEF TypeOK
  <2> QED BY <1>1, <2>1, FS_AddElement
<1>3. ASSUME open[c], open' = [open EXCEPT ![c] = FALSE]
      PROVE  Cardinality(T) = Cardinality(S) - 1
  <2>1. T = S \ {c} /\ c \in S
    BY <1>3 DEF TypeOK
  <2> QED BY <1>1, <2>1, FS_RemoveElement
<1> QED BY <1>1, <1>2, <1>3, FS_CardinalityType

\* No step takes a slot that the gate does not have.
LEMMA GateKept ==
  ASSUME TypeInv, [Next]_vars
  PROVE  GateInv'
<1> USE DEF TypeInv
<1> DEFINE n == Cardinality({d \in Clients : open[d]})
<1>1. n \in Nat /\ lost \in Nat /\ MaxStreams \in Nat /\ n + lost <= MaxStreams
  <2>1. IsFiniteSet({d \in Clients : open[d]})
    BY EventBounds, FS_Subset
  <2> QED BY <2>1, EventBounds, FS_CardinalityType DEF TypeOK, GateInv
<1>2. ASSUME UNCHANGED <<open, lost>>
      PROVE  GateInv'
  BY <1>2 DEF GateInv
<1>3. CASE \E h \in Handlers : HandlerStep(h)
  BY <1>2, <1>3 DEF HandlerStep, Authorize, Leave, CommitCheckpoint, PublishProgress, ChangeItem,
                    gate
<1>4. CASE UpdateText
  BY <1>2, <1>4 DEF UpdateText, gate
<1>5. CASE Crash
  <2>1. {d \in Clients : open'[d]} = {} /\ lost' = 0
    BY <1>5 DEF Crash
  <2> QED BY <1>1, <2>1, FS_EmptySet DEF GateInv
<1>6. CASE OpenForNobody
  <2>1. open' = open /\ lost' = lost + 1 /\ n + lost < MaxStreams
    BY <1>6 DEF OpenForNobody, Free
  <2> QED BY <1>1, <2>1 DEF GateInv
<1>7. CASE SeeClosed
  <2>1. open' = open /\ lost' = lost - 1
    BY <1>7 DEF SeeClosed
  <2> QED BY <1>1, <2>1 DEF GateInv
<1>8. ASSUME NEW c \in Clients, BrowserStep(c)
      PROVE  GateInv'
  <2>1. CASE Connect(c)
    <3>1. /\ ~ open[c] /\ open' = [open EXCEPT ![c] = TRUE]
          /\ n + lost < MaxStreams /\ lost' = lost
      BY <2>1 DEF Connect, Free, gate
    <3>2. Cardinality({d \in Clients : open'[d]}) = n + 1
      BY <3>1, OpenCount
    <3> HIDE DEF n
    <3> QED BY <1>1, <3>1, <3>2 DEF GateInv
  <2>2. CASE Drop(c)
    <3>1. /\ open[c] /\ open' = [open EXCEPT ![c] = FALSE]
          /\ (lost' = lost \/ lost' = lost + 1)
      BY <2>2 DEF Drop, Closed
    <3>2. Cardinality({d \in Clients : open'[d]}) = n - 1
      BY <3>1, OpenCount
    <3> HIDE DEF n
    <3> QED BY <1>1, <3>1, <3>2 DEF GateInv
  <2>3. CASE Reload(c)
    <3>1. open' = [open EXCEPT ![c] = FALSE] /\ lost' = lost
      BY <2>3 DEF Reload, Closed
    <3>2. CASE open[c]
      <4>1. Cardinality({d \in Clients : open'[d]}) = n - 1
        BY <3>1, <3>2, OpenCount
      <4> HIDE DEF n
      <4> QED BY <1>1, <3>1, <4>1 DEF GateInv
    <3>3. CASE ~ open[c]
      <4>1. open' = open
        BY <3>1, <3>3 DEF TypeOK
      <4> QED BY <1>2, <3>1, <4>1
    <3> QED BY <3>2, <3>3
  <2>4. CASE Refuse(c) \/ Deliver(c) \/ AskRoom(c) \/ (\E r \in replies[c] : ApplyRoom(c, r))
    BY <1>2, <2>4 DEF Refuse, Deliver, AskRoom, ApplyRoom, gate
  <2> QED BY <1>8, <2>1, <2>2, <2>3, <2>4 DEF BrowserStep
<1>9. CASE UNCHANGED vars
  BY <1>2, <1>9 DEF vars, gate
<1> QED BY <1>3, <1>4, <1>5, <1>6, <1>7, <1>8, <1>9 DEF Next

\* The room as createRoom left it.
LEMMA TypesStart == Init => TypeInv
<1> SUFFICES ASSUME Init
             PROVE  TypeInv
  OBVIOUS
<1>1. TypeOK
  BY EventBounds DEF Init, TypeOK, Event
<1>2. HasTop
  BY DEF Init, HasTop, Top
<1>3. GateInv
  <2>1. {c \in Clients : open[c]} = {} /\ lost = 0
    BY DEF Init
  <2>2. Cardinality({c \in Clients : open[c]}) = 0
    BY <2>1, FS_EmptySet
  <2> QED BY EventBounds, <2>1, <2>2 DEF GateInv
<1> QED BY <1>1, <1>2, <1>3 DEF TypeInv

\* Every variable keeps its type, the log is never empty, and the gate never counts
\* more slots than it has.
THEOREM TypeInvHolds == Spec => []TypeInv
<1>1. Init => TypeInv
  BY TypesStart
<1>2. TypeInv /\ [Next]_vars => TypeInv'
  BY TypesKept, GateKept DEF TypeInv
<1> QED BY <1>1, <1>2, PTL DEF Spec

\* Every variable keeps its type.
THEOREM TypeCorrect == Spec => []TypeOK
<1>1. TypeInv => TypeOK
  BY DEF TypeInv
<1> QED BY <1>1, TypeInvHolds, PTL

-----------------------------------------------------------------------------
(* Identifiers.                                                             *)

\* When the identifier after a base is free, it is above every identifier that was
\* ever given out: the insert of publish is refused, or its event is the newest.
LEMMA FreeIsNewest ==
  ASSUME TypeOK, NEW b \in Nat, Base(b), Young(b), ~ Taken(b + 1)
  PROVE  /\ \A e \in log : e.id <= b
         /\ eventId <= b
         /\ \A n \in Nat : Bound(n) => n <= b
<1>1. Keep \in Nat \ {0} /\ eventId \in Nat /\ \A e \in log : e.id \in Nat
  BY EventBounds DEF TypeOK, Event
<1>2. \A e \in log : e.id <= b
  <2>1. SUFFICES ASSUME NEW e \in log, ~ (e.id <= b)
                 PROVE  FALSE
    OBVIOUS
  <2>2. b < b + 1 /\ b + 1 <= e.id /\ \A d \in log : d.id - Keep < b + 1
    BY <1>1, <2>1 DEF Young
  <2> QED BY <2>2 DEF Base, Gapless
<1>3. eventId <= b
  <2>1. CASE Gap
    BY <1>1, <2>1 DEF Base
  <2>2. CASE ~ Gap
    BY <1>1, <1>2, <2>2 DEF Gap
  <2> QED BY <2>1, <2>2
<1>4. \A n \in Nat : Bound(n) => n <= b
  BY <1>1, <1>2, <1>3 DEF Bound
<1> QED BY <1>2, <1>3, <1>4

\* When an event has it, or is beyond it, the identifiers that were given out end
\* with an event.
LEMMA BelowAnEvent ==
  ASSUME TypeOK, NEW b \in Nat, Base(b), NEW d \in log, b + 1 <= d.id
  PROVE  /\ ~ Gap
         /\ \A n \in Nat : Bound(n) => \E e \in log : n <= e.id
<1>1. eventId \in Nat /\ \A e \in log : e.id \in Nat
  BY DEF TypeOK, Event
<1>2. ~ Gap
  BY <1>1 DEF Gap, Base
<1>3. PICK f \in log : eventId <= f.id
  BY <1>1, <1>2 DEF Gap
<1>4. ASSUME NEW n \in Nat, Bound(n)
      PROVE  \E e \in log : n <= e.id
  <2>1. CASE n <= eventId
    BY <1>1, <1>3, <2>1
  <2>2. CASE ~ (n <= eventId)
    BY <1>4, <2>2 DEF Bound
  <2> QED BY <2>1, <2>2
<1> QED BY <1>2, <1>4

\* What holds of identifiers depends on the room's identifier and the log, and the
\* log alone while it reaches as far.
LEMMA BasesStay ==
  ASSUME log' = log, ~ Gap, ~ Gap',
         \A n \in Nat : Bound(n) => \E e \in log : n <= e.id
  PROVE  \A n \in Nat : /\ Base(n) => Base(n)'
                        /\ Bound(n) => Bound(n)'
<1> TAKE n \in Nat
<1>1. Gapless(n) => Gapless(n)'
  BY DEF Gapless, Taken
<1>2. Bound(n) => Bound(n)'
  BY DEF Bound
<1> QED BY <1>1, <1>2 DEF Base

\* A publication whose identifier is taken, or so old that its event is trimmed at
\* once, writes the room record back, and nobody is concerned: an identifier that was
\* a base remains one.
LEMMA LateKeeps ==
  ASSUME TypeInv, EventInv, NEW base \in Nat, Base(base),
         NEW v, NEW t, NEW body, Publish(base, v, t, body),
         Taken(base + 1) \/ ~ Young(base), UNCHANGED <<open, last, known>>
  PROVE  /\ LogInv' /\ StreamInv' /\ KnownInv'
         /\ \A n \in Nat : Base(n) => Base(n)'
         /\ log' = log
<1> DEFINE event == [id |-> base + 1, view |-> body, text |-> t]
<1>1. /\ Keep \in Nat \ {0} /\ eventId \in Nat /\ \A e \in log : e.id \in Nat
      /\ sent \in [Clients -> Nat] /\ wire \in [Clients -> SUBSET Event]
  BY EventBounds DEF TypeInv, TypeOK, Event
<1>2. PICK d \in log : base + 1 <= d.id
  BY <1>1 DEF Taken, Young
<1>3. eventId' = base + 1 /\ UNCHANGED <<log, sent, wire>>
  <2>1. CASE Taken(base + 1)
    BY <2>1 DEF Publish
  <2>2. CASE ~ Taken(base + 1)
    <3>1. /\ eventId' = base + 1
          /\ log' = Trimmed(log \union {event})
          /\ sent' = [c \in Clients |-> IF open[c] THEN Greater(sent[c], base + 1)
                                                   ELSE sent[c]]
          /\ wire' = [c \in Clients |-> IF open[c] /\ sent[c] < base + 1
                                          THEN wire[c] \union {event} ELSE wire[c]]
      BY <2>2 DEF Publish
    <3>2. event.id = base + 1
      OBVIOUS
    <3> HIDE DEF event
    <3>3. PICK f \in log : ~ (f.id <= base + Keep)
      BY <2>2 DEF Young
    <3>4. event \notin Trimmed(log \union {event})
      BY <1>1, <3>2, <3>3 DEF Trimmed
    <3>5. \A e \in log : e \in Trimmed(log \union {event})
      <4> SUFFICES ASSUME NEW e \in log, NEW g \in log \union {event}
                   PROVE  g.id - Keep < e.id
        BY DEF Trimmed
      <4>1. \A i \in log : i.id - Keep < e.id
        BY DEF EventInv, LogInv
      <4> QED BY <1>1, <3>2, <3>3, <4>1
    <3>6. log' = log
      BY <3>1, <3>4, <3>5 DEF Trimmed
    <3>7. ASSUME NEW c \in Clients
          PROVE  sent'[c] = sent[c] /\ wire'[c] = wire[c]
      <4>1. CASE open[c]
        <5>1. sent[c] \in Nat /\ d.id <= sent[c]
          BY <1>1, <4>1 DEF EventInv, StreamInv
        <5>2. base + 1 <= sent[c]
          BY <1>1, <1>2, <5>1
        <5> QED BY <3>1, <4>1, <5>1, <5>2 DEF Greater
      <4>2. CASE ~ open[c]
        BY <3>1, <4>2
      <4> QED BY <4>1, <4>2
    <3>8. sent' = sent /\ wire' = wire
      BY <1>1, <3>1, <3>7
    <3> QED BY <3>1, <3>6, <3>8
  <2> QED BY <2>1, <2>2
<1>4. ~ Gap /\ \A n \in Nat : Bound(n) => \E e \in log : n <= e.id
  BY <1>2, BelowAnEvent DEF TypeInv
<1>5. ~ Gap'
  BY <1>1, <1>2, <1>3 DEF Gap
<1>6. \A n \in Nat : /\ Base(n) => Base(n)'
                     /\ Bound(n) => Bound(n)'
  BY <1>3, <1>4, <1>5, BasesStay
<1>7. LogInv'
  <2>1. Gapless(base)'
    BY <1>6 DEF Base
  <2>2. Gapless(eventId)'
    BY <1>1, <1>3, <2>1 DEF Gapless
  <2> QED BY <1>3, <2>2 DEF EventInv, LogInv
<1>8. StreamInv'
  <2> SUFFICES ASSUME NEW c \in Clients
               PROVE  /\ Bound(last[c])' /\ Bound(sent[c])'
                      /\ (open[c] => \A e \in log : e.id <= sent[c])'
                      /\ (~ open[c] => wire[c] = {})'
                      /\ (\A e \in wire[c] : Bound(e.id))'
                      /\ (\A f, e \in wire[c] : f.id = e.id => f = e)'
    BY DEF StreamInv
  <2>1. /\ last'[c] = last[c] /\ sent'[c] = sent[c] /\ wire'[c] = wire[c] /\ open'[c] = open[c]
        /\ last[c] \in Nat /\ sent[c] \in Nat /\ \A e \in wire[c] : e.id \in Nat
    BY <1>3 DEF TypeInv, TypeOK, Event
  <2>2. Bound(last[c])'
    BY <1>6, <2>1 DEF EventInv, StreamInv, Bound
  <2>3. Bound(sent[c])'
    BY <1>6, <2>1 DEF EventInv, StreamInv, Bound
  <2>4. \A e \in wire[c] : Bound(e.id)'
    BY <1>6, <2>1 DEF EventInv, StreamInv
  <2> QED BY <1>3, <2>1, <2>2, <2>3, <2>4 DEF EventInv, StreamInv, Bound
<1>9. KnownInv'
  BY <1>3 DEF EventInv, KnownInv
<1> QED BY <1>3, <1>6, <1>7, <1>8, <1>9

\* A publication whose identifier is free: it is above all that were given out, so
\* every open stream takes the event, and the copies of the others stay bases.
LEMMA InsertKeeps ==
  ASSUME TypeInv, EventInv, NEW base \in Nat, Base(base),
         NEW v \in Nat, NEW t \in Nat, NEW body \in Nat \union {NoView},
         Publish(base, v, t, body),
         ~ Taken(base + 1), Young(base), UNCHANGED <<open, last, known>>
  PROVE  /\ LogInv' /\ StreamInv' /\ KnownInv'
         /\ (LatestAnnounced => LatestAnnounced') /\ Young(eventId)'
         /\ \A n \in Nat : Base(n) => Base(n)'
         /\ Base(base + 1)'
         /\ \A e \in log' \ log : \A c \in Clients : open[c] => e \in wire'[c]
<1> DEFINE event == [id |-> base + 1, view |-> body, text |-> t]
<1>1. /\ eventId' = base + 1
      /\ log' = Trimmed(log \union {event})
      /\ sent' = [c \in Clients |-> IF open[c] THEN Greater(sent[c], base + 1) ELSE sent[c]]
      /\ wire' = [c \in Clients |-> IF open[c] /\ sent[c] < base + 1
                                      THEN wire[c] \union {event} ELSE wire[c]]
      /\ announced' = IF body = NoView THEN announced ELSE body
  BY DEF Publish
<1>2. /\ Keep \in Nat \ {0} /\ NoView \notin Nat /\ eventId \in Nat
      /\ log \subseteq Event /\ \A e \in log : e.id \in Nat
  BY EventBounds DEF TypeInv, TypeOK, Event
<1>3. /\ \A e \in log : e.id <= base
      /\ eventId <= base
      /\ \A n \in Nat : Bound(n) => n <= base
  BY FreeIsNewest DEF TypeInv
<1>4. event.id = base + 1 /\ event.view = body /\ event \in Event
  BY DEF Event
<1> HIDE DEF event
<1>5. /\ \A e \in log' : e \in log \/ e = event
      /\ event \in log'
      /\ \A e \in log : base + 1 - Keep < e.id => e \in log'
  <2>1. log \union {event} \subseteq Event
    BY <1>2, <1>4
  <2>2. \A d \in log \union {event} : d.id \in Nat /\ d.id <= base + 1
    BY <1>2, <1>3, <1>4
  <2>3. event \in log'
    BY <1>1, <1>2, <1>4, <2>2 DEF Trimmed
  <2>4. \A e \in log : base + 1 - Keep < e.id => e \in log'
    <3> SUFFICES ASSUME NEW e \in log, base + 1 - Keep < e.id
                 PROVE  \A d \in log \union {event} : d.id - Keep < e.id
      BY <1>1 DEF Trimmed
    <3> QED BY <1>2, <2>2
  <2> QED BY <1>1, <2>3, <2>4 DEF Trimmed
<1>6. \A n \in Nat : Bound(n) => n <= base /\ Bound(n)'
  BY <1>1, <1>3 DEF Bound
<1>7. ~ Gap'
  BY <1>1, <1>4, <1>5 DEF Gap
<1>8. ASSUME NEW n \in Nat, Base(n)
      PROVE  Base(n)'
  <2>1. Gapless(n)'
    <3> SUFFICES ASSUME NEW m \in Nat, n < m, NEW f \in log', m <= f.id,
                        \A e \in log' : e.id - Keep < m
                 PROVE  Taken(m)'
      BY DEF Gapless
    <3>1. m <= base + 1 /\ base + 1 - Keep < m
      BY <1>2, <1>3, <1>4, <1>5
    <3>2. CASE m = base + 1
      BY <1>4, <1>5, <3>2 DEF Taken
    <3>3. CASE m # base + 1
      <4>1. m <= base
        BY <3>1, <3>3
      <4>2. \E e \in log : m <= e.id
        <5>1. SUFFICES ASSUME \A e \in log : ~ (m <= e.id)
                       PROVE  FALSE
          OBVIOUS
        <5>2. \A e \in log : ~ (base <= e.id)
          BY <1>2, <4>1, <5>1
        <5>3. base <= eventId
          BY <5>2 DEF Base, Bound
        <5>4. Gap
          BY <1>2, <5>2, <5>3 DEF Gap
        <5> QED BY <1>2, <1>3, <1>8, <4>1, <5>4 DEF Base
      <4>3. \A e \in log : e.id - Keep < m
        BY <1>2, <1>3, <3>1
      <4>4. PICK e \in log : e.id = m
        BY <1>8, <4>2, <4>3 DEF Base, Gapless, Taken
      <4>5. e \in log'
        BY <1>5, <3>1, <4>4
      <4> QED BY <4>4, <4>5 DEF Taken
    <3> QED BY <3>2, <3>3
  <2>2. Bound(n)'
    BY <1>6, <1>8 DEF Base
  <2> QED BY <1>7, <2>1, <2>2 DEF Base
<1>9. Gapless(base + 1)'
  <2> SUFFICES ASSUME NEW m \in Nat, base + 1 < m, NEW f \in log', m <= f.id
               PROVE  FALSE
    BY DEF Gapless
  <2> QED BY <1>2, <1>3, <1>4, <1>5
<1>10. Base(base + 1)'
  BY <1>1, <1>7, <1>9 DEF Base, Bound
<1>11. LogInv'
  <2>1. \A d, e \in log' : d.id = e.id => d = e
    BY <1>2, <1>3, <1>4, <1>5 DEF EventInv, LogInv
  <2>2. \A d, e \in log' : d.id - Keep < e.id
    BY <1>1 DEF Trimmed
  <2>3. \A e \in log' : e.id > 0
    BY <1>2, <1>4, <1>5 DEF EventInv, LogInv
  <2>4. Gapless(eventId)'
    BY <1>1, <1>9 DEF Gapless
  <2> QED BY <2>1, <2>2, <2>3, <2>4 DEF LogInv
<1>12. ASSUME NEW c \in Clients
       PROVE  /\ last'[c] = last[c] /\ known'[c] = known[c] /\ open'[c] = open[c]
              /\ last[c] \in Nat /\ sent[c] \in Nat /\ wire[c] \subseteq Event
              /\ last[c] <= base /\ sent[c] <= base
              /\ \A e \in wire[c] : e.id <= base
              /\ open[c] => sent'[c] = base + 1 /\ wire'[c] = wire[c] \union {event}
              /\ ~ open[c] => sent'[c] = sent[c] /\ wire'[c] = wire[c]
  <2>1. last[c] \in Nat /\ sent[c] \in Nat /\ wire[c] \subseteq Event
    BY DEF TypeInv, TypeOK
  <2>2. last[c] <= base /\ sent[c] <= base /\ \A e \in wire[c] : e.id <= base
    BY <1>6, <2>1 DEF EventInv, StreamInv, Event
  <2> QED BY <1>1, <2>1, <2>2 DEF Greater
<1>13. StreamInv'
  <2> SUFFICES ASSUME NEW c \in Clients
               PROVE  /\ Bound(last[c])' /\ Bound(sent[c])'
                      /\ (open[c] => \A e \in log : e.id <= sent[c])'
                      /\ (~ open[c] => wire[c] = {})'
                      /\ (\A e \in wire[c] : Bound(e.id))'
                      /\ (\A d, e \in wire[c] : d.id = e.id => d = e)'
    BY DEF StreamInv
  <2>1. \A e \in wire[c] : e.id \in Nat
    BY <1>12 DEF Event
  <2>2. Bound(last[c])' /\ Bound(sent[c])'
    <3>1. last'[c] <= base + 1
      BY <1>12
    <3>2. sent'[c] <= base + 1
      BY <1>12
    <3> QED BY <1>1, <3>1, <3>2 DEF Bound
  <2>3. (~ open[c] => wire[c] = {})'
    BY <1>12 DEF EventInv, StreamInv
  <2>4. (\A e \in wire[c] : Bound(e.id))'
    <3>1. \A e \in wire[c] : e.id <= base + 1
      BY <1>12, <2>1
    <3>2. \A e \in wire'[c] : e \in wire[c] \/ e = event
      BY <1>12
    <3>3. \A e \in wire'[c] : e.id <= base + 1
      BY <1>4, <3>1, <3>2
    <3> QED BY <1>1, <3>3 DEF Bound
  <2>5. (\A d, e \in wire[c] : d.id = e.id => d = e)'
    BY <1>4, <1>12, <2>1 DEF EventInv, StreamInv
  <2>6. (open[c] => \A e \in log : e.id <= sent[c])'
    BY <1>2, <1>3, <1>4, <1>5, <1>12
  <2> QED BY <2>2, <2>3, <2>4, <2>5, <2>6
<1>14. ASSUME LatestAnnounced
       PROVE  LatestAnnounced'
  <2>1. CASE body = NoView
    <3> SUFFICES ASSUME ViewInLog'
                 PROVE  \E e \in log' : /\ e.view = announced
                                        /\ \A d \in log' : d.view # NoView => d.id <= e.id
      BY <1>1, <2>1 DEF LatestAnnounced
    <3>1. PICK f \in log' : f.view # NoView
      BY DEF ViewInLog
    <3>2. f \in log
      BY <1>4, <1>5, <2>1, <3>1
    <3>3. PICK e \in log : e.view = announced /\ \A d \in log : d.view # NoView => d.id <= e.id
      BY <1>14, <3>1, <3>2 DEF LatestAnnounced, ViewInLog
    <3>4. base + 1 - Keep < f.id
      <4>1. f \in Trimmed(log \union {event})
        BY <1>1, <3>1
      <4>2. \A d \in log \union {event} : d.id - Keep < f.id
        BY <4>1 DEF Trimmed
      <4>3. event \in log \union {event}
        OBVIOUS
      <4>4. event.id - Keep < f.id
        BY <4>2, <4>3
      <4> QED BY <1>2, <1>4, <4>4
    <3>5. e \in log'
      BY <1>2, <1>5, <3>1, <3>2, <3>3, <3>4
    <3>6. \A d \in log' : d.view # NoView => d.id <= e.id
      BY <1>4, <1>5, <2>1, <3>3
    <3> QED BY <3>3, <3>5, <3>6
  <2>2. CASE body # NoView
    <3>1. event.view = announced'
      BY <1>1, <1>4, <2>2
    <3>2. \A d \in log' : d.id <= event.id
      BY <1>2, <1>3, <1>4, <1>5
    <3> QED BY <1>5, <3>1, <3>2 DEF LatestAnnounced
  <2> QED BY <2>1, <2>2
<1>15. KnownInv'
  <2> SUFFICES ASSUME NEW c \in Clients, NEW e \in log', e.view # NoView
               PROVE  /\ (e.id <= last[c] => e.view <= known[c])'
                      /\ (open[c] => e \in wire[c] \/ e.view <= known[c])'
    BY DEF KnownInv
  <2>1. CASE e \in log
    BY <1>12, <2>1 DEF EventInv, KnownInv
  <2>2. CASE e = event
    BY <1>4, <1>12, <2>2
  <2> QED BY <1>5, <2>1, <2>2
<1>16. \A e \in log' \ log : \A c \in Clients : open[c] => e \in wire'[c]
  BY <1>5, <1>12
<1>17. Young(eventId)'
  <2>1. \A e \in log' : e.id <= base + 1 + Keep
    BY <1>2, <1>3, <1>4, <1>5
  <2> QED BY <1>1, <2>1 DEF Young
<1> QED BY <1>8, <1>10, <1>11, <1>13, <1>14, <1>15, <1>16, <1>17

\* While no request is outlived, the announced version is in the log after a
\* publication, and the room's identifier has not been outlived.
LEMMA AnnouncedStays ==
  ASSUME TypeInv, EventInv, AnnouncedInv, NEW base \in Nat, Base(base), Young(base),
         NEW v \in Nat, NEW t \in Nat, NEW body \in Nat \union {NoView},
         Publish(base, v, t, body), UNCHANGED <<open, last, known>>
  PROVE  AnnouncedInv'
<1>1. CASE Taken(base + 1)
  <2>1. eventId' = base + 1 /\ log' = log /\ announced' = announced
    BY <1>1 DEF Publish
  <2>2. /\ Keep \in Nat /\ \A e \in log : e.id \in Nat
    BY EventBounds DEF TypeInv, TypeOK, Event
  <2>3. Young(eventId)'
    BY <2>1, <2>2 DEF Young
  <2> QED BY <2>1, <2>3 DEF AnnouncedInv, LatestAnnounced, ViewInLog
<1>2. CASE ~ Taken(base + 1)
  BY <1>2, InsertKeeps DEF AnnouncedInv
<1> QED BY <1>1, <1>2

-----------------------------------------------------------------------------
(* The steps of the server.                                                 *)

\* The publication of a request: the room's record, the log, the streams and the
\* other copies agree after it, and every open stream takes the event.
LEMMA RequestPublishes ==
  ASSUME TypeInv, EventInv, NEW h \in Handlers, pc[h] # "idle",
         NEW v \in Nat, NEW t \in Nat,
         Publish(held[h], v, t, v), Published(h), UNCHANGED <<open, gate, browser>>
  PROVE  /\ EventInv'
         /\ \A e \in log' \ log : \A c \in Clients : open[c] => e \in wire'[c]
         /\ NoneOutlived /\ AnnouncedInv => AnnouncedInv'
<1>1. PICK b \in Nat : b = held[h]
  BY DEF TypeInv, TypeOK
<1>2. /\ Base(b) /\ Publish(b, v, t, v)
      /\ UNCHANGED <<open, last, known>>
      /\ NoneOutlived => Young(b)
  BY <1>1 DEF EventInv, HeldInv, NoneOutlived, Young, browser
<1>3. /\ LogInv' /\ StreamInv' /\ KnownInv'
      /\ \A n \in Nat : Base(n) => Base(n)'
      /\ \A e \in log' \ log : \A c \in Clients : open[c] => e \in wire'[c]
  <2>1. CASE Taken(b + 1) \/ ~ Young(b)
    BY <1>2, <2>1, LateKeeps
  <2>2. CASE ~ Taken(b + 1) /\ Young(b)
    BY <1>2, <2>2, InsertKeeps
  <2> QED BY <2>1, <2>2
<1>4. NoneOutlived /\ AnnouncedInv => AnnouncedInv'
  BY <1>2, AnnouncedStays
<1>5. ASSUME pc'[h] # "idle"
      PROVE  held'[h] = b + 1 /\ ~ Taken(b + 1)
  BY <1>1, <1>5 DEF Published, Return, TypeInv, TypeOK
<1>6. HeldInv'
  <2> SUFFICES ASSUME NEW g \in Handlers, pc'[g] # "idle"
               PROVE  Base(held[g])'
    BY DEF HeldInv
  <2>1. CASE g = h
    <3>1. ~ Taken(b + 1) /\ held'[g] = b + 1
      BY <1>5, <2>1
    <3>2. Base(b + 1)'
      <4>1. CASE Young(b)
        BY <1>2, <3>1, <4>1, InsertKeeps
      <4>2. CASE ~ Young(b)
        <5>1. eventId' = b + 1 /\ LogInv'
          BY <1>2, <1>3, <3>1 DEF Publish
        <5> QED BY <5>1 DEF LogInv, Base, Gapless, Taken, Gap, Bound
      <4> QED BY <4>1, <4>2
    <3> QED BY <3>1, <3>2 DEF Base, Gapless, Taken, Gap, Bound
  <2>2. CASE g # h
    <3>1. pc'[g] = pc[g] /\ held'[g] = held[g] /\ held[g] \in Nat
      BY <2>2 DEF Published, Return, TypeInv, TypeOK
    <3>2. PICK n \in Nat : n = held[g]
      BY <3>1
    <3>3. Base(n)
      BY <3>1, <3>2 DEF EventInv, HeldInv
    <3>4. Base(n)'
      BY <1>3, <3>3
    <3> QED BY <3>1, <3>2, <3>4 DEF Base, Gapless, Taken, Gap, Bound
  <2> QED BY <2>1, <2>2
<1> QED BY <1>3, <1>4, <1>6 DEF EventInv

\* A step that leaves the events alone, and holds no copy of the room that was not
\* held before or is not the present one.
LEMMA QuietKeeps ==
  ASSUME TypeInv, EventInv, UNCHANGED <<eventId, log, announced, open, sent, wire, last, known>>,
         \A h \in Handlers : pc'[h] # "idle" =>
           \/ pc[h] # "idle" /\ held'[h] = held[h]
           \/ held'[h] = eventId
  PROVE  EventInv' /\ (AnnouncedInv => AnnouncedInv')
<1>1. Base(eventId)
  BY DEF TypeInv, TypeOK, EventInv, LogInv, Base, Bound
<1>2. HeldInv'
  BY <1>1 DEF EventInv, HeldInv, Base, Gapless, Taken, Gap, Bound
<1>3. LogInv' /\ StreamInv' /\ KnownInv'
  BY DEF EventInv, LogInv, Gapless, Taken, StreamInv, Bound, KnownInv
<1>4. AnnouncedInv => AnnouncedInv'
  BY DEF AnnouncedInv, LatestAnnounced, ViewInLog, Young
<1> QED BY <1>2, <1>3, <1>4 DEF EventInv

\* Every step of a request.
LEMMA RequestKeeps ==
  ASSUME TypeInv, EventInv, NEW h \in Handlers, HandlerStep(h)
  PROVE  /\ EventInv'
         /\ \A e \in log' \ log : \A c \in Clients : open[c] => e \in wire'[c]
         /\ NoneOutlived /\ AnnouncedInv => AnnouncedInv'
<1>1. items \in Nat /\ items + 1 \in Nat /\ text \in Nat
  BY DEF TypeInv, TypeOK
<1>2. CASE Authorize(h)
  BY <1>2, QuietKeeps DEF Authorize, TypeInv, TypeOK, browser
<1>3. CASE Leave(h)
  BY <1>3, QuietKeeps DEF Leave, Return, TypeInv, TypeOK, browser
<1>4. CASE CommitCheckpoint(h)
  BY <1>4, QuietKeeps DEF CommitCheckpoint, TypeInv, TypeOK, browser
<1>5. CASE PublishProgress(h)
  BY <1>1, <1>5, RequestPublishes DEF PublishProgress
<1>6. CASE ChangeItem(h)
  BY <1>1, <1>6, RequestPublishes DEF ChangeItem
<1> QED BY <1>2, <1>3, <1>4, <1>5, <1>6 DEF HandlerStep

\* An update of the shared text publishes with the record it has just read.
LEMMA TextKeeps ==
  ASSUME TypeInv, EventInv, UpdateText
  PROVE  /\ EventInv'
         /\ \A e \in log' \ log : \A c \in Clients : open[c] => e \in wire'[c]
         /\ AnnouncedInv => AnnouncedInv'
<1>1. PICK b \in Nat : b = eventId
  BY DEF TypeInv, TypeOK
<1>2. /\ items \in Nat /\ text + 1 \in Nat /\ NoView \in Nat \union {NoView}
      /\ Base(b)
      /\ Publish(b, items, text + 1, NoView)
      /\ UNCHANGED <<open, last, known, pc, held>>
      /\ AnnouncedInv => Young(b)
  BY <1>1 DEF TypeInv, TypeOK, EventInv, LogInv, Base, Bound, UpdateText, browser, AnnouncedInv
<1>3. /\ LogInv' /\ StreamInv' /\ KnownInv'
      /\ \A n \in Nat : Base(n) => Base(n)'
      /\ \A e \in log' \ log : \A c \in Clients : open[c] => e \in wire'[c]
  <2>1. CASE Taken(b + 1) \/ ~ Young(b)
    BY <1>2, <2>1, LateKeeps
  <2>2. CASE ~ Taken(b + 1) /\ Young(b)
    BY <1>2, <2>2, InsertKeeps
  <2> QED BY <2>1, <2>2
<1>4. AnnouncedInv => AnnouncedInv'
  BY <1>2, AnnouncedStays
<1>5. HeldInv'
  <2> SUFFICES ASSUME NEW g \in Handlers, pc'[g] # "idle"
               PROVE  Base(held[g])'
    BY DEF HeldInv
  <2>1. pc'[g] = pc[g] /\ held'[g] = held[g] /\ held[g] \in Nat
    BY <1>2 DEF TypeInv, TypeOK
  <2>2. PICK n \in Nat : n = held[g]
    BY <2>1
  <2>3. Base(n)
    BY <2>1, <2>2 DEF EventInv, HeldInv
  <2>4. Base(n)'
    BY <1>3, <2>3
  <2> QED BY <2>1, <2>2, <2>4 DEF Base, Gapless, Taken, Gap, Bound
<1> QED BY <1>3, <1>4, <1>5 DEF EventInv

\* After a crash the room's identifier may be above the log, or below what it was
\* and then an event has it or a higher one; no request and no stream is left.
LEMMA CrashKeeps ==
  ASSUME TypeInv, EventInv, Crash
  PROVE  EventInv' /\ (NoneOutlived /\ AnnouncedInv => AnnouncedInv')
<1>1. /\ UNCHANGED <<log, announced, last, known>>
      /\ \A h \in Handlers : pc'[h] = "idle"
      /\ \A c \in Clients : open'[c] = FALSE /\ sent'[c] = 0 /\ wire'[c] = {}
  BY DEF Crash, browser
<1>2. Keep \in Nat \ {0} /\ eventId \in Nat /\ \A e \in log : e.id \in Nat
  BY EventBounds DEF TypeInv, TypeOK, Event
<1>3. /\ eventId' \in Nat
      /\ Gapless(eventId)'
      /\ \A n \in Nat : Bound(n) => Bound(n)'
      /\ NoneOutlived /\ Young(eventId) => Young(eventId)'
  <2>1. CASE eventId' \in {eventId, eventId + 1}
    BY <1>1, <1>2, <2>1 DEF EventInv, LogInv, Gapless, Taken, Bound, Young
  <2>2. CASE \E h \in Handlers : pc[h] # "idle" /\ eventId' = held[h] + 1
    <3>1. PICK h \in Handlers : pc[h] # "idle" /\ eventId' = held[h] + 1
      BY <2>2
    <3>2. held[h] \in Nat /\ Base(held[h])
      BY <3>1 DEF TypeInv, TypeOK, EventInv, HeldInv
    <3>3. Gapless(eventId)'
      BY <1>1, <1>2, <3>1, <3>2 DEF Base, Gapless, Taken
    <3>4. \A n \in Nat : Bound(n) => Bound(n)'
      <4>1. CASE Gap
        BY <1>1, <1>2, <3>1, <3>2, <4>1 DEF Base, Bound
      <4>2. CASE ~ Gap
        <5>1. PICK f \in log : eventId <= f.id
          BY <1>2, <4>2 DEF Gap
        <5> QED BY <1>1, <1>2, <5>1 DEF Bound
      <4> QED BY <4>1, <4>2
    <3>5. NoneOutlived => Young(eventId)'
      BY <1>1, <1>2, <3>1, <3>2 DEF NoneOutlived, Young
    <3> QED BY <1>2, <3>1, <3>2, <3>3, <3>4, <3>5
  <2> QED BY <2>1, <2>2 DEF Crash
<1>4. LogInv'
  BY <1>1, <1>3 DEF EventInv, LogInv
<1>5. StreamInv'
  <2> SUFFICES ASSUME NEW c \in Clients
               PROVE  Bound(last[c])' /\ Bound(sent[c])'
    BY <1>1 DEF StreamInv
  <2>1. last'[c] = last[c] /\ last[c] \in Nat /\ Bound(last[c])
    BY <1>1 DEF TypeInv, TypeOK, EventInv, StreamInv
  <2>2. PICK n \in Nat : n = last[c]
    BY <2>1
  <2>3. Bound(n)'
    BY <1>3, <2>1, <2>2
  <2>4. Bound(last[c])'
    BY <2>1, <2>2, <2>3 DEF Bound
  <2> QED BY <1>1, <1>3, <2>4 DEF Bound
<1>6. HeldInv' /\ KnownInv'
  BY <1>1 DEF EventInv, HeldInv, KnownInv
<1>7. NoneOutlived /\ AnnouncedInv => AnnouncedInv'
  BY <1>1, <1>3 DEF AnnouncedInv, LatestAnnounced, ViewInLog
<1> QED BY <1>4, <1>5, <1>6, <1>7 DEF EventInv

-----------------------------------------------------------------------------
(* The steps of the streams and the browsers.                               *)

\* What StreamInv and KnownInv say of one browser.
StreamOf(c) ==
  /\ Bound(last[c]) /\ Bound(sent[c])
  /\ open[c] => \A e \in log : e.id <= sent[c]
  /\ ~ open[c] => wire[c] = {}
  /\ \A e \in wire[c] : Bound(e.id)
  /\ \A d, e \in wire[c] : d.id = e.id => d = e

KnownOf(c) ==
  \A e \in log : e.view # NoView =>
    /\ e.id <= last[c] => e.view <= known[c]
    /\ open[c] => e \in wire[c] \/ e.view <= known[c]

\* A step of one browser leaves the server and the other browsers alone.
LEMMA OneBrowser ==
  ASSUME TypeInv, EventInv, NEW c \in Clients, UNCHANGED server,
         \A d \in Clients \ {c} : /\ open'[d] = open[d] /\ sent'[d] = sent[d]
                                  /\ wire'[d] = wire[d] /\ last'[d] = last[d]
                                  /\ known'[d] = known[d],
         StreamOf(c)', KnownOf(c)'
  PROVE  EventInv' /\ (AnnouncedInv => AnnouncedInv')
<1>1. LogInv' /\ HeldInv' /\ (AnnouncedInv => AnnouncedInv')
  BY DEF server, EventInv, LogInv, HeldInv, Base, Gapless, Taken, Gap, Bound, AnnouncedInv,
         LatestAnnounced, ViewInLog, Young
<1>2. ASSUME NEW d \in Clients
      PROVE  StreamOf(d)' /\ KnownOf(d)'
  <2>1. CASE d = c
    BY <2>1 DEF StreamOf, KnownOf, Bound
  <2>2. CASE d # c
    <3>1. /\ open'[d] = open[d] /\ sent'[d] = sent[d] /\ wire'[d] = wire[d]
          /\ last'[d] = last[d] /\ known'[d] = known[d]
      BY <2>2
    <3>2. StreamOf(d) /\ KnownOf(d)
      BY DEF EventInv, StreamInv, KnownInv, StreamOf, KnownOf
    <3> QED BY <3>1, <3>2 DEF server, StreamOf, KnownOf, Bound
  <2> QED BY <2>1, <2>2
<1>3. StreamInv'
  BY <1>2 DEF StreamOf, StreamInv
<1>4. KnownInv'
  BY <1>2 DEF KnownOf, KnownInv
<1> QED BY <1>1, <1>3, <1>4 DEF EventInv

\* Replay puts every later event on the stream, and the snapshot has an identifier
\* of its own.
LEMMA ConnectKeeps ==
  ASSUME TypeInv, EventInv, NEW c \in Clients, Connect(c)
  PROVE  EventInv' /\ (AnnouncedInv => AnnouncedInv')
<1> DEFINE replay == EventsAfter(last[c])
           reached == IF replay = {} THEN last[c]
                        ELSE CHOOSE n \in {e.id : e \in replay} : \A e \in replay : e.id <= n
           snapshot == [id |-> eventId, view |-> items, text |-> text]
           taken == IF reached < eventId THEN replay \union {snapshot} ELSE replay
<1>1. /\ open' = [open EXCEPT ![c] = TRUE]
      /\ sent' = [sent EXCEPT ![c] = Greater(reached, eventId)]
      /\ wire' = [wire EXCEPT ![c] = taken]
      /\ UNCHANGED <<server, gate, browser, budget>>
  BY DEF Connect
<1>2. /\ last[c] \in Nat /\ eventId \in Nat /\ known[c] \in Nat
      /\ log \subseteq Event /\ \A e \in log : e.id \in Nat
  BY DEF TypeInv, TypeOK, Event
<1>3. /\ reached \in Nat
      /\ last[c] <= reached
      /\ \A e \in replay : e.id <= reached
      /\ reached = last[c] \/ \E e \in log : reached = e.id
  BY <1>2, ReplayReaches DEF TypeInv
<1>4. snapshot.id = eventId
  OBVIOUS
<1>5. \A e : e \in replay <=> e \in log /\ e.id > last[c]
  BY DEF EventsAfter
<1>6. \A e : e \in taken <=> e \in replay \/ (reached < eventId /\ e = snapshot)
  OBVIOUS
<1> HIDE DEF replay, reached, snapshot, taken
<1>7. /\ open'[c] = TRUE /\ sent'[c] = Greater(reached, eventId) /\ wire'[c] = taken
      /\ last'[c] = last[c] /\ known'[c] = known[c] /\ eventId' = eventId /\ log' = log
  BY <1>1 DEF TypeInv, TypeOK, server, browser
<1>8. StreamOf(c)'
  <2>1. Bound(last[c])'
    BY <1>7 DEF EventInv, StreamInv, Bound
  <2>2. Bound(sent[c])'
    <3>1. CASE reached < eventId
      <4>1. sent'[c] = eventId
        BY <1>7, <3>1 DEF Greater
      <4> QED BY <1>2, <1>7, <4>1 DEF Bound
    <3>2. CASE ~ (reached < eventId)
      <4>1. sent'[c] = reached
        BY <1>7, <3>2 DEF Greater
      <4>2. Bound(reached)
        BY <1>2, <1>3 DEF EventInv, StreamInv, Bound
      <4> QED BY <1>7, <4>1, <4>2 DEF Bound
    <3> QED BY <3>1, <3>2
  <2>3. \A e \in wire'[c] : e.id <= eventId \/ e \in log
    BY <1>2, <1>4, <1>5, <1>6, <1>7
  <2>4. (\A e \in wire[c] : Bound(e.id))'
    BY <1>2, <1>7, <2>3 DEF Bound
  <2>5. (\A d, e \in wire[c] : d.id = e.id => d = e)'
    <3> SUFFICES ASSUME NEW d \in taken, NEW e \in taken, d.id = e.id
                 PROVE  d = e
      BY <1>7
    <3>1. CASE d \in replay /\ e \in replay
      BY <1>5, <3>1 DEF EventInv, LogInv
    <3>2. \A f \in replay : f.id \in Nat /\ f.id <= reached
      BY <1>2, <1>3, <1>5
    <3>3. CASE ~ (d \in replay /\ e \in replay)
      BY <1>2, <1>3, <1>4, <1>6, <3>2, <3>3
    <3> QED BY <3>1, <3>3
  <2>6. (open[c] => \A e \in log : e.id <= sent[c])'
    <3>1. reached <= sent'[c]
      BY <1>2, <1>3, <1>7 DEF Greater
    <3>2. \A e \in log : e.id <= reached
      BY <1>2, <1>3, <1>5
    <3>3. sent'[c] \in Nat
      BY <1>2, <1>3, <1>7 DEF Greater
    <3> QED BY <1>2, <1>3, <1>7, <3>1, <3>2, <3>3
  <2> QED BY <1>7, <2>1, <2>2, <2>4, <2>5, <2>6 DEF StreamOf
<1>9. KnownOf(c)'
  <2> SUFFICES ASSUME NEW e \in log, e.view # NoView
               PROVE  /\ e.id <= last[c] => e.view <= known[c]
                      /\ e \in taken \/ e.view <= known[c]
    BY <1>7 DEF KnownOf
  <2>1. e.id <= last[c] => e.view <= known[c]
    BY DEF EventInv, KnownInv
  <2> QED BY <1>2, <1>5, <1>6, <2>1
<1> QED BY <1>1, <1>8, <1>9, OneBrowser DEF TypeInv, TypeOK, browser

\* The events of a stream arrive by identifier: what the browser's last identifier
\* passes over was not on the stream any more.
LEMMA DeliverKeeps ==
  ASSUME TypeInv, EventInv, NEW c \in Clients, Deliver(c)
  PROVE  EventInv' /\ (AnnouncedInv => AnnouncedInv')
<1>1. PICK e \in wire[c] :
        /\ \A d \in wire[c] : e.id <= d.id
        /\ wire' = [wire EXCEPT ![c] = @ \ {e}]
        /\ last' = [last EXCEPT ![c] = e.id]
        /\ known' = [known EXCEPT ![c] = IF e.view = NoView THEN @ ELSE Greater(@, e.view)]
        /\ UNCHANGED <<server, open, sent, gate, replies, budget>>
  BY DEF Deliver
<1>2. /\ wire[c] \subseteq Event /\ log \subseteq Event
      /\ \A d \in wire[c] \union log : d.id \in Nat /\ (d.view # NoView => d.view \in Nat)
      /\ known[c] \in Nat
  BY DEF TypeInv, TypeOK, Event
<1>3. /\ open'[c] = open[c] /\ sent'[c] = sent[c] /\ wire'[c] = wire[c] \ {e}
      /\ last'[c] = e.id /\ eventId' = eventId /\ log' = log
      /\ known'[c] = IF e.view = NoView THEN known[c] ELSE Greater(known[c], e.view)
  BY <1>1 DEF TypeInv, TypeOK, server
<1>4. known'[c] \in Nat /\ known[c] <= known'[c] /\ (e.view # NoView => e.view <= known'[c])
  BY <1>2, <1>3 DEF Greater
<1>5. StreamOf(c)'
  <2>1. StreamOf(c)
    BY DEF EventInv, StreamInv, StreamOf
  <2>2. Bound(last[c])' /\ Bound(sent[c])'
    BY <1>3, <2>1 DEF StreamOf, Bound
  <2>3. (\A d \in wire[c] : Bound(d.id))'
    BY <1>3, <2>1 DEF StreamOf, Bound
  <2>4. /\ (\A d, f \in wire[c] : d.id = f.id => d = f)'
        /\ (open[c] => \A f \in log : f.id <= sent[c])'
        /\ (~ open[c] => wire[c] = {})'
    BY <1>3, <2>1 DEF StreamOf
  <2> QED BY <2>2, <2>3, <2>4 DEF StreamOf
<1>6. KnownOf(c)'
  <2> SUFFICES ASSUME NEW d \in log, d.view # NoView
               PROVE  /\ d.id <= e.id => d.view <= known'[c]
                      /\ open[c] => d \in wire[c] \ {e} \/ d.view <= known'[c]
    BY <1>3 DEF KnownOf
  <2>1. open[c]
    BY DEF EventInv, StreamInv
  <2>2. d \in wire[c] \/ d.view <= known[c]
    BY <2>1 DEF EventInv, KnownInv
  <2>3. CASE d.view <= known[c]
    BY <1>2, <1>4, <2>3
  <2>4. CASE d = e
    BY <1>4, <2>4
  <2>5. CASE d \in wire[c] /\ d # e
    <3>1. d.id # e.id /\ e.id <= d.id
      BY <1>1, <2>5 DEF EventInv, StreamInv
    <3> QED BY <1>2, <2>5, <3>1
  <2> QED BY <2>2, <2>3, <2>4, <2>5
<1> QED BY <1>1, <1>5, <1>6, OneBrowser DEF TypeInv, TypeOK

\* Every other step of a browser: a stream that is closed has nothing under way, and
\* a page is given no less than it had.
LEMMA BrowserKeeps ==
  ASSUME TypeInv, EventInv, NEW c \in Clients, BrowserStep(c)
  PROVE  EventInv' /\ log' = log /\ (AnnouncedInv => AnnouncedInv')
<1>1. StreamOf(c) /\ KnownOf(c)
  BY DEF EventInv, StreamInv, KnownInv, StreamOf, KnownOf
<1>2. /\ eventId \in Nat /\ known[c] \in Nat /\ items \in Nat
      /\ \A e \in log : e.id \in Nat /\ e.id > 0 /\ (e.view # NoView => e.view \in Nat)
  BY DEF TypeInv, TypeOK, EventInv, LogInv, Event
<1>3. CASE Connect(c)
  BY <1>3, ConnectKeeps DEF Connect, server
<1>4. CASE Refuse(c) \/ AskRoom(c)
  <2>1. UNCHANGED <<server, open, sent, wire, last, known>>
    BY <1>4 DEF Refuse, AskRoom, browser
  <2> QED BY <2>1, QuietKeeps DEF server
<1>5. CASE Drop(c)
  <2>1. /\ open'[c] = FALSE /\ sent'[c] = 0 /\ wire'[c] = {}
        /\ UNCHANGED <<server, last, known>>
    BY <1>5 DEF Drop, Closed, TypeInv, TypeOK, browser
  <2>2. StreamOf(c)'
    BY <1>1, <1>2, <2>1 DEF StreamOf, Bound, server
  <2>3. KnownOf(c)'
    BY <1>1, <2>1 DEF KnownOf, server
  <2>4. \A d \in Clients \ {c} :
          /\ open'[d] = open[d] /\ sent'[d] = sent[d] /\ wire'[d] = wire[d]
          /\ last'[d] = last[d] /\ known'[d] = known[d]
    BY <1>5 DEF Drop, Closed, TypeInv, TypeOK, browser
  <2> QED BY <2>1, <2>2, <2>3, <2>4, OneBrowser DEF server
<1>6. CASE Deliver(c)
  BY <1>6, DeliverKeeps DEF Deliver, server
<1>7. CASE Reload(c)
  <2>1. /\ open'[c] = FALSE /\ sent'[c] = 0 /\ wire'[c] = {} /\ last'[c] = 0
        /\ UNCHANGED server
    BY <1>7 DEF Reload, Closed, TypeInv, TypeOK
  <2>2. StreamOf(c)'
    BY <1>2, <2>1 DEF StreamOf, Bound, server
  <2>3. KnownOf(c)'
    BY <1>2, <2>1 DEF KnownOf, server
  <2>4. \A d \in Clients \ {c} :
          /\ open'[d] = open[d] /\ sent'[d] = sent[d] /\ wire'[d] = wire[d]
          /\ last'[d] = last[d] /\ known'[d] = known[d]
    BY <1>7 DEF Reload, Closed, TypeInv, TypeOK
  <2> QED BY <2>1, <2>2, <2>3, <2>4, OneBrowser DEF server
<1>8. CASE \E r \in replies[c] : ApplyRoom(c, r)
  <2>1. PICK r \in replies[c] : ApplyRoom(c, r)
    BY <1>8
  <2>2. r.view \in Nat
    BY DEF TypeInv, TypeOK
  <2>3. /\ UNCHANGED <<server, open, sent, wire, last>>
        /\ known' = [known EXCEPT ![c] = Greater(@, r.view)]
    BY <2>1 DEF ApplyRoom
  <2>4. known'[c] \in Nat /\ known[c] <= known'[c]
    BY <1>2, <2>2, <2>3 DEF Greater, TypeInv, TypeOK
  <2>5. StreamOf(c)'
    BY <1>1, <2>3 DEF StreamOf, Bound, server
  <2>6. KnownOf(c)'
    BY <1>1, <1>2, <2>3, <2>4 DEF KnownOf, server
  <2>7. \A d \in Clients \ {c} :
          /\ open'[d] = open[d] /\ sent'[d] = sent[d] /\ wire'[d] = wire[d]
          /\ last'[d] = last[d] /\ known'[d] = known[d]
    BY <2>3 DEF TypeInv, TypeOK
  <2> QED BY <2>3, <2>5, <2>6, <2>7, OneBrowser DEF server
<1> QED BY <1>3, <1>4, <1>5, <1>6, <1>7, <1>8 DEF BrowserStep

-----------------------------------------------------------------------------
(* Theorems.                                                                *)

\* Every step keeps the invariant, and an event that it adds to the log is on every
\* open stream.
LEMMA EventsKept ==
  ASSUME TypeInv, EventInv, [Next]_vars
  PROVE  /\ EventInv'
         /\ \A e \in log' \ log : \A c \in Clients : open[c] => e \in wire'[c]
         /\ NoneOutlived /\ AnnouncedInv => AnnouncedInv'
<1>1. CASE \E h \in Handlers : HandlerStep(h)
  BY <1>1, RequestKeeps
<1>2. CASE UpdateText
  BY <1>2, TextKeeps
<1>3. CASE Crash
  BY <1>3, CrashKeeps DEF Crash
<1>4. CASE OpenForNobody \/ SeeClosed \/ UNCHANGED vars
  <2>1. UNCHANGED <<server, open, sent, wire, last, known>>
    BY <1>4 DEF OpenForNobody, SeeClosed, vars, browser
  <2> QED BY <2>1, QuietKeeps DEF server
<1>5. CASE \E c \in Clients : BrowserStep(c)
  BY <1>5, BrowserKeeps
<1> QED BY <1>1, <1>2, <1>3, <1>4, <1>5 DEF Next

\* The room as createRoom left it: one event, with a view, and no request or stream.
LEMMA EventsStart == Init => EventInv /\ AnnouncedInv
<1> SUFFICES ASSUME Init
             PROVE  EventInv /\ AnnouncedInv
  OBVIOUS
<1> DEFINE first == [id |-> 1, view |-> 0, text |-> 0]
<1>1. log = {first} /\ first.id = 1 /\ first.view = 0
  BY DEF Init
<1> HIDE DEF first
<1>2. /\ eventId = 1 /\ announced = 0
      /\ \A h \in Handlers : pc[h] = "idle"
      /\ \A c \in Clients : /\ open[c] = FALSE /\ sent[c] = 0 /\ wire[c] = {}
                            /\ last[c] = 0 /\ known[c] = 0
  BY DEF Init
<1>3. LogInv
  BY EventBounds, <1>1, <1>2 DEF LogInv, Gapless, Taken
<1>4. HeldInv /\ StreamInv
  BY <1>2 DEF HeldInv, StreamInv, Bound
<1>5. KnownInv
  BY <1>1, <1>2 DEF KnownInv
<1>6. AnnouncedInv
  BY EventBounds, <1>1, <1>2 DEF AnnouncedInv, LatestAnnounced, Young
<1> QED BY <1>3, <1>4, <1>5, <1>6 DEF EventInv

\* Log, copies of the room, streams and browsers agree, whatever requests, crashes and
\* reconnections there are.
THEOREM EventInvHolds == Spec => []EventInv
<1>1. Init => EventInv
  BY EventsStart
<1>2. TypeInv /\ EventInv /\ [Next]_vars => EventInv'
  BY EventsKept
<1> QED BY <1>1, <1>2, TypeInvHolds, PTL DEF Spec

\* Every event that enters the log is put on every open stream: publish derives its
\* identifier from the copy of the room that the request read before its awaits, and
\* a stream skips what is not above the last identifier it sent.
THEOREM PublishedReaches == Spec => PublishedReachesStreams
<1>1. TypeInv /\ EventInv /\ [Next]_vars
        => [\A e \in log' \ log : \A c \in Clients : open[c] => e \in wire'[c]]_vars
  BY EventsKept
<1> QED BY <1>1, TypeInvHolds, EventInvHolds, PTL DEF Spec, PublishedReachesStreams

\* A browser that has received everything on its stream was given every item change
\* that was announced, also what was announced while it was away: eventsAfter the
\* Last-Event-ID, the snapshot, failed publications and crashes included.
THEOREM AnnouncedReaches ==
  Spec /\ []NoneOutlived /\ []ViewInLog => []AnnouncedReachesBrowser
<1>1. Init => AnnouncedInv
  BY EventsStart
<1>2. TypeInv /\ EventInv /\ NoneOutlived /\ AnnouncedInv /\ [Next]_vars => AnnouncedInv'
  BY EventsKept
<1>3. TypeInv /\ EventInv /\ AnnouncedInv /\ ViewInLog => AnnouncedReachesBrowser
  <2> SUFFICES ASSUME TypeInv, EventInv, AnnouncedInv, ViewInLog,
                      NEW c \in Clients, open[c], wire[c] = {}
               PROVE  announced <= known[c]
    BY DEF AnnouncedReachesBrowser
  <2>1. PICK e \in log : e.view = announced
    BY DEF AnnouncedInv, LatestAnnounced
  <2>2. e.view # NoView
    BY EventBounds, <2>1 DEF TypeInv, TypeOK
  <2> QED BY <2>1, <2>2 DEF EventInv, KnownInv
<1> QED BY <1>1, <1>2, <1>3, TypeInvHolds, EventInvHolds, PTL DEF Spec

-----------------------------------------------------------------------------
(* Both hypotheses hold while the room is changed fewer than Keep times.    *)

\* No identifier is above one and the number of changes that were made, and the
\* event of createRoom is still there.
SpentInv ==
  /\ eventId + budget <= 1 + MaxBudget
  /\ \A e \in log : e.id + budget <= 1 + MaxBudget
  /\ \A h \in Handlers :
       /\ pc[h] # "idle" => held[h] + budget <= 1 + MaxBudget
       /\ pc[h] = "publish" => held[h] + 1 + budget <= 1 + MaxBudget
  /\ \E e \in log : e.id = 1 /\ e.view # NoView

\* A publication that was paid for, now or when its change was committed.
LEMMA SpentPublish ==
  ASSUME MaxBudget < Keep, TypeInv, SpentInv, NEW b \in Nat, NEW v, NEW t, NEW body,
         Publish(b, v, t, body), budget' \in Nat,
         b + 1 + budget' <= 1 + MaxBudget, budget' <= budget
  PROVE  /\ eventId' + budget' <= 1 + MaxBudget
         /\ \A e \in log' : e.id + budget' <= 1 + MaxBudget
         /\ \E e \in log' : e.id = 1 /\ e.view # NoView
<1> DEFINE event == [id |-> b + 1, view |-> body, text |-> t]
<1>1. /\ eventId' = b + 1
      /\ log' = log \/ log' = Trimmed(log \union {event})
  BY DEF Publish
<1>2. /\ Keep \in Nat /\ MaxBudget \in Nat /\ budget \in Nat
      /\ \A e \in log : e.id \in Nat
  BY EventBounds DEF TypeInv, TypeOK, Event
<1>3. event.id = b + 1
  OBVIOUS
<1> HIDE DEF event
<1>4. PICK f \in log : f.id = 1 /\ f.view # NoView
  BY DEF SpentInv
<1>5. \A e \in log \union {event} : e.id \in Nat /\ e.id + budget' <= 1 + MaxBudget
  <2>1. ASSUME NEW e \in log
        PROVE  e.id \in Nat /\ e.id + budget' <= 1 + MaxBudget
    <3>1. e.id \in Nat /\ e.id + budget <= 1 + MaxBudget
      BY <1>2 DEF SpentInv
    <3> QED BY <1>2, <3>1
  <2>2. event.id \in Nat /\ event.id + budget' <= 1 + MaxBudget
    BY <1>3
  <2> QED BY <2>1, <2>2
<1>6. \A e \in log \union {event} : e.id - Keep < 1
  BY <1>2, <1>5
<1>7. f \in log'
  BY <1>1, <1>4, <1>6 DEF Trimmed
<1>8. \A e \in log' : e \in log \union {event}
  BY <1>1 DEF Trimmed
<1> QED BY <1>1, <1>4, <1>5, <1>7, <1>8

\* Every publication was paid for.
LEMMA SpentKept ==
  ASSUME MaxBudget < Keep, TypeInv, SpentInv, [Next]_vars
  PROVE  SpentInv'
<1>1. /\ MaxBudget \in Nat /\ budget \in Nat /\ eventId \in Nat
      /\ \A h \in Handlers : held[h] \in Nat
      /\ \A e \in log : e.id \in Nat
  BY EventBounds DEF TypeInv, TypeOK, Event
<1>2. ASSUME NEW h \in Handlers, HandlerStep(h)
      PROVE  SpentInv'
  <2>1. /\ \A g \in Handlers \ {h} : pc'[g] = pc[g] /\ held'[g] = held[g]
        /\ budget' \in Nat /\ budget' <= budget
    BY <1>1, <1>2 DEF HandlerStep, Authorize, Leave, CommitCheckpoint, PublishProgress,
                      ChangeItem, Published, Return, Spend, TypeInv, TypeOK
  <2>2. CASE Authorize(h)
    BY <1>1, <2>1, <2>2 DEF Authorize, SpentInv, TypeInv, TypeOK
  <2>3. CASE Leave(h)
    BY <1>1, <2>1, <2>3 DEF Leave, Return, SpentInv, TypeInv, TypeOK
  <2>4. CASE CommitCheckpoint(h)
    <3>1. /\ pc[h] = "open" /\ budget > 0 /\ budget' = budget - 1
          /\ pc'[h] = "publish" /\ held'[h] = held[h] /\ eventId' = eventId /\ log' = log
      BY <2>4 DEF CommitCheckpoint, Spend, TypeInv, TypeOK
    <3> QED BY <1>1, <2>1, <3>1 DEF SpentInv
  <2>5. CASE PublishProgress(h) \/ ChangeItem(h)
    <3>1. /\ \E v, t, body : Publish(held[h], v, t, body)
          /\ Published(h)
          /\ held[h] + 1 + budget' <= 1 + MaxBudget
      BY <1>1, <2>5 DEF PublishProgress, ChangeItem, Spend, SpentInv
    <3>2. PICK b \in Nat : b = held[h]
      BY <1>1
    <3>3. PICK v, t, body : Publish(b, v, t, body)
      BY <3>1, <3>2
    <3>4. /\ eventId' + budget' <= 1 + MaxBudget
          /\ \A e \in log' : e.id + budget' <= 1 + MaxBudget
          /\ \E e \in log' : e.id = 1 /\ e.view # NoView
      BY <2>1, <3>1, <3>2, <3>3, SpentPublish
    <3>5. pc'[h] = "idle" \/ (pc'[h] = "open" /\ held'[h] = b + 1)
      BY <3>1, <3>2 DEF Published, Return, TypeInv, TypeOK
    <3> QED BY <1>1, <2>1, <3>1, <3>2, <3>4, <3>5 DEF SpentInv
  <2> QED BY <1>2, <2>2, <2>3, <2>4, <2>5 DEF HandlerStep
<1>3. CASE UpdateText
  <2>1. /\ budget' \in Nat /\ budget' = budget - 1 /\ UNCHANGED <<pc, held>>
        /\ \E v, t, body : Publish(eventId, v, t, body)
    BY <1>1, <1>3 DEF UpdateText, Spend
  <2>2. PICK b \in Nat : b = eventId
    BY <1>1
  <2>3. PICK v, t, body : Publish(b, v, t, body)
    BY <2>1, <2>2
  <2>4. b + 1 + budget' <= 1 + MaxBudget
    BY <1>1, <2>1, <2>2 DEF SpentInv
  <2>5. /\ eventId' + budget' <= 1 + MaxBudget
        /\ \A e \in log' : e.id + budget' <= 1 + MaxBudget
        /\ \E e \in log' : e.id = 1 /\ e.view # NoView
    BY <1>1, <2>1, <2>3, <2>4, SpentPublish
  <2> QED BY <1>1, <2>1, <2>5 DEF SpentInv
<1>4. CASE Crash
  <2>1. /\ budget' = budget - 1 /\ log' = log
        /\ \A h \in Handlers : pc'[h] = "idle"
    BY <1>4 DEF Crash, Spend
  <2>2. eventId' + budget' <= 1 + MaxBudget
    <3>1. CASE eventId' \in {eventId, eventId + 1}
      BY <1>1, <2>1, <3>1 DEF SpentInv
    <3>2. CASE \E h \in Handlers : pc[h] # "idle" /\ eventId' = held[h] + 1
      BY <1>1, <2>1, <3>2 DEF SpentInv
    <3> QED BY <1>4, <3>1, <3>2 DEF Crash
  <2> QED BY <1>1, <2>1, <2>2 DEF SpentInv
<1>5. ASSUME UNCHANGED <<eventId, log, pc, held>>, budget' \in Nat, budget' <= budget
      PROVE  SpentInv'
  <2>1. /\ \A e \in log : e.id + budget' <= 1 + MaxBudget
        /\ eventId + budget' <= 1 + MaxBudget
    BY <1>1, <1>5 DEF SpentInv
  <2>2. \A h \in Handlers :
          /\ pc[h] # "idle" => held[h] + budget' <= 1 + MaxBudget
          /\ pc[h] = "publish" => held[h] + 1 + budget' <= 1 + MaxBudget
    BY <1>1, <1>5 DEF SpentInv
  <2> QED BY <1>5, <2>1, <2>2 DEF SpentInv
<1>6. CASE OpenForNobody \/ SeeClosed \/ UNCHANGED vars
  BY <1>1, <1>5, <1>6 DEF OpenForNobody, SeeClosed, Spend, vars, server
<1>7. CASE \E c \in Clients : BrowserStep(c)
  <2>1. PICK c \in Clients : BrowserStep(c)
    BY <1>7
  <2>2. UNCHANGED server /\ (budget' = budget \/ Spend)
    BY <2>1 DEF BrowserStep, Connect, Refuse, Drop, Deliver, AskRoom, Reload, ApplyRoom
  <2> QED BY <1>1, <1>5, <2>2 DEF server, Spend
<1> QED BY <1>2, <1>3, <1>4, <1>6, <1>7 DEF Next

\* With fewer changes than the history keeps, as in the run, no request is outlived
\* and the history has a view.
THEOREM FewChanges ==
  ASSUME MaxBudget < Keep
  PROVE  Spec => []NoneOutlived /\ []ViewInLog
<1>1. Init => SpentInv
  <2> SUFFICES ASSUME Init
               PROVE  SpentInv
    OBVIOUS
  <2>1. [id |-> 1, view |-> 0, text |-> 0] \in log
    BY DEF Init
  <2> QED BY EventBounds, <2>1 DEF Init, SpentInv
<1>2. TypeInv /\ SpentInv /\ [Next]_vars => SpentInv'
  BY SpentKept
<1>3. TypeInv /\ SpentInv => NoneOutlived /\ ViewInLog
  <2> SUFFICES ASSUME TypeInv, SpentInv
               PROVE  NoneOutlived /\ ViewInLog
    OBVIOUS
  <2>1. /\ Keep \in Nat /\ MaxBudget \in Nat /\ budget \in Nat
        /\ \A e \in log : e.id \in Nat
        /\ \A h \in Handlers : held[h] \in Nat
    BY EventBounds DEF TypeInv, TypeOK, Event
  <2> QED BY <2>1 DEF SpentInv, NoneOutlived, ViewInLog
<1> QED BY <1>1, <1>2, <1>3, TypeInvHolds, PTL DEF Spec

\* So a browser is given every announced change, for every number of requests,
\* browsers and streams, while the room is changed fewer than Keep times.
COROLLARY FewChangesReach ==
  ASSUME MaxBudget < Keep
  PROVE  Spec => []AnnouncedReachesBrowser
BY FewChanges, AnnouncedReaches, PTL

=============================================================================
