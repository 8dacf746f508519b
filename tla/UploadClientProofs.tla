------------------------- MODULE UploadClientProofs -------------------------
(* Proofs about the tabs that upload a file and the requests they make, for   *)
(* every number of tabs, requests, items and chunks.                          *)
EXTENDS UploadClient, FiniteSetTheorems, TLAPS

-----------------------------------------------------------------------------
(* The inductive invariant.                                                  *)

\* What the server records of an item agrees with what happened to it.
ItemsInv ==
  \A i \in Ids :
    /\ state[i] \in {"none", "pending"} => offset[i] = 0
    /\ state[i] = "ready" => offset[i] = Size
    /\ state[i] = "none" => ~ released[i]
    /\ state[i] = "cancelled" => released[i]

\* A request at work and the item it works on, in states st with offsets off: a
\* writer is at the end of what is committed, an answer promises no more than that.
RequestOK(q, st, off) ==
  /\ q.stage = "sent" /\ q.kind = "patch" =>
       q.item \in Ids /\ st[q.item] # "none" /\ q.chunk < Size
  /\ q.stage = "writing" =>
       /\ q.item \in Ids /\ st[q.item] \notin {"none", "ready"}
       /\ q.chunk = off[q.item] /\ q.chunk < Size
       /\ q.locked
  /\ q.stage = "completing" =>
       /\ q.item \in Ids /\ st[q.item] \notin {"none", "pending"}
       /\ off[q.item] = Size /\ q.result = Size
  /\ q.stage = "answered" /\ q.ok =>
       q.item \in Ids /\ st[q.item] # "none" /\ q.result <= off[q.item]
  /\ q.locked => q.stage \in {"writing", "completing"}

\* One writer for each item.
OneWriter ==
  \A q, r \in Slots :
    req[q].locked /\ req[r].locked /\ req[q].item = req[r].item => q = r

RequestsInv == OneWriter /\ \A r \in Slots : RequestOK(req[r], state, offset)

\* A tab waits for one request at most, and for no request but its own.
OwnersInv ==
  /\ \A r \in Slots : LET c == req[r].owner IN
       c # None =>
         /\ pc[c] \in {"register", "wait"}
         /\ pc[c] = "wait" =>
              /\ req[r].kind = "patch" /\ req[r].stage # "inserting"
              /\ req[r].stage # "answered" \/ req[r].ok => req[r].item = call[c].item
  /\ \A q, r \in Slots : req[q].owner # None /\ req[q].owner = req[r].owner => q = r

\* A tab knows an item that the server gave out, and no more than is committed of it.
CallOK(c, st, off) ==
  /\ pc[c] \in {"look", "list", "status", "loop", "wait", "ask", "final", "done"}
       => call[c].item # None
  /\ call[c].item # None =>
       st[call[c].item] # "none" /\ call[c].offset <= off[call[c].item]
  /\ pc[c] = "register" => call[c] = NoCall
  /\ pc[c] \in {"final", "done"} => call[c].offset = Size
  /\ pc[c] \in {"loop", "wait"} => call[c].attempt < MaxAttempts

CallsInv ==
  /\ saved # None => state[saved] # "none"
  /\ \A c \in Clients : CallOK(c, state, offset)

\* There is an identifier for every registration under way.
Reserved == Cardinality(Inserting) <= Cardinality(Unused)

\* Items that are open and were never cancelled.
Fresh == {i \in Open : ~ released[i]}

\* Unless registrations raced, one of them comes upon the item of another.
OneFresh ==
  ~ raced =>
    /\ \A i, j \in Fresh : i = j
    /\ \A q, r \in Inserting : q = r
    /\ Inserting # {} => Fresh = {}

ClientInv ==
  ItemsInv /\ RequestsInv /\ OwnersInv /\ CallsInv /\ Reserved /\ OneFresh

-----------------------------------------------------------------------------
(* Records.                                                                  *)

\* The initial records are well typed.
LEMMA InitialRecords == NoReq \in Req /\ NoCall \in Call
BY ClientBounds DEF NoReq, Req, Stages, NoCall, Call

\* What an incident leaves of the budget.
LEMMA IncidentType ==
  ASSUME budget \in [calls : 0 .. MaxCalls, incidents : 0 .. MaxIncidents], Incident
  PROVE  budget' \in [calls : 0 .. MaxCalls, incidents : 0 .. MaxIncidents]
<1>1. budget.incidents \in 1 .. MaxIncidents
  BY ClientBounds DEF Incident
<1>2. budget.incidents - 1 \in 0 .. MaxIncidents
  BY <1>1, ClientBounds
<1>3. \A n \in 0 .. MaxIncidents :
        [budget EXCEPT !.incidents = n] \in [calls : 0 .. MaxCalls, incidents : 0 .. MaxIncidents]
  OBVIOUS
<1>4. [budget EXCEPT !.incidents = budget.incidents - 1]
        \in [calls : 0 .. MaxCalls, incidents : 0 .. MaxIncidents]
  BY <1>2, <1>3, Zenon
<1> QED
  BY <1>4 DEF Incident

\* An answered request, its slot and the others.
LEMMA Answered ==
  ASSUME req \in [Slots -> Req], NEW r \in Slots, NEW ok \in BOOLEAN,
         NEW item \in Ids \union {None}, NEW result \in 0 .. Size,
         Answer(r, ok, item, result)
  PROVE  /\ req' \in [Slots -> Req]
         /\ \A q \in Slots \ {r} : req'[q] = req[q]
         /\ ~ req'[r].locked /\ req'[r].kind = "patch"
         /\ \/ req'[r].stage = "free" /\ req'[r].owner = None
            \/ /\ req'[r].stage = "answered" /\ req'[r].owner = req[r].owner
               /\ req'[r].ok = ok /\ req'[r].item = item /\ req'[r].result = result
<1> DEFINE reply == [NoReq EXCEPT !.stage = "answered", !.owner = req[r].owner,
                                  !.ok = ok, !.item = item, !.result = result]
<1>1. req[r].owner \in Clients \union {None}
  BY DEF Req
<1>2. NoReq \in Req /\ NoReq.kind = "patch" /\ ~ NoReq.locked /\ NoReq.stage = "free"
        /\ NoReq.owner = None
  BY InitialRecords DEF NoReq
<1>3. \A p \in Req, w \in Clients \union {None} :
        LET a == [p EXCEPT !.stage = "answered", !.owner = w, !.ok = ok, !.item = item,
                           !.result = result]
        IN  /\ a \in Req /\ a.kind = p.kind /\ a.locked = p.locked
            /\ a.stage = "answered" /\ a.owner = w /\ a.ok = ok /\ a.item = item
            /\ a.result = result
  BY DEF Req, Stages
<1>a. /\ reply \in Req /\ reply.kind = "patch" /\ ~ reply.locked
      /\ reply.stage = "answered" /\ reply.owner = req[r].owner /\ reply.ok = ok
      /\ reply.item = item /\ reply.result = result
  BY <1>1, <1>2, <1>3
<1> HIDE DEF reply
<1>4. req' = [req EXCEPT ![r] = IF req[r].owner = None THEN NoReq ELSE reply]
  BY DEF Answer, reply
<1>5. req' \in [Slots -> Req] /\ \A q \in Slots \ {r} : req'[q] = req[q]
  BY <1>2, <1>4, <1>a
<1>6. req'[r] = IF req[r].owner = None THEN NoReq ELSE reply
  BY <1>4
<1> QED
  BY <1>2, <1>5, <1>6, <1>a

\* A request that is answered leaves the others as sound as they are.
LEMMA AnswerRequests ==
  ASSUME req \in [Slots -> Req], OneWriter, NEW r \in Slots, NEW ok \in BOOLEAN,
         NEW item \in Ids \union {None}, NEW result \in 0 .. Size,
         Answer(r, ok, item, result),
         ok => item \in Ids /\ state'[item] # "none" /\ result <= offset'[item],
         \A q \in Slots \ {r} : RequestOK(req[q], state', offset')
  PROVE  RequestsInv'
<1>1. /\ \A q \in Slots \ {r} : req'[q] = req[q]
      /\ ~ req'[r].locked
      /\ \/ req'[r].stage = "free"
         \/ /\ req'[r].stage = "answered"
            /\ req'[r].ok = ok /\ req'[r].item = item /\ req'[r].result = result
  BY Answered
<1>2. RequestOK(req'[r], state', offset')
  BY <1>1 DEF RequestOK
<1>3. \A q \in Slots : RequestOK(req'[q], state', offset')
  BY <1>1, <1>2
<1>4. OneWriter'
  BY <1>1 DEF OneWriter
<1> QED
  BY <1>3, <1>4 DEF RequestsInv

\* The answer goes to the tab that waits for it.
LEMMA AnswerOwners ==
  ASSUME req \in [Slots -> Req], OwnersInv, NEW r \in Slots, NEW ok \in BOOLEAN,
         NEW item \in Ids \union {None}, NEW result \in 0 .. Size,
         Answer(r, ok, item, result), UNCHANGED <<pc, call>>,
         ok /\ req[r].owner # None /\ pc[req[r].owner] = "wait"
           => item = call[req[r].owner].item
  PROVE  OwnersInv'
<1>1. /\ \A q \in Slots \ {r} : req'[q] = req[q]
      /\ req'[r].kind = "patch"
      /\ \/ req'[r].stage = "free" /\ req'[r].owner = None
         \/ /\ req'[r].stage = "answered" /\ req'[r].owner = req[r].owner
            /\ req'[r].ok = ok /\ req'[r].item = item
  BY Answered
<1>2. ASSUME NEW q \in Slots, req'[q].owner # None
      PROVE  /\ pc[req'[q].owner] \in {"register", "wait"}
             /\ pc[req'[q].owner] = "wait" =>
                  /\ req'[q].kind = "patch" /\ req'[q].stage # "inserting"
                  /\ req'[q].stage # "answered" \/ req'[q].ok
                       => req'[q].item = call[req'[q].owner].item
  <2>1. CASE q = r
    BY <1>1, <1>2, <2>1 DEF OwnersInv
  <2>2. CASE q # r
    BY <1>1, <1>2, <2>2 DEF OwnersInv
  <2> QED
    BY <2>1, <2>2
<1>3. \A q \in Slots : req'[q].owner # None => req'[q].owner = req[q].owner
  BY <1>1
<1>4. \A p, q \in Slots : req'[q].owner # None /\ req'[q].owner = req'[p].owner => q = p
  BY <1>3 DEF OwnersInv
<1> QED
  BY <1>2, <1>4 DEF OwnersInv

\* An answered request is not about to insert.
LEMMA AnswerInserting ==
  ASSUME req \in [Slots -> Req], NEW r \in Slots, NEW ok \in BOOLEAN,
         NEW item \in Ids \union {None}, NEW result \in 0 .. Size,
         Answer(r, ok, item, result)
  PROVE  Inserting' = Inserting \ {r}
BY Answered DEF Inserting

\* What a tab knows stays true while items only go forward.
LEMMA CallsFrame ==
  ASSUME TypeOK, CallsInv, UNCHANGED client, offset' \in [Ids -> 0 .. Size],
         \A i \in Ids : /\ state[i] # "none" => state'[i] # "none"
                        /\ offset[i] <= offset'[i]
  PROVE  CallsInv'
<1>1. \A c \in Clients : call[c].item \in Ids \union {None} /\ call[c].offset \in 0 .. Size
  BY DEF TypeOK, Call
<1>2. \A i \in Ids : offset[i] \in 0 .. Size /\ offset'[i] \in 0 .. Size
  BY DEF TypeOK
<1>3. pc' = pc /\ call' = call /\ saved' = saved
  BY DEF client
<1>4. ASSUME NEW c \in Clients
      PROVE  CallOK(c, state, offset)'
  <2>1. CallOK(c, state, offset)
    BY DEF CallsInv
  <2>2. call[c].item # None =>
          state'[call[c].item] # "none" /\ call[c].offset <= offset'[call[c].item]
    <3>1. CASE call[c].item # None
      <4>1. call[c].item \in Ids
        BY <1>1, <3>1
      <4>2. call[c].offset <= offset[call[c].item] /\ state[call[c].item] # "none"
        BY <2>1, <3>1 DEF CallOK
      <4> QED
        BY <1>1, <1>2, <4>1, <4>2
    <3> QED
      BY <3>1
  <2> QED
    BY <1>3, <2>1, <2>2 DEF CallOK
<1>5. saved \in Ids \union {None}
  BY DEF TypeOK
<1> QED
  BY <1>3, <1>4, <1>5 DEF CallsInv

\* Fewer registrations under way, or more identifiers, are no harm.
LEMMA ReservedFrame ==
  ASSUME Reserved, Inserting' \subseteq Inserting, Unused' = Unused
  PROVE  Reserved'
<1>1. IsFiniteSet(Inserting) /\ IsFiniteSet(Unused)
  BY ClientBounds, FS_Subset DEF Inserting, Unused
<1>2. Cardinality(Inserting') <= Cardinality(Inserting)
  BY <1>1, FS_Subset
<1>3. /\ Cardinality(Inserting) \in Nat /\ Cardinality(Inserting') \in Nat
      /\ Cardinality(Unused) \in Nat
  BY <1>1, FS_Subset, FS_CardinalityType
<1> QED
  BY <1>2, <1>3 DEF Reserved

-----------------------------------------------------------------------------
(* Steps of the server that leave the items alone.                           *)

\* The new system is sound.
LEMMA InitialClientInv == Init => TypeOK /\ ClientInv
<1> SUFFICES ASSUME Init
             PROVE  TypeOK /\ ClientInv
  OBVIOUS
<1>1. TypeOK
  <2>1. state \in [Ids -> ItemState] /\ offset \in [Ids -> 0 .. Size] /\ shown \in [Ids -> 0 .. Size]
    BY ClientBounds DEF Init, ItemState
  <2>5. up \in BOOLEAN /\ released \in [Ids -> BOOLEAN] /\ raced \in BOOLEAN
    BY Zenon DEF Init
  <2>2. req \in [Slots -> Req] /\ call \in [Clients -> Call]
    BY InitialRecords DEF Init
  <2>3. saved \in Ids \union {None} /\ pc \in [Clients -> PCs]
    BY DEF Init, PCs, Ended
  <2>4. budget \in [calls : 0 .. MaxCalls, incidents : 0 .. MaxIncidents]
    BY ClientBounds DEF Init
  <2> QED
    BY <2>1, <2>2, <2>3, <2>4, <2>5 DEF TypeOK
<1>2. ItemsInv /\ OwnersInv
  BY DEF Init, ItemsInv, OwnersInv, NoReq
<1>3. RequestsInv
  BY DEF Init, RequestsInv, OneWriter, RequestOK, NoReq
<1>4. CallsInv
  BY DEF Init, CallsInv, CallOK, NoCall
<1>5. Inserting = {} /\ Fresh = {}
  BY DEF Init, Inserting, Fresh, Open, NoReq
<1>6. Reserved
  <2>1. IsFiniteSet(Unused)
    BY ClientBounds, FS_Subset DEF Unused
  <2>2. Cardinality(Unused) \in Nat /\ Cardinality(Inserting) = 0
    BY <1>5, <2>1, FS_CardinalityType, FS_EmptySet
  <2> QED
    BY <2>2 DEF Reserved
<1>7. OneFresh
  BY <1>5 DEF OneFresh
<1> QED
  BY <1>1, <1>2, <1>3, <1>4, <1>6, <1>7 DEF ClientInv

\* A refusal, or an error of the server.
LEMMA FailStep ==
  ASSUME TypeOK, ClientInv, NEW r \in Slots, Fail(r),
         UNCHANGED <<server, client, shown, released, raced>>,
         budget' \in [calls : 0 .. MaxCalls, incidents : 0 .. MaxIncidents]
  PROVE  TypeOK' /\ ClientInv'
<1>0. 0 \in 0 .. Size
  BY ClientBounds
<1>1. Answer(r, FALSE, None, 0) /\ 0 \in 0 .. Size
  BY <1>0, Zenon DEF Fail
<1>2. UNCHANGED <<state, offset, up, saved, pc, call>>
  BY DEF server, client
<1>3. req \in [Slots -> Req]
  BY DEF TypeOK
<1>4. req' \in [Slots -> Req]
  BY <1>1, <1>3, Answered
<1>5. TypeOK'
  BY <1>2, <1>4 DEF TypeOK
<1>6. RequestsInv'
  BY <1>1, <1>2, <1>3, AnswerRequests DEF ClientInv, RequestsInv
<1>7. OwnersInv'
  BY <1>1, <1>2, <1>3, AnswerOwners DEF ClientInv
<1>8. Inserting' \subseteq Inserting /\ Unused' = Unused /\ Fresh' = Fresh
  BY <1>1, <1>2, <1>3, AnswerInserting DEF Unused, Fresh, Open
<1>9. Reserved' /\ OneFresh'
  BY <1>8, ReservedFrame DEF ClientInv, OneFresh
<1>10. ItemsInv' /\ CallsInv'
  BY <1>2 DEF ClientInv, ItemsInv, CallsInv, CallOK
<1> QED
  BY <1>5, <1>6, <1>7, <1>9, <1>10 DEF ClientInv

\* A good answer that leaves the items alone.
LEMMA GoodAnswer ==
  ASSUME TypeOK, ClientInv, NEW r \in Slots, NEW i \in Ids, NEW n \in 0 .. Size,
         Answer(r, TRUE, i, n), state[i] # "none", n <= offset[i],
         req[r].owner # None /\ pc[req[r].owner] = "wait" => i = call[req[r].owner].item,
         UNCHANGED <<state, offset, up, client, budget, shown, released, raced>>
  PROVE  TypeOK' /\ ClientInv'
<1>2. UNCHANGED <<saved, pc, call>>
  BY DEF client
<1>3. req \in [Slots -> Req]
  BY DEF TypeOK
<1>4. req' \in [Slots -> Req]
  BY <1>3, Answered
<1>5. TypeOK'
  BY <1>2, <1>4 DEF TypeOK
<1>6. RequestsInv'
  BY <1>2, <1>3, AnswerRequests DEF ClientInv, RequestsInv
<1>7. OwnersInv'
  BY <1>2, <1>3, AnswerOwners DEF ClientInv
<1>8. Inserting' \subseteq Inserting /\ Unused' = Unused /\ Fresh' = Fresh
  BY <1>2, <1>3, AnswerInserting DEF Unused, Fresh, Open
<1>9. Reserved' /\ OneFresh'
  BY <1>8, ReservedFrame DEF ClientInv, OneFresh
<1>10. ItemsInv' /\ CallsInv'
  BY <1>2 DEF ClientInv, ItemsInv, CallsInv, CallOK
<1> QED
  BY <1>5, <1>6, <1>7, <1>9, <1>10 DEF ClientInv

\* A request that goes on to its next stage stays in the hands of its tab.
LEMMA StageOwners ==
  ASSUME OwnersInv, NEW r \in Slots, UNCHANGED <<pc, call>>,
         req \in [Slots -> Req], req' \in [Slots -> Req],
         \A q \in Slots \ {r} : req'[q] = req[q],
         req'[r].owner = req[r].owner, req'[r].item = req[r].item,
         req'[r].kind = req[r].kind,
         req[r].stage # "answered", req'[r].stage # "answered",
         req[r].kind = "patch" => req'[r].stage # "inserting"
  PROVE  OwnersInv'
<1>1. \A q \in Slots : req'[q].owner = req[q].owner
  OBVIOUS
<1>2. ASSUME NEW q \in Slots, req'[q].owner # None
      PROVE  /\ pc[req'[q].owner] \in {"register", "wait"}
             /\ pc[req'[q].owner] = "wait" =>
                  /\ req'[q].kind = "patch" /\ req'[q].stage # "inserting"
                  /\ req'[q].stage # "answered" \/ req'[q].ok
                       => req'[q].item = call[req'[q].owner].item
  <2>1. CASE q = r
    BY <1>2, <2>1 DEF OwnersInv
  <2>2. CASE q # r
    BY <1>2, <2>2 DEF OwnersInv
  <2> QED
    BY <2>1, <2>2
<1>3. \A p, q \in Slots : req'[q].owner # None /\ req'[q].owner = req'[p].owner => q = p
  BY <1>1 DEF OwnersInv
<1> QED
  BY <1>2, <1>3 DEF OwnersInv

\* A registration that found no incomplete item reserves an identifier.
LEMMA InsertingStep ==
  ASSUME TypeOK, ClientInv, NEW r \in Slots, req[r].stage = "sent", req[r].kind = "register",
         Open = {}, ~ Cardinality(Unused) <= Cardinality(Inserting),
         req' = [req EXCEPT ![r].stage = "inserting"],
         raced' = (raced \/ Inserting # {}),
         UNCHANGED <<server, client, budget, shown, released>>
  PROVE  TypeOK' /\ ClientInv'
<1>1. UNCHANGED <<state, offset, up, saved, pc, call>>
  BY DEF server, client
<1>2. req \in [Slots -> Req] /\ req[r] \in Req
  BY DEF TypeOK
<1>3. DEFINE p == [req[r] EXCEPT !.stage = "inserting"]
<1>4. /\ p \in Req /\ p.stage = "inserting" /\ p.locked = req[r].locked
      /\ p.owner = req[r].owner /\ p.kind = "register" /\ p.item = req[r].item
  BY <1>2 DEF Req, Stages
<1>5. req' = [req EXCEPT ![r] = p]
  BY <1>2
<1> HIDE DEF p
<1>6. /\ req' \in [Slots -> Req] /\ req'[r] = p
      /\ \A q \in Slots \ {r} : req'[q] = req[q]
  BY <1>2, <1>4, <1>5
<1>7. TypeOK'
  BY <1>1, <1>6 DEF TypeOK
<1>8. ~ req[r].locked /\ RequestOK(p, state, offset)
  BY <1>4 DEF ClientInv, RequestsInv, RequestOK
<1>9. RequestsInv'
  <2>1. OneWriter'
    BY <1>4, <1>6, <1>8 DEF ClientInv, RequestsInv, OneWriter
  <2>2. \A q \in Slots : RequestOK(req'[q], state, offset)
    BY <1>6, <1>8 DEF ClientInv, RequestsInv
  <2> QED
    BY <1>1, <2>1, <2>2 DEF RequestsInv
<1>10. OwnersInv'
  BY <1>1, <1>2, <1>4, <1>6, StageOwners DEF ClientInv
<1>11. Inserting' = Inserting \union {r} /\ r \notin Inserting
  BY <1>4, <1>6 DEF Inserting
<1>12. Unused' = Unused /\ Fresh' = Fresh /\ Open' = Open
  BY <1>1 DEF Unused, Fresh, Open
<1>13. Reserved'
  <2>1. IsFiniteSet(Inserting) /\ IsFiniteSet(Unused)
    BY ClientBounds, FS_Subset DEF Inserting, Unused
  <2>2. Cardinality(Inserting') = Cardinality(Inserting) + 1
    BY <1>11, <2>1, FS_AddElement
  <2>3. Cardinality(Inserting) \in Nat /\ Cardinality(Unused) \in Nat
    BY <2>1, FS_CardinalityType
  <2> QED
    BY <1>12, <2>2, <2>3 DEF Reserved
<1>14. OneFresh'
  BY <1>11, <1>12 DEF ClientInv, OneFresh, Fresh
<1>15. ItemsInv' /\ CallsInv'
  BY <1>1 DEF ClientInv, ItemsInv, CallsInv, CallOK
<1> QED
  BY <1>7, <1>9, <1>10, <1>13, <1>14, <1>15 DEF ClientInv

\* registerUpload up to its first await.
LEMMA AcceptRegisterStep ==
  ASSUME TypeOK, ClientInv, NEW r \in Slots, AcceptRegister(r)
  PROVE  TypeOK' /\ ClientInv'
<1>0. UNCHANGED <<state, offset, up>>
  BY DEF AcceptRegister, server
<1>1. CASE IncompleteMatch # {}
  <2>1. PICK i \in IncompleteMatch : Answer(r, TRUE, i, 0) /\ UNCHANGED raced
    BY <1>1 DEF AcceptRegister
  <2>2. i \in Ids /\ state[i] # "none" /\ 0 <= offset[i] /\ 0 \in 0 .. Size
    BY ClientBounds DEF TypeOK, IncompleteMatch, Open
  <2>3. req[r].owner # None => pc[req[r].owner] # "wait"
    BY DEF AcceptRegister, ClientInv, OwnersInv
  <2> QED
    BY <1>0, <2>1, <2>2, <2>3, GoodAnswer DEF AcceptRegister
<1>2. CASE IncompleteMatch = {} /\ Cardinality(Unused) <= Cardinality(Inserting)
  <2>1. Fail(r) /\ UNCHANGED <<server, client, shown, released, raced, budget>>
    BY <1>2 DEF AcceptRegister
  <2> QED
    BY <2>1, FailStep DEF TypeOK
<1>3. CASE IncompleteMatch = {} /\ ~ Cardinality(Unused) <= Cardinality(Inserting)
  BY <1>3, InsertingStep DEF AcceptRegister, IncompleteMatch
<1> QED
  BY <1>1, <1>2, <1>3

\* A replay whose item is not completed yet completes it.
LEMMA CompletingStep ==
  ASSUME TypeOK, ClientInv, NEW r \in Slots, req[r].stage = "sent", req[r].kind = "patch",
         req[r].chunk < offset[req[r].item], offset[req[r].item] = Size,
         req' = [req EXCEPT ![r].stage = "completing", ![r].result = offset[req[r].item]],
         UNCHANGED <<server, client, budget, shown, released, raced>>
  PROVE  TypeOK' /\ ClientInv'
<1>1. UNCHANGED <<state, offset, up, saved, pc, call>>
  BY DEF server, client
<1>2. req \in [Slots -> Req] /\ req[r] \in Req /\ Size \in 0 .. Size /\ Size # 0
  BY ClientBounds DEF TypeOK
<1>3. DEFINE p == [req[r] EXCEPT !.stage = "completing", !.result = Size]
<1>4. /\ p \in Req /\ p.stage = "completing" /\ p.locked = req[r].locked
      /\ p.owner = req[r].owner /\ p.kind = "patch" /\ p.item = req[r].item
      /\ p.result = Size
  BY <1>2 DEF Req, Stages
<1>5. req' = [req EXCEPT ![r] = p]
  BY <1>2
<1> HIDE DEF p
<1>6. /\ req' \in [Slots -> Req] /\ req'[r] = p
      /\ \A q \in Slots \ {r} : req'[q] = req[q]
  BY <1>2, <1>4, <1>5
<1>7. TypeOK'
  BY <1>1, <1>6 DEF TypeOK
<1>8. /\ ~ req[r].locked /\ req[r].item \in Ids
      /\ state[req[r].item] \notin {"none", "pending"}
  BY <1>2 DEF ClientInv, ItemsInv, RequestsInv, RequestOK
<1>9. RequestsInv'
  <2>1. OneWriter'
    BY <1>4, <1>6, <1>8 DEF ClientInv, RequestsInv, OneWriter
  <2>2. RequestOK(p, state, offset)
    BY <1>4, <1>8 DEF RequestOK
  <2>3. \A q \in Slots : RequestOK(req'[q], state, offset)
    BY <1>6, <2>2 DEF ClientInv, RequestsInv
  <2> QED
    BY <1>1, <2>1, <2>3 DEF RequestsInv
<1>10. OwnersInv'
  BY <1>1, <1>2, <1>4, <1>6, StageOwners DEF ClientInv
<1>11. Inserting' = Inserting /\ Unused' = Unused /\ Fresh' = Fresh
  BY <1>1, <1>4, <1>6 DEF Inserting, Unused, Fresh, Open
<1>12. Reserved' /\ OneFresh'
  BY <1>11 DEF ClientInv, Reserved, OneFresh
<1>13. ItemsInv' /\ CallsInv'
  BY <1>1 DEF ClientInv, ItemsInv, CallsInv, CallOK
<1> QED
  BY <1>7, <1>9, <1>10, <1>12, <1>13 DEF ClientInv

\* A checkpoint at the end of what is committed locks its item.
LEMMA WritingStep ==
  ASSUME TypeOK, ClientInv, NEW r \in Slots, req[r].stage = "sent", req[r].kind = "patch",
         state[req[r].item] \notin {"ready", "cancelled"}, req[r].chunk = offset[req[r].item],
         ~ Locked(req[r].item),
         req' = [req EXCEPT ![r].stage = "writing", ![r].locked = TRUE],
         UNCHANGED <<server, client, budget, shown, released, raced>>
  PROVE  TypeOK' /\ ClientInv'
<1>1. UNCHANGED <<state, offset, up, saved, pc, call>>
  BY DEF server, client
<1>2. req \in [Slots -> Req] /\ req[r] \in Req
  BY DEF TypeOK
<1>3. DEFINE p == [req[r] EXCEPT !.stage = "writing", !.locked = TRUE]
<1>4. /\ p \in Req /\ p.stage = "writing" /\ p.locked
      /\ p.owner = req[r].owner /\ p.kind = "patch" /\ p.item = req[r].item
      /\ p.chunk = req[r].chunk
  BY <1>2 DEF Req, Stages
<1>5. req' = [req EXCEPT ![r] = p]
  BY <1>2
<1> HIDE DEF p
<1>6. /\ req' \in [Slots -> Req] /\ req'[r] = p
      /\ \A q \in Slots \ {r} : req'[q] = req[q]
  BY <1>2, <1>4, <1>5
<1>7. TypeOK'
  BY <1>1, <1>6 DEF TypeOK
<1>8. req[r].item \in Ids /\ state[req[r].item] # "none" /\ req[r].chunk < Size
  BY DEF ClientInv, RequestsInv, RequestOK
<1>9. RequestsInv'
  <2>1. OneWriter'
    BY <1>4, <1>6 DEF ClientInv, RequestsInv, OneWriter, Locked
  <2>2. RequestOK(p, state, offset)
    BY <1>4, <1>8 DEF RequestOK
  <2>3. \A q \in Slots : RequestOK(req'[q], state, offset)
    BY <1>6, <2>2 DEF ClientInv, RequestsInv
  <2> QED
    BY <1>1, <2>1, <2>3 DEF RequestsInv
<1>10. OwnersInv'
  BY <1>1, <1>2, <1>4, <1>6, StageOwners DEF ClientInv
<1>11. Inserting' = Inserting /\ Unused' = Unused /\ Fresh' = Fresh
  BY <1>1, <1>4, <1>6 DEF Inserting, Unused, Fresh, Open
<1>12. Reserved' /\ OneFresh'
  BY <1>11 DEF ClientInv, Reserved, OneFresh
<1>13. ItemsInv' /\ CallsInv'
  BY <1>1 DEF ClientInv, ItemsInv, CallsInv, CallOK
<1> QED
  BY <1>7, <1>9, <1>10, <1>12, <1>13 DEF ClientInv

\* writeUploadCheckpoint up to its first await.
LEMMA AcceptPatchStep ==
  ASSUME TypeOK, ClientInv, NEW r \in Slots, AcceptPatch(r)
  PROVE  TypeOK' /\ ClientInv'
<1> DEFINE i == req[r].item
<1>0. /\ req[r].stage = "sent" /\ req[r].kind = "patch"
      /\ UNCHANGED <<server, client, budget, shown, released, raced>>
      /\ UNCHANGED <<state, offset, up>>
  BY DEF AcceptPatch, server
<1>1. i \in Ids /\ state[i] # "none" /\ offset[i] \in 0 .. Size
  BY <1>0 DEF ClientInv, RequestsInv, RequestOK, TypeOK
<1>2. CASE Fail(r)
  BY <1>0, <1>2, FailStep DEF TypeOK
<1>3. CASE Answer(r, TRUE, i, offset[i])
  <2>1. req[r].owner # None /\ pc[req[r].owner] = "wait" => i = call[req[r].owner].item
    BY <1>0 DEF ClientInv, OwnersInv
  <2>2. offset[i] <= offset[i]
    BY <1>1
  <2> QED
    BY <1>0, <1>1, <1>3, <2>1, <2>2, GoodAnswer
<1>4. CASE /\ req[r].chunk < offset[i] /\ offset[i] = Size
           /\ req' = [req EXCEPT ![r].stage = "completing", ![r].result = offset[i]]
  BY <1>0, <1>4, CompletingStep
<1>5. CASE /\ state[i] \notin {"ready", "cancelled"} /\ req[r].chunk = offset[i] /\ ~ Locked(i)
           /\ req' = [req EXCEPT ![r].stage = "writing", ![r].locked = TRUE]
  BY <1>0, <1>5, WritingStep
<1> QED
  BY <1>2, <1>3, <1>4, <1>5 DEF AcceptPatch

\* The request is refused, or the server fails at it.
LEMMA RefuseStep ==
  ASSUME TypeOK, ClientInv, NEW r \in Slots, Refuse(r) \/ ServerFails(r)
  PROVE  TypeOK' /\ ClientInv'
<1>1. budget' \in [calls : 0 .. MaxCalls, incidents : 0 .. MaxIncidents]
  BY IncidentType DEF Refuse, ServerFails, TypeOK
<1> QED
  BY <1>1, FailStep DEF Refuse, ServerFails

-----------------------------------------------------------------------------
(* Steps of the server that move an item.                                    *)

\* A request stays sound when an item moves, unless it is at work on that item.
LEMMA SoundWhenMoved ==
  ASSUME TypeOK, NEW q \in Slots, RequestOK(req[q], state, offset),
         NEW i \in Ids, NEW s \in ItemState \ {"none"}, NEW n \in 0 .. Size, offset[i] <= n,
         state' = [state EXCEPT ![i] = s], offset' = [offset EXCEPT ![i] = n],
         req[q].stage = "writing" /\ req[q].item = i => s # "ready" /\ n = offset[i],
         req[q].stage = "completing" /\ req[q].item = i => s # "pending" /\ n = offset[i]
  PROVE  RequestOK(req[q], state', offset')
<1>1. /\ state \in [Ids -> ItemState] /\ offset \in [Ids -> 0 .. Size] /\ req[q] \in Req
  BY DEF TypeOK
<1>2. /\ \A j \in Ids : state'[j] = IF j = i THEN s ELSE state[j]
      /\ \A j \in Ids : offset'[j] = IF j = i THEN n ELSE offset[j]
  BY <1>1
<1>3. /\ req[q].result \in 0 .. Size /\ \A j \in Ids : offset[j] \in 0 .. Size
  BY <1>1 DEF Req
<1>4. req[q].item \in Ids => offset[req[q].item] <= offset'[req[q].item]
  BY <1>2, <1>3
<1>5. req[q].stage = "answered" /\ req[q].ok => req[q].result <= offset'[req[q].item]
  BY <1>2, <1>3, <1>4 DEF RequestOK
<1> QED
  BY <1>2, <1>5 DEF RequestOK

\* Fewer open items and fewer registrations are no harm.
LEMMA OneFreshFrame ==
  ASSUME OneFresh, Fresh' \subseteq Fresh, Inserting' \subseteq Inserting, raced' = raced
  PROVE  OneFresh'
BY DEF OneFresh

\* registerUpload after its awaits: the item is inserted.
LEMMA InsertItemStep ==
  ASSUME TypeOK, ClientInv, NEW r \in Slots, InsertItem(r)
  PROVE  TypeOK' /\ ClientInv'
<1> DEFINE i == CHOOSE j \in Unused : TRUE
<1>1. UNCHANGED <<offset, up, saved, pc, call, budget, shown, released, raced>>
  BY DEF InsertItem, client
<1>2. r \in Inserting /\ IsFiniteSet(Inserting) /\ IsFiniteSet(Unused)
  BY ClientBounds, FS_Subset DEF InsertItem, Inserting, Unused
<1>3. Cardinality(Inserting \ {r}) = Cardinality(Inserting) - 1
  BY <1>2, FS_RemoveElement
<1>4. /\ Cardinality(Inserting) \in Nat /\ Cardinality(Inserting \ {r}) \in Nat
      /\ Cardinality(Unused) \in Nat
  BY <1>2, FS_RemoveElement, FS_CardinalityType
<1>5. Unused # {}
  <2>1. Cardinality(Unused) # 0
    BY <1>3, <1>4 DEF ClientInv, Reserved
  <2> QED
    BY <2>1, FS_EmptySet
<1>6. i \in Unused
  BY <1>5
<1>7. i \in Ids /\ state[i] = "none" /\ offset[i] = 0 /\ ~ released[i] /\ 0 \in 0 .. Size
  BY <1>6, ClientBounds DEF Unused, ClientInv, ItemsInv
<1>8. state' = [state EXCEPT ![i] = "pending"] /\ Answer(r, TRUE, i, 0) /\ UNCHANGED client
  BY DEF InsertItem
<1> HIDE DEF i
<1>9. /\ state \in [Ids -> ItemState] /\ req \in [Slots -> Req]
      /\ offset \in [Ids -> 0 .. Size]
  BY DEF TypeOK
<1>10. \A j \in Ids : state'[j] = IF j = i THEN "pending" ELSE state[j]
  BY <1>8, <1>9
<1>11. TypeOK'
  <2>1. req' \in [Slots -> Req]
    BY <1>7, <1>8, <1>9, Answered
  <2>2. state' \in [Ids -> ItemState]
    BY <1>8, <1>9 DEF ItemState
  <2> QED
    BY <1>1, <2>1, <2>2 DEF TypeOK
<1>12. RequestsInv'
  <2>1. \A q \in Slots \ {r} : RequestOK(req[q], state', offset')
    <3> SUFFICES ASSUME NEW q \in Slots \ {r}
                 PROVE  RequestOK(req[q], state', offset')
      OBVIOUS
    <3>1. RequestOK(req[q], state, offset)
      BY DEF ClientInv, RequestsInv
    <3> QED
      BY <1>1, <1>7, <1>10, <3>1 DEF RequestOK
  <2>2. state'[i] # "none" /\ 0 <= offset'[i]
    BY <1>1, <1>7, <1>10
  <2> QED
    BY <1>7, <1>8, <1>9, <2>1, <2>2, AnswerRequests DEF ClientInv, RequestsInv
<1>13. OwnersInv'
  <2>1. req[r].owner # None => pc[req[r].owner] # "wait"
    BY DEF InsertItem, ClientInv, OwnersInv
  <2> QED
    BY <1>1, <1>7, <1>8, <1>9, <2>1, AnswerOwners DEF ClientInv
<1>14. CallsInv'
  <2>1. \A j \in Ids : /\ state[j] # "none" => state'[j] # "none"
                       /\ offset[j] <= offset'[j]
    BY <1>1, <1>9, <1>10
  <2> QED
    BY <1>1, <1>8, <1>9, <2>1, CallsFrame DEF ClientInv
<1>15. ItemsInv'
  BY <1>1, <1>7, <1>10 DEF ClientInv, ItemsInv
<1>16. Inserting' = Inserting \ {r}
  BY <1>7, <1>8, <1>9, AnswerInserting
<1>17. Reserved'
  <2>1. Unused' = Unused \ {i}
    BY <1>10 DEF Unused
  <2>2. Cardinality(Unused') = Cardinality(Unused) - 1
    BY <1>2, <1>6, <2>1, FS_RemoveElement
  <2> QED
    BY <1>3, <1>4, <1>16, <2>2 DEF ClientInv, Reserved
<1>18. OneFresh'
  <2>1. Fresh' = Fresh \union {i}
    BY <1>1, <1>7, <1>10 DEF Fresh, Open
  <2>2. ~ raced => Fresh = {} /\ Inserting' = {}
    BY <1>2, <1>16 DEF ClientInv, OneFresh
  <2> QED
    BY <1>1, <2>1, <2>2 DEF OneFresh
<1> QED
  BY <1>11, <1>12, <1>13, <1>14, <1>15, <1>17, <1>18 DEF ClientInv

\* A checkpoint is committed: the only writer of the item moves it on.
LEMMA CommitStep ==
  ASSUME TypeOK, ClientInv, NEW r \in Slots, CommitCheckpoint(r)
  PROVE  TypeOK' /\ ClientInv'
<1> DEFINE i == req[r].item
           next == req[r].chunk + 1
<1>1. UNCHANGED <<up, client, saved, pc, call, shown, released, raced>>
  BY DEF CommitCheckpoint, client
<1>2. /\ state \in [Ids -> ItemState] /\ req \in [Slots -> Req] /\ req[r] \in Req
      /\ offset \in [Ids -> 0 .. Size]
  BY DEF TypeOK
<1>3. /\ req[r].stage = "writing" /\ i \in Ids /\ state[i] \notin {"none", "ready"}
      /\ req[r].chunk = offset[i] /\ offset[i] < Size /\ req[r].locked
  BY DEF CommitCheckpoint, ClientInv, RequestsInv, RequestOK
<1>4. offset[i] \in 0 .. Size /\ next = offset[i] + 1 /\ next \in 0 .. Size /\ Size \in Nat
      /\ next <= next /\ 0 \in 0 .. Size /\ offset[i] <= next
  BY <1>2, <1>3, ClientBounds
<1>5. state' = [state EXCEPT ![i] = "transferring"] /\ offset' = [offset EXCEPT ![i] = next]
  BY DEF CommitCheckpoint
<1>6. \/ Incident /\ Fail(r)
      \/ UNCHANGED budget /\ Answer(r, TRUE, i, next)
      \/ /\ UNCHANGED budget /\ next = Size
         /\ req' = [req EXCEPT ![r].stage = "completing", ![r].result = next]
  BY DEF CommitCheckpoint
<1> HIDE DEF next
<1>7. /\ \A j \in Ids : state'[j] = IF j = i THEN "transferring" ELSE state[j]
      /\ \A j \in Ids : offset'[j] = IF j = i THEN next ELSE offset[j]
      /\ state' \in [Ids -> ItemState] /\ offset' \in [Ids -> 0 .. Size]
  BY <1>2, <1>3, <1>4, <1>5 DEF ItemState
<1>8. \A q \in Slots \ {r} : RequestOK(req[q], state', offset')
  <2> SUFFICES ASSUME NEW q \in Slots \ {r}
               PROVE  RequestOK(req[q], state', offset')
    OBVIOUS
  <2>1. RequestOK(req[q], state, offset)
    BY DEF ClientInv, RequestsInv
  <2>2. ~ (req[q].stage = "writing" /\ req[q].item = i)
    BY <1>3, <2>1 DEF RequestOK, ClientInv, RequestsInv, OneWriter
  <2>3. ~ (req[q].stage = "completing" /\ req[q].item = i)
    BY <1>3, <1>4, <2>1 DEF RequestOK
  <2> QED
    BY <1>3, <1>4, <1>5, <2>1, <2>2, <2>3, SoundWhenMoved DEF ItemState
<1>9. budget' \in [calls : 0 .. MaxCalls, incidents : 0 .. MaxIncidents]
  BY <1>6, IncidentType DEF TypeOK
<1>10. req[r].owner # None /\ pc[req[r].owner] = "wait" => i = call[req[r].owner].item
  BY <1>3 DEF ClientInv, OwnersInv
<1>11. /\ req' \in [Slots -> Req] /\ RequestsInv' /\ OwnersInv'
       /\ Inserting' \subseteq Inserting
  <2>1. CASE Incident /\ Fail(r)
    <3>1. Answer(r, FALSE, None, 0)
      BY <2>1, Zenon DEF Fail
    <3> QED
      BY <1>1, <1>2, <1>4, <1>8, <3>1, Answered, AnswerRequests, AnswerOwners, AnswerInserting
         DEF ClientInv, RequestsInv
  <2>2. CASE Answer(r, TRUE, i, next)
    <3>1. state'[i] # "none" /\ next <= offset'[i]
      BY <1>3, <1>4, <1>7
    <3> QED
      BY <1>1, <1>2, <1>3, <1>4, <1>8, <1>10, <2>2, <3>1, Answered, AnswerRequests,
         AnswerOwners, AnswerInserting DEF ClientInv, RequestsInv
  <2>3. CASE /\ next = Size
             /\ req' = [req EXCEPT ![r].stage = "completing", ![r].result = next]
    <3> DEFINE p == [req[r] EXCEPT !.stage = "completing", !.result = next]
    <3>1. /\ p \in Req /\ p.stage = "completing" /\ p.locked = req[r].locked
          /\ p.owner = req[r].owner /\ p.kind = req[r].kind /\ p.item = i
          /\ p.result = next
      BY <1>2, <1>4 DEF Req, Stages
    <3>2. req' = [req EXCEPT ![r] = p]
      BY <1>2, <2>3
    <3> HIDE DEF p
    <3>3. /\ req' \in [Slots -> Req] /\ req'[r] = p
          /\ \A q \in Slots \ {r} : req'[q] = req[q]
      BY <1>2, <3>1, <3>2
    <3>4. RequestOK(p, state', offset')
      BY <1>3, <1>7, <2>3, <3>1 DEF RequestOK
    <3>5. OneWriter'
      BY <3>1, <3>3 DEF ClientInv, RequestsInv, OneWriter
    <3>6. RequestsInv'
      BY <1>8, <3>3, <3>4, <3>5 DEF RequestsInv
    <3>7. OwnersInv'
      BY <1>1, <1>2, <1>3, <3>1, <3>3, StageOwners DEF ClientInv
    <3>8. Inserting' \subseteq Inserting
      BY <3>1, <3>3 DEF Inserting
    <3> QED
      BY <3>3, <3>6, <3>7, <3>8
  <2> QED
    BY <1>6, <2>1, <2>2, <2>3
<1>12. TypeOK'
  BY <1>1, <1>7, <1>9, <1>11 DEF TypeOK
<1>13. ItemsInv'
  BY <1>1, <1>7 DEF ClientInv, ItemsInv
<1>14. CallsInv'
  <2>1. \A j \in Ids : /\ state[j] # "none" => state'[j] # "none"
                       /\ offset[j] <= offset'[j]
    BY <1>2, <1>4, <1>7
  <2> QED
    BY <1>1, <1>7, <2>1, CallsFrame DEF ClientInv
<1>15. Unused' = Unused
  BY <1>3, <1>7 DEF Unused
<1>16. Fresh' \subseteq Fresh
  <2>1. state[i] \in {"pending", "transferring", "cancelled"}
    BY <1>2, <1>3 DEF ItemState
  <2>2. state[i] = "cancelled" => released[i]
    BY <1>3 DEF ClientInv, ItemsInv
  <2> QED
    BY <1>1, <1>3, <1>7, <2>1, <2>2 DEF Fresh, Open
<1>17. Reserved' /\ OneFresh'
  BY <1>1, <1>11, <1>15, <1>16, ReservedFrame, OneFreshFrame DEF ClientInv
<1> QED
  BY <1>11, <1>12, <1>13, <1>14, <1>17 DEF ClientInv

\* An item that goes on to a later state while no request writes it, and what has to
\* be said of the requests besides.
LEMMA ItemMoves ==
  ASSUME TypeOK, ClientInv, NEW i \in Ids, NEW s \in {"ready", "cancelled"},
         state[i] # "none", state' = [state EXCEPT ![i] = s],
         UNCHANGED <<offset, up, client, shown, raced>>,
         s = "ready" => offset[i] = Size /\ released' = released,
         s = "cancelled" => released' = [released EXCEPT ![i] = TRUE]
  PROVE  /\ state' \in [Ids -> ItemState] /\ released' \in [Ids -> BOOLEAN]
         /\ ItemsInv' /\ CallsInv' /\ Unused' = Unused /\ Fresh' \subseteq Fresh
         /\ \A q \in Slots : RequestOK(req[q], state', offset')
<1>1. /\ state \in [Ids -> ItemState] /\ offset \in [Ids -> 0 .. Size]
      /\ released \in [Ids -> BOOLEAN] /\ req \in [Slots -> Req]
  BY DEF TypeOK
<1>2. state' \in [Ids -> ItemState] /\ \A j \in Ids : state'[j] = IF j = i THEN s ELSE state[j]
  BY <1>1 DEF ItemState
<1>3. released' \in [Ids -> BOOLEAN]
  <2>1. released' = released \/ released' = [released EXCEPT ![i] = TRUE]
    OBVIOUS
  <2> QED
    BY <1>1, <2>1, Zenon
<1>4. \A j \in Ids : released'[j] <=> released[j] \/ (j = i /\ s = "cancelled")
  BY <1>1
<1>5. ItemsInv'
  BY <1>2, <1>4 DEF ClientInv, ItemsInv
<1>6. CallsInv'
  <2>1. \A j \in Ids : /\ state[j] # "none" => state'[j] # "none"
                       /\ offset[j] <= offset'[j]
    BY <1>1, <1>2
  <2> QED
    BY <1>1, <2>1, CallsFrame DEF ClientInv
<1>7. Unused' = Unused /\ Fresh' \subseteq Fresh
  BY <1>2, <1>4 DEF Unused, Fresh, Open
<1>8. ASSUME NEW q \in Slots
      PROVE  RequestOK(req[q], state', offset')
  <2>1. RequestOK(req[q], state, offset)
    BY DEF ClientInv, RequestsInv
  <2>2. offset[i] \in 0 .. Size /\ offset[i] <= offset[i] /\ offset' = [offset EXCEPT ![i] = offset[i]]
    BY <1>1
  <2>3. req[q].stage = "writing" /\ req[q].item = i => s # "ready"
    BY <2>1, <2>2, ClientBounds DEF RequestOK
  <2> QED
    BY <2>1, <2>2, <2>3, SoundWhenMoved DEF ItemState
<1> QED
  BY <1>2, <1>3, <1>5, <1>6, <1>7, <1>8

\* The upload is completed, or the request finds that somebody else ended it.
LEMMA CompleteStep ==
  ASSUME TypeOK, ClientInv, NEW r \in Slots, CompleteUpload(r)
  PROVE  TypeOK' /\ ClientInv'
<1> DEFINE i == req[r].item
<1>1. UNCHANGED <<offset, up, client, saved, pc, call, budget, shown, released, raced>>
  BY DEF CompleteUpload, client
<1>2. /\ req[r].stage = "completing" /\ i \in Ids /\ state[i] \notin {"none", "pending"}
      /\ offset[i] = Size /\ req[r].result = Size
  BY DEF CompleteUpload, ClientInv, RequestsInv, RequestOK
<1>3. Size \in 0 .. Size /\ Size <= Size
  BY ClientBounds
<1>4. req[r].owner # None /\ pc[req[r].owner] = "wait" => i = call[req[r].owner].item
  BY <1>2 DEF ClientInv, OwnersInv
<1>5. CASE UNCHANGED state /\ Answer(r, TRUE, i, Size)
  BY <1>1, <1>2, <1>3, <1>4, <1>5, GoodAnswer
<1>6. CASE UNCHANGED state /\ Fail(r)
  <2>1. UNCHANGED server
    BY <1>1, <1>6 DEF server
  <2> QED
    BY <1>1, <1>6, <2>1, FailStep DEF TypeOK
<1>7. CASE state' = [state EXCEPT ![i] = "ready"] /\ Answer(r, TRUE, i, Size)
  <2>1. /\ state' \in [Ids -> ItemState]
        /\ ItemsInv' /\ CallsInv' /\ Unused' = Unused /\ Fresh' \subseteq Fresh
        /\ \A q \in Slots : RequestOK(req[q], state', offset')
    BY <1>1, <1>2, <1>7, ItemMoves
  <2>2. req \in [Slots -> Req] /\ state'[i] = "ready"
    BY <1>2, <1>7 DEF TypeOK
  <2>3. req' \in [Slots -> Req] /\ Inserting' \subseteq Inserting
    BY <1>2, <1>3, <1>7, <2>2, Answered, AnswerInserting
  <2>4. RequestsInv'
    BY <1>1, <1>2, <1>3, <1>7, <2>1, <2>2, AnswerRequests DEF ClientInv, RequestsInv
  <2>5. OwnersInv'
    BY <1>1, <1>2, <1>3, <1>4, <1>7, <2>2, AnswerOwners DEF ClientInv
  <2>6. Reserved' /\ OneFresh'
    BY <1>1, <2>1, <2>3, ReservedFrame, OneFreshFrame DEF ClientInv
  <2>7. TypeOK'
    BY <1>1, <2>1, <2>3 DEF TypeOK
  <2> QED
    BY <2>1, <2>4, <2>5, <2>6, <2>7 DEF ClientInv
<1> QED
  BY <1>2, <1>5, <1>6, <1>7 DEF CompleteUpload

\* A participant cancels an item, or startup completes it.
LEMMA MoveStep ==
  ASSUME TypeOK, ClientInv, NEW i \in Ids, Cancel(i) \/ Recover(i)
  PROVE  TypeOK' /\ ClientInv'
<1>1. UNCHANGED <<offset, up, req, client, saved, pc, call, shown, raced>>
  BY DEF Cancel, Recover, client
<1>2. budget' \in [calls : 0 .. MaxCalls, incidents : 0 .. MaxIncidents]
  BY IncidentType DEF Cancel, Recover, TypeOK
<1>3. /\ state' \in [Ids -> ItemState] /\ released' \in [Ids -> BOOLEAN]
      /\ ItemsInv' /\ CallsInv' /\ Unused' = Unused /\ Fresh' \subseteq Fresh
      /\ \A q \in Slots : RequestOK(req[q], state', offset')
  <2>1. CASE Cancel(i)
    BY <1>1, <2>1, ItemMoves DEF Cancel
  <2>2. CASE Recover(i)
    BY <1>1, <2>2, ItemMoves DEF Recover, Unfinished
  <2> QED
    BY <2>1, <2>2
<1>4. TypeOK'
  BY <1>1, <1>2, <1>3 DEF TypeOK
<1>5. RequestsInv' /\ OwnersInv' /\ Inserting' = Inserting
  BY <1>1, <1>3 DEF ClientInv, RequestsInv, OneWriter, OwnersInv, Inserting
<1>6. Reserved' /\ OneFresh'
  BY <1>1, <1>3, <1>5, ReservedFrame, OneFreshFrame DEF ClientInv
<1> QED
  BY <1>3, <1>4, <1>5, <1>6 DEF ClientInv

\* The process dies: every request under way is gone, and its tab told so.
LEMMA CrashStep ==
  ASSUME TypeOK, ClientInv, Crash
  PROVE  TypeOK' /\ ClientInv'
<1>1. UNCHANGED <<state, offset, client, saved, pc, call, shown, released, raced>>
  BY DEF Crash, client
<1>2. budget' \in [calls : 0 .. MaxCalls, incidents : 0 .. MaxIncidents] /\ up' \in BOOLEAN
  BY IncidentType DEF Crash, TypeOK
<1>3. \A w \in Clients \union {None} :
        LET a == [NoReq EXCEPT !.stage = "answered", !.owner = w]
        IN  /\ a \in Req /\ a.kind = "patch" /\ ~ a.locked /\ ~ a.ok
            /\ a.stage = "answered" /\ a.owner = w
  <2>1. NoReq \in Req /\ NoReq.kind = "patch" /\ ~ NoReq.locked /\ ~ NoReq.ok
    BY InitialRecords DEF NoReq
  <2>2. \A p \in Req, w \in Clients \union {None} :
          LET a == [p EXCEPT !.stage = "answered", !.owner = w]
          IN  /\ a \in Req /\ a.kind = p.kind /\ a.locked = p.locked /\ a.ok = p.ok
              /\ a.stage = "answered" /\ a.owner = w
    BY DEF Req, Stages
  <2> QED
    BY <2>1, <2>2
<1>4. req \in [Slots -> Req] /\ \A r \in Slots : req[r].owner \in Clients \union {None}
  BY DEF TypeOK, Req
<1>5. \A r \in Slots :
        req'[r] = IF req[r].owner = None THEN NoReq
                  ELSE [NoReq EXCEPT !.stage = "answered", !.owner = req[r].owner]
  BY DEF Crash
<1>6. \A r \in Slots :
        /\ req'[r] \in Req /\ req'[r].owner = req[r].owner
        /\ req'[r].kind = "patch" /\ ~ req'[r].locked /\ ~ req'[r].ok
        /\ req'[r].stage \in {"free", "answered"}
        /\ req'[r].stage = "answered" \/ req'[r].owner = None
  <2>1. /\ NoReq \in Req /\ NoReq.kind = "patch" /\ ~ NoReq.locked /\ ~ NoReq.ok
        /\ NoReq.stage = "free" /\ NoReq.owner = None
    BY InitialRecords DEF NoReq
  <2> SUFFICES ASSUME NEW r \in Slots
               PROVE  /\ req'[r] \in Req /\ req'[r].owner = req[r].owner
                      /\ req'[r].kind = "patch" /\ ~ req'[r].locked /\ ~ req'[r].ok
                      /\ req'[r].stage \in {"free", "answered"}
                      /\ req'[r].stage = "answered" \/ req'[r].owner = None
    OBVIOUS
  <2> DEFINE a == [NoReq EXCEPT !.stage = "answered", !.owner = req[r].owner]
  <2>2. /\ a \in Req /\ a.kind = "patch" /\ ~ a.locked /\ ~ a.ok
        /\ a.stage = "answered" /\ a.owner = req[r].owner
    BY <1>3, <1>4
  <2>3. req'[r] = IF req[r].owner = None THEN NoReq ELSE a
    BY <1>5
  <2> HIDE DEF a
  <2> QED
    BY <2>1, <2>2, <2>3
<1>7. req' \in [Slots -> Req]
  BY <1>6 DEF Crash
<1>8. TypeOK'
  BY <1>1, <1>2, <1>7 DEF TypeOK
<1>9. RequestsInv'
  BY <1>6 DEF RequestsInv, OneWriter, RequestOK
<1>10. OwnersInv'
  BY <1>1, <1>6 DEF ClientInv, OwnersInv
<1>11. Inserting' = {} /\ Unused' = Unused /\ Fresh' = Fresh
  BY <1>1, <1>6 DEF Inserting, Unused, Fresh, Open
<1>12. Reserved' /\ OneFresh'
  BY <1>1, <1>11, ReservedFrame, OneFreshFrame DEF ClientInv
<1>13. ItemsInv' /\ CallsInv'
  BY <1>1 DEF ClientInv, ItemsInv, CallsInv, CallOK
<1> QED
  BY <1>8, <1>9, <1>10, <1>12, <1>13 DEF ClientInv

-----------------------------------------------------------------------------
(* Steps of a tab.                                                           *)

\* What a tab may know when it goes on to l with the variables k.
Fits(l, k) ==
  /\ l \in {"look", "list", "status", "loop", "wait", "ask", "final", "done"} => k.item # None
  /\ k.item # None => state[k.item] # "none" /\ k.offset <= offset[k.item]
  /\ l = "register" => k = NoCall
  /\ l \in {"final", "done"} => k.offset = Size
  /\ l \in {"loop", "wait"} => k.attempt < MaxAttempts

\* Whatever tab c does to its own place, the rest stays sound.
LEMMA TabMoves ==
  ASSUME TypeOK, ClientInv, NEW c \in Clients, NEW l \in PCs, NEW k \in Call, Fits(l, k),
         pc' = [pc EXCEPT ![c] = l], call' = [call EXCEPT ![c] = k],
         saved' \in Ids \union {None}, saved' # None => state[saved'] # "none",
         UNCHANGED <<server, released, raced>>, shown' \in [Ids -> 0 .. Size],
         budget' \in [calls : 0 .. MaxCalls, incidents : 0 .. MaxIncidents],
         req' \in [Slots -> Req], RequestsInv', OwnersInv', Inserting' \subseteq Inserting
  PROVE  TypeOK' /\ ClientInv'
<1>1. UNCHANGED <<state, offset, up>>
  BY DEF server
<1>2. pc \in [Clients -> PCs] /\ call \in [Clients -> Call]
  BY DEF TypeOK
<1>3. TypeOK'
  BY <1>1, <1>2 DEF TypeOK
<1>4. CallsInv'
  <2>1. ASSUME NEW d \in Clients
        PROVE  CallOK(d, state, offset)'
    <3>1. CASE d = c
      BY <1>1, <1>2, <3>1 DEF CallOK, Fits
    <3>2. CASE d # c
      <4>1. pc'[d] = pc[d] /\ call'[d] = call[d]
        BY <1>2, <3>2
      <4> QED
        BY <1>1, <4>1 DEF ClientInv, CallsInv, CallOK
    <3> QED
      BY <3>1, <3>2
  <2> QED
    BY <1>1, <2>1 DEF CallsInv
<1>5. ItemsInv' /\ Unused' = Unused /\ Fresh' = Fresh
  BY <1>1 DEF ClientInv, ItemsInv, Unused, Fresh, Open
<1>6. Reserved' /\ OneFresh'
  BY <1>5, ReservedFrame, OneFreshFrame DEF ClientInv
<1> QED
  BY <1>3, <1>4, <1>5, <1>6 DEF ClientInv

\* Requests are dropped, or go on without their tab.
LEMMA RequestsThinned ==
  ASSUME TypeOK, RequestsInv, UNCHANGED server,
         req' = [r \in Slots |-> req'[r]],
         \A r \in Slots : \/ req'[r] = NoReq \/ req'[r] = req[r]
                          \/ req'[r] = [req[r] EXCEPT !.owner = None]
  PROVE  req' \in [Slots -> Req] /\ RequestsInv' /\ Inserting' \subseteq Inserting
<1>1. UNCHANGED <<state, offset>> /\ req \in [Slots -> Req]
  BY DEF server, TypeOK
<1>2. ASSUME NEW r \in Slots
      PROVE  /\ req'[r] \in Req
             /\ \/ req'[r] = NoReq
                \/ /\ req'[r].stage = req[r].stage /\ req'[r].kind = req[r].kind
                   /\ req'[r].item = req[r].item /\ req'[r].chunk = req[r].chunk
                   /\ req'[r].locked = req[r].locked /\ req'[r].ok = req[r].ok
                   /\ req'[r].result = req[r].result
  <2>1. CASE req'[r] = NoReq
    BY <2>1, InitialRecords
  <2>2. CASE req'[r] = req[r]
    BY <1>1, <2>2
  <2>3. CASE req'[r] = [req[r] EXCEPT !.owner = None]
    BY <1>1, <2>3 DEF Req
  <2> QED
    BY <2>1, <2>2, <2>3
<1>3. /\ NoReq.stage = "free" /\ ~ NoReq.locked /\ NoReq.owner = None
  BY DEF NoReq
<1>4. req' \in [Slots -> Req]
  BY <1>2
<1>5. OneWriter'
  BY <1>2, <1>3 DEF RequestsInv, OneWriter
<1>6. ASSUME NEW r \in Slots
      PROVE  RequestOK(req'[r], state, offset)
  <2>1. RequestOK(req[r], state, offset)
    BY DEF RequestsInv
  <2>2. CASE req'[r] = NoReq
    BY <1>3, <2>2 DEF RequestOK
  <2>3. CASE req'[r] # NoReq
    BY <1>2, <2>1, <2>3 DEF RequestOK
  <2> QED
    BY <2>2, <2>3
<1>7. Inserting' \subseteq Inserting
  BY <1>2, <1>3 DEF Inserting
<1> QED
  BY <1>1, <1>4, <1>5, <1>6, <1>7 DEF RequestsInv

\* A tab that waits for nothing may go anywhere.
LEMMA OwnersDropped ==
  ASSUME OwnersInv, NEW c \in Clients, None \notin Clients,
         \A d \in Clients \ {c} : pc'[d] = pc[d] /\ call'[d] = call[d],
         \A r \in Slots : req'[r].owner # c /\ req'[r].owner \in Clients \union {None},
         \A r \in Slots : req'[r].owner # None => req'[r] = req[r]
  PROVE  OwnersInv'
<1>1. ASSUME NEW r \in Slots, req'[r].owner # None
      PROVE  /\ pc'[req'[r].owner] \in {"register", "wait"}
             /\ pc'[req'[r].owner] = "wait" =>
                  /\ req'[r].kind = "patch" /\ req'[r].stage # "inserting"
                  /\ req'[r].stage # "answered" \/ req'[r].ok
                       => req'[r].item = call'[req'[r].owner].item
  <2>1. req'[r] = req[r] /\ req[r].owner \in Clients \ {c}
    BY <1>1
  <2> QED
    BY <1>1, <2>1 DEF OwnersInv
<1>2. \A q, r \in Slots : req'[q].owner # None /\ req'[q].owner = req'[r].owner => q = r
  BY DEF OwnersInv
<1> QED
  BY <1>1, <1>2 DEF OwnersInv

\* A tab that is not waiting for an answer goes on without a request.
LEMMA QuietMove ==
  ASSUME TypeOK, ClientInv, NEW c \in Clients, NEW l \in PCs, NEW k \in Call, Fits(l, k),
         pc[c] \notin {"register", "wait"},
         pc' = [pc EXCEPT ![c] = l], call' = [call EXCEPT ![c] = k],
         saved' \in Ids \union {None}, saved' # None => state[saved'] # "none",
         UNCHANGED <<server, req, released, raced>>, shown' \in [Ids -> 0 .. Size],
         budget' \in [calls : 0 .. MaxCalls, incidents : 0 .. MaxIncidents]
  PROVE  TypeOK' /\ ClientInv'
<1>1. /\ req \in [Slots -> Req] /\ pc \in [Clients -> PCs] /\ call \in [Clients -> Call]
      /\ \A r \in Slots : req[r].owner \in Clients \union {None}
  BY DEF TypeOK, Req
<1>2. \A r \in Slots : req[r].owner # c
  BY ClientBounds DEF ClientInv, OwnersInv
<1>3. \A d \in Clients \ {c} : pc'[d] = pc[d] /\ call'[d] = call[d]
  BY <1>1
<1>4. OwnersInv'
  BY <1>1, <1>2, <1>3, OwnersDropped, ClientBounds DEF ClientInv
<1>5. req' \in [Slots -> Req] /\ RequestsInv' /\ Inserting' \subseteq Inserting
  BY <1>1, RequestsThinned DEF ClientInv
<1> QED
  BY <1>4, <1>5, TabMoves

\* A tab that gives up or takes its answers goes on.
LEMMA LooseMove ==
  ASSUME TypeOK, ClientInv, NEW c \in Clients, NEW l \in PCs, NEW k \in Call, Fits(l, k),
         pc' = [pc EXCEPT ![c] = l], call' = [call EXCEPT ![c] = k],
         saved' \in Ids \union {None}, saved' # None => state[saved'] # "none",
         UNCHANGED <<server, released, raced>>, shown' \in [Ids -> 0 .. Size],
         budget' \in [calls : 0 .. MaxCalls, incidents : 0 .. MaxIncidents],
         req' = [r \in Slots |-> req'[r]],
         \A r \in Slots : \/ req'[r] = NoReq
                          \/ req'[r] = req[r] /\ req[r].owner # c
                          \/ req'[r] = [req[r] EXCEPT !.owner = None]
  PROVE  TypeOK' /\ ClientInv'
<1>1. /\ req \in [Slots -> Req] /\ pc \in [Clients -> PCs] /\ call \in [Clients -> Call]
      /\ \A r \in Slots : req[r].owner \in Clients \union {None}
  BY DEF TypeOK, Req
<1>2. req' \in [Slots -> Req] /\ RequestsInv' /\ Inserting' \subseteq Inserting
  BY RequestsThinned DEF ClientInv
<1>3. ASSUME NEW r \in Slots
      PROVE  /\ req'[r].owner # c /\ req'[r].owner \in Clients \union {None}
             /\ req'[r].owner # None => req'[r] = req[r]
  <2>1. NoReq.owner = None /\ [req[r] EXCEPT !.owner = None].owner = None
    BY <1>1 DEF NoReq, Req
  <2> QED
    BY <1>1, <2>1, ClientBounds
<1>4. \A d \in Clients \ {c} : pc'[d] = pc[d] /\ call'[d] = call[d]
  BY <1>1
<1>5. OwnersInv'
  BY <1>3, <1>4, OwnersDropped, ClientBounds DEF ClientInv
<1> QED
  BY <1>2, <1>5, TabMoves

\* A call that the tab keeps still fits.
LEMMA KeepsFit ==
  ASSUME TypeOK, ClientInv, NEW c \in Clients
  PROVE  /\ call[c] \in Call /\ call[c].item \in Ids \union {None}
         /\ call[c].offset \in 0 .. Size
         /\ pc[c] \in {"look", "list", "status", "loop", "wait", "ask", "final", "done"}
              => call[c].item \in Ids
         /\ call[c].item # None => /\ state[call[c].item] # "none"
                                   /\ call[c].offset <= offset[call[c].item]
BY DEF TypeOK, Call, ClientInv, CallsInv, CallOK

\* The progress shown is typed.
LEMMA ReportedType ==
  ASSUME shown \in [Ids -> 0 .. Size], NEW i \in Ids, NEW n \in 0 .. Size, Reported(i, n)
  PROVE  shown' \in [Ids -> 0 .. Size]
BY DEF Reported

\* The tab goes on from an offset that is committed.
LEMMA ContinueMove ==
  ASSUME TypeOK, ClientInv, NEW c \in Clients, NEW n \in 0 .. Size,
         pc[c] \in {"list", "status", "ask", "wait"}, Continue(c, n), n <= offset[call[c].item],
         UNCHANGED <<server, released, raced>>,
         budget' \in [calls : 0 .. MaxCalls, incidents : 0 .. MaxIncidents],
         \/ UNCHANGED req /\ pc[c] # "wait"
         \/ /\ req' = [r \in Slots |-> req'[r]]
            /\ \A r \in Slots : \/ req'[r] = NoReq
                                \/ req'[r] = req[r] /\ req[r].owner # c
  PROVE  TypeOK' /\ ClientInv'
<1> DEFINE k == [call[c] EXCEPT !.offset = n, !.attempt = 0]
<1>1. call[c].item \in Ids /\ call[c] \in Call /\ state[call[c].item] # "none"
  BY KeepsFit, ClientBounds
<1>2. 0 \in 0 .. MaxAttempts
  BY ClientBounds
<1>3. k \in Call /\ k.item = call[c].item /\ k.offset = n /\ k.attempt = 0
  BY <1>1, <1>2 DEF Call
<1>4. call' = [call EXCEPT ![c] = k]
  BY DEF Continue, TypeOK
<1> HIDE DEF k
<1>5. Fits("loop", k) /\ "loop" \in PCs
  BY <1>1, <1>3, ClientBounds DEF Fits, PCs
<1>6. shown' \in [Ids -> 0 .. Size]
  BY <1>1, ReportedType DEF Continue, TypeOK
<1>7. /\ pc' = [pc EXCEPT ![c] = "loop"] /\ saved' \in Ids \union {None}
      /\ state[saved'] # "none"
  BY <1>1 DEF Continue, Goto
<1> QED
  BY <1>3, <1>4, <1>5, <1>6, <1>7, QuietMove, LooseMove

\* The call is over, or starts anew, with nothing in its variables.
LEMMA NothingFits ==
  ASSUME NEW l \in {"register", "idle", "failed", "stopped"}
  PROVE  Fits(l, NoCall) /\ NoCall \in Call /\ l \in PCs
BY InitialRecords, ClientBounds DEF Fits, NoCall, PCs, Ended

\* What a tab may do to the budget.
LEMMA BudgetType ==
  ASSUME TypeOK, Reachable \/ Unreachable
  PROVE  budget' \in [calls : 0 .. MaxCalls, incidents : 0 .. MaxIncidents]
BY IncidentType DEF TypeOK, Reachable, Unreachable

\* A call of uploadRoomFile begins with the saved item.
LEMMA BeginStep ==
  ASSUME TypeOK, ClientInv, NEW c \in Clients, Begin(c)
  PROVE  TypeOK' /\ ClientInv'
<1> DEFINE k == [NoCall EXCEPT !.item = saved]
<1>1. saved \in Ids \union {None} /\ (saved # None => state[saved] # "none")
  BY DEF TypeOK, ClientInv, CallsInv
<1>2. k \in Call /\ k.item = saved /\ k.offset = 0 /\ (saved = None => k = NoCall)
  <2>1. NoCall \in Call /\ NoCall.offset = 0 /\ NoCall.item = None
    BY InitialRecords DEF NoCall
  <2> QED
    BY <1>1, <2>1 DEF Call
<1>3. call' = [call EXCEPT ![c] = k]
  BY DEF Begin
<1> HIDE DEF k
<1>4. budget' \in [calls : 0 .. MaxCalls, incidents : 0 .. MaxIncidents]
  <2>1. budget \in [calls : 0 .. MaxCalls, incidents : 0 .. MaxIncidents]
    BY DEF TypeOK
  <2>2. budget.calls - 1 \in 0 .. MaxCalls
    BY <2>1, ClientBounds DEF Begin
  <2>3. \A n \in 0 .. MaxCalls :
          [budget EXCEPT !.calls = n] \in [calls : 0 .. MaxCalls, incidents : 0 .. MaxIncidents]
    BY <2>1
  <2>4. [budget EXCEPT !.calls = budget.calls - 1]
          \in [calls : 0 .. MaxCalls, incidents : 0 .. MaxIncidents]
    BY <2>2, <2>3, Zenon
  <2> QED
    BY <2>4 DEF Begin
<1>5. /\ UNCHANGED <<server, req, saved, shown, released, raced>>
      /\ pc[c] \notin {"register", "wait"} /\ shown' \in [Ids -> 0 .. Size]
  BY DEF Begin, Ended, TypeOK
<1>6. CASE saved = None
  <2>1. Fits("register", k) /\ pc' = [pc EXCEPT ![c] = "register"] /\ "register" \in PCs
    BY <1>2, <1>6, NothingFits DEF Begin, Goto
  <2> QED
    BY <1>1, <1>2, <1>3, <1>4, <1>5, <2>1, QuietMove
<1>7. CASE saved # None
  <2>1. 0 <= offset[saved]
    BY <1>1, <1>7 DEF TypeOK
  <2>2. Fits("look", k) /\ pc' = [pc EXCEPT ![c] = "look"] /\ "look" \in PCs
    BY <1>1, <1>2, <1>7, <2>1 DEF Begin, Goto, Fits, PCs
  <2> QED
    BY <1>1, <1>2, <1>3, <1>4, <1>5, <2>2, QuietMove
<1> QED
  BY <1>6, <1>7

\* The saved record is dropped and the file registered anew.
LEMMA ForgetStep ==
  ASSUME TypeOK, ClientInv, NEW c \in Clients, Forget(c), pc[c] \in {"look", "list"},
         UNCHANGED <<server, req, shown, released, raced>>, Reachable \/ Unreachable
  PROVE  TypeOK' /\ ClientInv'
<1>1. /\ saved' \in Ids \union {None} /\ saved' = None /\ call' = [call EXCEPT ![c] = NoCall]
      /\ pc' = [pc EXCEPT ![c] = "register"] /\ shown' \in [Ids -> 0 .. Size]
  BY DEF Forget, Goto, TypeOK
<1> QED
  BY <1>1, BudgetType, NothingFits, QuietMove

\* The call throws.
LEMMA ThrowStep ==
  ASSUME TypeOK, ClientInv, NEW c \in Clients, Throw(c), pc[c] \notin {"register", "wait"},
         UNCHANGED <<server, req, saved, shown, released, raced>>, Reachable \/ Unreachable
  PROVE  TypeOK' /\ ClientInv'
<1>1. /\ saved' \in Ids \union {None} /\ (saved' # None => state[saved'] # "none")
      /\ call' = [call EXCEPT ![c] = NoCall]
      /\ pc' = [pc EXCEPT ![c] = "failed"] /\ shown' \in [Ids -> 0 .. Size]
  BY DEF Throw, Goto, TypeOK, ClientInv, CallsInv
<1> QED
  BY <1>1, BudgetType, NothingFits, QuietMove

\* HEAD of the saved item, GET of the room.
LEMMA LookListStep ==
  ASSUME TypeOK, ClientInv, NEW c \in Clients, Look(c) \/ List(c)
  PROVE  TypeOK' /\ ClientInv'
<1> DEFINE i == call[c].item
<1>1. pc[c] \in {"look", "list"} /\ i \in Ids /\ call[c] \in Call /\ call[c].offset \in 0 .. Size
      /\ offset[i] \in 0 .. Size /\ state[i] # "none" /\ call[c].offset <= offset[i]
  BY KeepsFit, ClientBounds DEF Look, List, TypeOK
<1>2. UNCHANGED <<server, req, released, raced>> /\ (Reachable \/ Unreachable)
  BY DEF Look, List
<1>3. CASE Forget(c) /\ UNCHANGED shown
  BY <1>1, <1>2, <1>3, ForgetStep
<1>4. CASE List(c) /\ Continue(c, call[c].offset)
  BY <1>1, <1>2, <1>4, BudgetType, ContinueMove DEF List
<1>5. CASE /\ Look(c) /\ call' = [call EXCEPT ![c].offset = offset[i]]
           /\ Goto(c, "list") /\ UNCHANGED saved
  <2> DEFINE k == [call[c] EXCEPT !.offset = offset[i]]
  <2>1. k \in Call /\ k.item = i /\ k.offset = offset[i]
    BY <1>1 DEF Call
  <2>2. call' = [call EXCEPT ![c] = k]
    BY <1>5 DEF TypeOK
  <2> HIDE DEF k
  <2>3. Fits("list", k) /\ "list" \in PCs
    BY <1>1, <2>1, ClientBounds DEF Fits, PCs
  <2>4. /\ saved' \in Ids \union {None} /\ (saved' # None => state[saved'] # "none")
        /\ pc' = [pc EXCEPT ![c] = "list"] /\ shown' \in [Ids -> 0 .. Size]
        /\ pc[c] \notin {"register", "wait"}
    BY <1>5 DEF Look, Goto, TypeOK, ClientInv, CallsInv
  <2> QED
    BY <1>2, <2>1, <2>2, <2>3, <2>4, BudgetType, QuietMove
<1> QED
  BY <1>3, <1>4, <1>5 DEF Look, List

\* HEAD of the registered item, HEAD after an error.
LEMMA StatusAskStep ==
  ASSUME TypeOK, ClientInv, NEW c \in Clients, Status(c) \/ Ask(c)
  PROVE  TypeOK' /\ ClientInv'
<1> DEFINE i == call[c].item
<1>1. pc[c] \in {"status", "ask"} /\ i \in Ids /\ call[c] \in Call
      /\ offset[i] \in 0 .. Size /\ state[i] # "none" /\ call[c].offset <= offset[i]
  BY KeepsFit, ClientBounds DEF Status, Ask, TypeOK
<1>2. UNCHANGED <<server, req, released, raced>> /\ (Reachable \/ Unreachable)
  BY DEF Status, Ask
<1>3. CASE Throw(c) /\ UNCHANGED <<saved, shown>>
  BY <1>1, <1>2, <1>3, ThrowStep
<1>4. CASE Continue(c, offset[i])
  <2>1. offset[i] <= offset[i]
    BY <1>1
  <2> QED
    BY <1>1, <1>2, <1>4, <2>1, BudgetType, ContinueMove
<1>5. CASE /\ Goto(c, "loop") /\ UNCHANGED <<call, saved, shown>>
           /\ ~ Exhausted(call[c].attempt)
  <2>1. Fits("loop", call[c]) /\ "loop" \in PCs
    BY <1>1, <1>5, ClientBounds DEF Fits, PCs, Exhausted, Call
  <2>2. /\ saved' \in Ids \union {None} /\ (saved' # None => state[saved'] # "none")
        /\ pc' = [pc EXCEPT ![c] = "loop"] /\ shown' \in [Ids -> 0 .. Size]
        /\ call' = [call EXCEPT ![c] = call[c]] /\ pc[c] \notin {"register", "wait"}
    BY <1>1, <1>5 DEF Goto, TypeOK, ClientInv, CallsInv
  <2> QED
    BY <1>1, <1>2, <2>1, <2>2, BudgetType, QuietMove
<1> QED
  BY <1>3, <1>4, <1>5 DEF Status, Ask

\* The loop ends, and the last GET of the room.
LEMMA FinishStep ==
  ASSUME TypeOK, ClientInv, NEW c \in Clients, Finish(c) \/ Final(c)
  PROVE  TypeOK' /\ ClientInv'
<1>1. /\ pc[c] \in {"loop", "final"} /\ call[c] \in Call /\ call[c].item \in Ids
      /\ state[call[c].item] # "none" /\ call[c].offset <= offset[call[c].item]
  BY KeepsFit, ClientBounds DEF Finish, Final
<1>2. UNCHANGED <<server, req, shown, released, raced>> /\ shown' \in [Ids -> 0 .. Size]
  BY DEF Finish, Final, TypeOK
<1>3. CASE Final(c) /\ Throw(c)
  BY <1>1, <1>2, <1>3, ThrowStep DEF Final
<1>4. ASSUME NEW l \in {"final", "done"}, Goto(c, l), UNCHANGED call, call[c].offset = Size,
             saved' \in Ids \union {None}, saved' # None => state[saved'] # "none",
             budget' \in [calls : 0 .. MaxCalls, incidents : 0 .. MaxIncidents]
      PROVE  TypeOK' /\ ClientInv'
  <2>1. Fits(l, call[c]) /\ l \in PCs
    BY <1>1, <1>4, ClientBounds DEF Fits, PCs, Ended
  <2>2. /\ pc' = [pc EXCEPT ![c] = l] /\ call' = [call EXCEPT ![c] = call[c]]
        /\ pc[c] \notin {"register", "wait"}
    BY <1>1, <1>4 DEF Goto, TypeOK
  <2> QED
    BY <1>1, <1>2, <1>4, <2>1, <2>2, QuietMove
<1>5. CASE Finish(c)
  BY <1>4, <1>5 DEF Finish, AllConfirmed, TypeOK
<1>6. CASE Final(c) /\ Reachable /\ Goto(c, "done") /\ UNCHANGED call
  <2>1. call[c].offset = Size
    BY <1>6 DEF Final, ClientInv, CallsInv, CallOK
  <2>2. saved' \in Ids \union {None} /\ (saved' # None => state[saved'] # "none")
    BY <1>6 DEF Final, TypeOK, ClientInv, CallsInv
  <2> QED
    BY <1>4, <1>6, <2>1, <2>2, BudgetType
<1> QED
  BY <1>3, <1>5, <1>6 DEF Final

-----------------------------------------------------------------------------
(* Requests of a tab.                                                        *)

\* A request is sent in a free slot.
LEMMA SendMove ==
  ASSUME TypeOK, ClientInv, NEW c \in Clients, NEW l \in {"register", "wait"},
         NEW kind \in {"register", "patch"}, Request(c, l, kind),
         \A r \in Slots : req[r].owner # c,
         l = "register" => pc[c] = "register",
         l = "wait" => pc[c] = "loop" /\ kind = "patch",
         kind = "patch" => pc[c] = "loop" /\ call[c].offset < Size,
         UNCHANGED <<server, saved, call, budget, shown, released, raced>>
  PROVE  TypeOK' /\ ClientInv'
<1> DEFINE r == CHOOSE q \in Free : TRUE
           p == [NoReq EXCEPT !.stage = "sent", !.kind = kind, !.owner = c,
                              !.item = call[c].item, !.chunk = call[c].offset]
<1>1. r \in Free
  BY DEF Request
<1>2. r \in Slots /\ req[r].stage = "free"
  BY <1>1 DEF Free
<1>3. /\ call[c] \in Call /\ call[c].item \in Ids \union {None} /\ call[c].offset \in 0 .. Size
      /\ (pc[c] = "loop" => call[c].item \in Ids /\ state[call[c].item] # "none")
  BY KeepsFit, ClientBounds
<1>4. /\ p \in Req /\ p.stage = "sent" /\ p.kind = kind /\ p.owner = c
      /\ p.item = call[c].item /\ p.chunk = call[c].offset /\ ~ p.locked
  <2>1. NoReq \in Req /\ ~ NoReq.locked
    BY InitialRecords DEF NoReq
  <2>2. \A q \in Req :
          LET a == [q EXCEPT !.stage = "sent", !.kind = kind, !.owner = c,
                             !.item = call[c].item, !.chunk = call[c].offset]
          IN  /\ a \in Req /\ a.stage = "sent" /\ a.kind = kind /\ a.owner = c
              /\ a.item = call[c].item /\ a.chunk = call[c].offset /\ a.locked = q.locked
    BY <1>3 DEF Req, Stages
  <2> QED
    BY <2>1, <2>2
<1>5. req' = [req EXCEPT ![r] = p] /\ pc' = [pc EXCEPT ![c] = l]
  BY DEF Request, Goto
<1> HIDE DEF r, p
<1>6. /\ req \in [Slots -> Req] /\ pc \in [Clients -> PCs]
      /\ UNCHANGED <<state, offset, call>>
  BY DEF TypeOK, server
<1>7. /\ req' \in [Slots -> Req] /\ req'[r] = p
      /\ \A q \in Slots \ {r} : req'[q] = req[q]
  BY <1>2, <1>4, <1>5, <1>6
<1>8. RequestsInv'
  <2>1. RequestOK(p, state, offset)
    BY <1>3, <1>4 DEF RequestOK
  <2>2. \A q \in Slots : RequestOK(req'[q], state, offset)
    BY <1>7, <2>1 DEF ClientInv, RequestsInv
  <2>3. OneWriter'
    BY <1>4, <1>7 DEF ClientInv, RequestsInv, OneWriter
  <2> QED
    BY <1>6, <2>2, <2>3 DEF RequestsInv
<1>9. OwnersInv'
  <2>1. ASSUME NEW q \in Slots, req'[q].owner # None
        PROVE  /\ pc'[req'[q].owner] \in {"register", "wait"}
               /\ pc'[req'[q].owner] = "wait" =>
                    /\ req'[q].kind = "patch" /\ req'[q].stage # "inserting"
                    /\ req'[q].stage # "answered" \/ req'[q].ok
                         => req'[q].item = call'[req'[q].owner].item
    <3>1. CASE q = r
      BY <1>4, <1>5, <1>6, <1>7, <3>1
    <3>2. CASE q # r
      <4>1. req'[q] = req[q] /\ req[q].owner # c
        BY <1>7, <3>2
      <4>2. pc'[req[q].owner] = pc[req[q].owner]
        BY <1>5, <1>6, <2>1, <4>1 DEF ClientInv, OwnersInv
      <4> QED
        BY <1>6, <2>1, <4>1, <4>2 DEF ClientInv, OwnersInv
    <3> QED
      BY <3>1, <3>2
  <2>2. \A q, s \in Slots : req'[q].owner # None /\ req'[q].owner = req'[s].owner => q = s
    BY <1>4, <1>7 DEF ClientInv, OwnersInv
  <2> QED
    BY <2>1, <2>2 DEF OwnersInv
<1>10. Inserting' \subseteq Inserting
  BY <1>4, <1>7 DEF Inserting
<1>11. Fits(l, call[c]) /\ l \in PCs
  <2>1. call[c].item # None => state[call[c].item] # "none" /\ call[c].offset <= offset[call[c].item]
    BY KeepsFit
  <2>2. l = "register" => call[c] = NoCall
    BY DEF ClientInv, CallsInv, CallOK
  <2>3. l = "wait" => call[c].attempt < MaxAttempts
    BY DEF ClientInv, CallsInv, CallOK
  <2> QED
    BY <1>3, <2>1, <2>2, <2>3, ClientBounds DEF Fits, PCs
<1>12. /\ call' = [call EXCEPT ![c] = call[c]] /\ saved' \in Ids \union {None}
       /\ (saved' # None => state[saved'] # "none") /\ shown' \in [Ids -> 0 .. Size]
       /\ budget' \in [calls : 0 .. MaxCalls, incidents : 0 .. MaxIncidents]
  BY <1>6 DEF TypeOK, ClientInv, CallsInv
<1> QED
  BY <1>3, <1>5, <1>7, <1>8, <1>9, <1>10, <1>11, <1>12, TabMoves

\* The registration and the checkpoints are sent.
LEMMA SendStep ==
  ASSUME TypeOK, ClientInv, NEW c \in Clients, Register(c) \/ Send(c)
  PROVE  TypeOK' /\ ClientInv'
<1>1. CASE Register(c)
  BY <1>1, SendMove DEF Register, Waiting
<1>2. CASE Send(c)
  <2>1. \A r \in Slots : req[r].owner # c
    BY <1>2, ClientBounds DEF Send, ClientInv, OwnersInv
  <2> QED
    BY <1>2, <2>1, SendMove DEF Send
<1> QED
  BY <1>1, <1>2

\* The only request of a tab is taken out of its slot.
LEMMA Taken ==
  ASSUME TypeOK, ClientInv, NEW c \in Clients, NEW r \in Slots, req[r].owner = c,
         req' = [req EXCEPT ![r] = NoReq]
  PROVE  /\ req' = [q \in Slots |-> req'[q]]
         /\ \A q \in Slots : \/ req'[q] = NoReq
                             \/ req'[q] = req[q] /\ req[q].owner # c
<1>1. req \in [Slots -> Req]
  BY DEF TypeOK
<1>2. \A q \in Slots \ {r} : req'[q] = req[q] /\ req[q].owner # c
  BY <1>1, ClientBounds DEF ClientInv, OwnersInv
<1> QED
  BY <1>1, <1>2

\* The registration is answered.
LEMMA RegisteredStep ==
  ASSUME TypeOK, ClientInv, NEW c \in Clients, Registered(c)
  PROVE  TypeOK' /\ ClientInv'
<1>1. PICK r \in Slots :
        /\ req[r].owner = c /\ req[r].stage = "answered"
        /\ IF req[r].ok
             THEN call' = [call EXCEPT ![c].item = req[r].item] /\ Goto(c, "status")
             ELSE Throw(c)
        /\ req' = [req EXCEPT ![r] = NoReq]
  BY DEF Registered
<1>2. /\ req' = [q \in Slots |-> req'[q]]
      /\ \A q \in Slots : \/ req'[q] = NoReq
                          \/ req'[q] = req[q] /\ req[q].owner # c
  BY <1>1, Taken
<1>3. /\ UNCHANGED <<server, saved, budget, shown, released, raced>>
      /\ saved' \in Ids \union {None} /\ (saved' # None => state[saved'] # "none")
      /\ shown' \in [Ids -> 0 .. Size]
      /\ budget' \in [calls : 0 .. MaxCalls, incidents : 0 .. MaxIncidents]
  BY DEF Registered, TypeOK, ClientInv, CallsInv
<1>4. CASE Throw(c)
  <2>1. pc' = [pc EXCEPT ![c] = "failed"] /\ call' = [call EXCEPT ![c] = NoCall]
    BY <1>4 DEF Throw, Goto
  <2> QED
    BY <1>2, <1>3, <2>1, NothingFits, LooseMove
<1>5. CASE req[r].ok
  <2> DEFINE k == [NoCall EXCEPT !.item = req[r].item]
  <2>1. req[r].item \in Ids /\ state[req[r].item] # "none"
    BY <1>1, <1>5 DEF ClientInv, RequestsInv, RequestOK
  <2>2. k \in Call /\ k.item = req[r].item /\ k.offset = 0
    <3>1. NoCall \in Call /\ NoCall.offset = 0
      BY InitialRecords DEF NoCall
    <3> QED
      BY <2>1, <3>1 DEF Call
  <2>3. call[c] = NoCall
    BY DEF Registered, ClientInv, CallsInv, CallOK
  <2>4. call' = [call EXCEPT ![c] = k] /\ pc' = [pc EXCEPT ![c] = "status"]
    BY <1>1, <1>5, <2>3 DEF Goto, TypeOK
  <2> HIDE DEF k
  <2>5. 0 <= offset[req[r].item]
    BY <2>1 DEF TypeOK
  <2>6. Fits("status", k) /\ "status" \in PCs
    BY <2>1, <2>2, <2>5, ClientBounds DEF Fits, PCs
  <2> QED
    BY <1>2, <1>3, <2>2, <2>4, <2>6, LooseMove
<1> QED
  BY <1>1, <1>4, <1>5

\* A checkpoint is acknowledged with an offset that is committed.
LEMMA AcknowledgedStep ==
  ASSUME TypeOK, ClientInv, NEW c \in Clients, Acknowledged(c)
  PROVE  TypeOK' /\ ClientInv'
<1>1. PICK r \in Slots :
        /\ req[r].owner = c /\ req[r].stage = "answered" /\ req[r].ok
        /\ Continue(c, req[r].result)
        /\ req' = [req EXCEPT ![r] = NoReq]
  BY DEF Acknowledged
<1>2. /\ req' = [q \in Slots |-> req'[q]]
      /\ \A q \in Slots : \/ req'[q] = NoReq
                          \/ req'[q] = req[q] /\ req[q].owner # c
  BY <1>1, Taken
<1>3. pc[c] = "wait" /\ UNCHANGED <<server, budget, released, raced>>
  BY DEF Acknowledged
<1>4. req[r].item = call[c].item
  BY <1>1, <1>3, ClientBounds DEF ClientInv, OwnersInv
<1>5. req[r].result \in 0 .. Size /\ req[r].result <= offset[call[c].item]
  BY <1>1, <1>4 DEF TypeOK, Req, ClientInv, RequestsInv, RequestOK
<1>6. budget' \in [calls : 0 .. MaxCalls, incidents : 0 .. MaxIncidents]
  BY <1>3 DEF TypeOK
<1> QED
  BY <1>1, <1>2, <1>3, <1>5, <1>6, ContinueMove

\* The requests that a tab no longer waits for.
LEMMA AbandonedRequests ==
  ASSUME TypeOK, NEW c \in Clients, req' = Abandoned(c)
  PROVE  /\ req' = [r \in Slots |-> req'[r]]
         /\ \A r \in Slots : \/ req'[r] = NoReq
                             \/ req'[r] = req[r] /\ req[r].owner # c
                             \/ req'[r] = [req[r] EXCEPT !.owner = None]
BY DEF Abandoned

\* A checkpoint fails, or the user stops the upload.
LEMMA AbandonStep ==
  ASSUME TypeOK, ClientInv, NEW c \in Clients, CheckpointFailed(c) \/ Stop(c)
  PROVE  TypeOK' /\ ClientInv'
<1>1. /\ UNCHANGED <<server, saved, shown, released, raced>> /\ req' = Abandoned(c)
      /\ saved' \in Ids \union {None} /\ (saved' # None => state[saved'] # "none")
      /\ shown' \in [Ids -> 0 .. Size]
  BY DEF CheckpointFailed, Stop, TypeOK, ClientInv, CallsInv
<1>2. budget' \in [calls : 0 .. MaxCalls, incidents : 0 .. MaxIncidents]
  BY IncidentType DEF CheckpointFailed, Stop, TypeOK
<1>3. CASE Stop(c)
  <2>1. pc' = [pc EXCEPT ![c] = "stopped"] /\ call' = [call EXCEPT ![c] = NoCall]
    BY <1>3 DEF Stop, Goto
  <2> QED
    BY <1>1, <1>2, <2>1, AbandonedRequests, NothingFits, LooseMove
<1>4. CASE CheckpointFailed(c)
  <2> DEFINE k == [call[c] EXCEPT !.attempt = NextAttempt(call[c].attempt)]
  <2>1. /\ pc[c] = "wait" /\ call[c] \in Call /\ call[c].item \in Ids
        /\ state[call[c].item] # "none" /\ call[c].offset <= offset[call[c].item]
    BY <1>4, KeepsFit, ClientBounds DEF CheckpointFailed
  <2>2. call[c].attempt + 1 \in 0 .. MaxAttempts
    BY <2>1, ClientBounds DEF Call, ClientInv, CallsInv, CallOK
  <2>3. k \in Call /\ k.item = call[c].item /\ k.offset = call[c].offset
    BY <2>1, <2>2 DEF Call, NextAttempt
  <2>4. call' = [call EXCEPT ![c] = k] /\ pc' = [pc EXCEPT ![c] = "ask"]
    BY <1>4 DEF CheckpointFailed, Goto, TypeOK
  <2> HIDE DEF k
  <2>5. Fits("ask", k) /\ "ask" \in PCs
    BY <2>1, <2>3, ClientBounds DEF Fits, PCs
  <2> QED
    BY <1>1, <1>2, <2>3, <2>4, <2>5, AbandonedRequests, LooseMove
<1> QED
  BY <1>3, <1>4

-----------------------------------------------------------------------------
(* The invariant, and what follows from it.                                  *)

\* Every step keeps everything sound.
LEMMA ClientNext == TypeOK /\ ClientInv /\ [Next]_vars => TypeOK' /\ ClientInv'
<1> SUFFICES ASSUME TypeOK, ClientInv, [Next]_vars
             PROVE  TypeOK' /\ ClientInv'
  OBVIOUS
<1>1. ASSUME NEW c \in Clients, ClientStep(c)
      PROVE  TypeOK' /\ ClientInv'
  BY <1>1, LookListStep, SendStep, RegisteredStep, StatusAskStep, AcknowledgedStep,
     AbandonStep, FinishStep DEF ClientStep
<1>2. ASSUME NEW r \in Slots, ServerStep(r)
      PROVE  TypeOK' /\ ClientInv'
  BY <1>2, AcceptRegisterStep, InsertItemStep, AcceptPatchStep, CommitStep, CompleteStep,
     RefuseStep DEF ServerStep
<1>3. CASE BootStep
  <2>1. CASE Restart
    <3>1. /\ UNCHANGED <<state, offset, req, saved, pc, call, budget, shown, released, raced>>
          /\ up' = TRUE
      BY <2>1 DEF Restart, client
    <3>2. up' \in BOOLEAN
      BY <3>1
    <3>3. TypeOK'
      BY <3>1, <3>2 DEF TypeOK
    <3>4. ItemsInv' /\ RequestsInv' /\ OwnersInv' /\ CallsInv'
      BY <3>1 DEF ClientInv, ItemsInv, RequestsInv, OneWriter, OwnersInv, CallsInv, CallOK
    <3>5. Inserting' = Inserting /\ Unused' = Unused /\ Fresh' = Fresh
      BY <3>1 DEF Inserting, Unused, Fresh, Open
    <3>6. Reserved' /\ OneFresh'
      BY <3>1, <3>5, ReservedFrame, OneFreshFrame DEF ClientInv
    <3> QED
      BY <3>3, <3>4, <3>6 DEF ClientInv
  <2>2. CASE \E i \in Ids : Recover(i)
    BY <2>2, MoveStep
  <2> QED
    BY <1>3, <2>1, <2>2 DEF BootStep
<1>4. CASE \E c \in Clients : Begin(c) \/ Stop(c)
  BY <1>4, BeginStep, AbandonStep
<1>5. CASE \E r \in Slots : ServerFails(r)
  BY <1>5, RefuseStep
<1>6. CASE \E i \in Ids : Cancel(i)
  BY <1>6, MoveStep
<1>7. CASE Crash
  BY <1>7, CrashStep
<1>8. CASE UNCHANGED vars
  <2>1. UNCHANGED <<state, offset, up, req, saved, pc, call, budget, shown, released, raced>>
    BY <1>8 DEF vars, server, client
  <2>2. TypeOK'
    BY <2>1 DEF TypeOK
  <2>3. ItemsInv' /\ RequestsInv' /\ OwnersInv' /\ CallsInv'
    BY <2>1 DEF ClientInv, ItemsInv, RequestsInv, OneWriter, OwnersInv, CallsInv, CallOK
  <2>4. Inserting' = Inserting /\ Unused' = Unused /\ Fresh' = Fresh
    BY <2>1 DEF Inserting, Unused, Fresh, Open
  <2>5. Reserved' /\ OneFresh'
    BY <2>1, <2>4, ReservedFrame, OneFreshFrame DEF ClientInv
  <2> QED
    BY <2>2, <2>3, <2>5 DEF ClientInv
<1> QED
  BY <1>1, <1>2, <1>3, <1>4, <1>5, <1>6, <1>7, <1>8 DEF Next, Progress

\* Items, requests, tabs and the resume record agree at every step, for any number of
\* tabs, requests and items (uploadRoomFile, registerUpload, writeUploadCheckpoint).
THEOREM ClientInvHolds == Spec => []ClientInv
BY InitialClientInv, ClientNext, PTL DEF Spec

\* Every variable keeps its type.
THEOREM TypeCorrect == Spec => []TypeOK
BY InitialClientInv, ClientNext, PTL DEF Spec

\* A call of uploadRoomFile that ends well leaves every chunk of its item committed.
THEOREM DoneMeansCommitted == Spec => []DoneIsCommitted
<1>1. TypeOK /\ ClientInv => DoneIsCommitted
  <2> SUFFICES ASSUME TypeOK, ClientInv, NEW c \in Clients, pc[c] = "done"
               PROVE  offset[call[c].item] = Size
    BY DEF DoneIsCommitted
  <2>1. /\ call[c].item \in Ids /\ call[c].offset <= offset[call[c].item]
        /\ call[c].offset \in 0 .. Size
    BY KeepsFit, ClientBounds
  <2>2. call[c].offset = Size
    BY DEF ClientInv, CallsInv, CallOK
  <2>3. offset[call[c].item] \in 0 .. Size /\ Size \in Nat
    BY <2>1, ClientBounds DEF TypeOK
  <2> QED
    BY <2>1, <2>2, <2>3
<1> QED
  BY <1>1, ClientInvHolds, TypeCorrect, PTL

\* Lost answers, retries, pauses and reloads never leave the file with two incomplete
\* items, unless two registrations were under way together (registerUpload).
THEOREM AtMostOneOpen == Spec => []OneOpenItem
<1>1. ClientInv => OneOpenItem
  <2> SUFFICES ASSUME ClientInv, ~ raced
               PROVE  Cardinality(Fresh) <= 1
    BY DEF OneOpenItem, Fresh
  <2>1. CASE Fresh = {}
    BY <2>1, FS_EmptySet
  <2>2. CASE Fresh # {}
    <3>1. PICK i \in Fresh : Fresh = {i}
      BY <2>2 DEF ClientInv, OneFresh
    <3>2. Cardinality({i}) = 1
      BY FS_Singleton
    <3> QED
      BY <3>1, <3>2
  <2> QED
    BY <2>1, <2>2
<1> QED
  BY <1>1, ClientInvHolds, PTL

-----------------------------------------------------------------------------
(* The pages see a durable upload.                                           *)

\* A step that changes nothing of the promise.
LEMMA Stutters ==
  ASSUME UNCHANGED <<state, offset, shown, released>>
  PROVE  UNCHANGED Upload!avars
BY DEF Upload!avars, Phase, Durable, Told

\* A step that changes one item only.
LEMMA OneChanges ==
  ASSUME NEW i \in Ids,
         \A j \in Ids \ {i} : /\ state'[j] = state[j] /\ offset'[j] = offset[j]
                              /\ shown'[j] = shown[j] /\ released'[j] = released[j]
  PROVE  /\ Phase' = [Phase EXCEPT ![i] = Phase'[i]]
         /\ Durable' = [Durable EXCEPT ![i] = Durable'[i]]
         /\ Told' = [Told EXCEPT ![i] = Told'[i]]
<1>1. \A j \in Ids \ {i} : /\ Phase'[j] = Phase[j] /\ Durable'[j] = Durable[j]
                           /\ Told'[j] = Told[j]
  BY DEF Phase, Durable, Told
<1> QED
  BY <1>1 DEF Phase, Durable, Told

\* A released item promises nothing any more.
LEMMA ReleasedStutters ==
  ASSUME NEW i \in Ids, released[i], released'[i],
         \A j \in Ids \ {i} : /\ state'[j] = state[j] /\ offset'[j] = offset[j]
                              /\ shown'[j] = shown[j] /\ released'[j] = released[j]
  PROVE  UNCHANGED Upload!avars
BY DEF Upload!avars, Phase, Durable, Told

\* A new item is opened.
LEMMA RefineInsert ==
  ASSUME TypeOK, ClientInv, NEW r \in Slots, InsertItem(r)
  PROVE  Upload!ANext
<1> DEFINE i == CHOOSE j \in Unused : TRUE
<1>1. r \in Inserting /\ IsFiniteSet(Inserting)
  BY ClientBounds, FS_Subset DEF InsertItem, Inserting
<1>2. Cardinality(Inserting) # 0 /\ Cardinality(Inserting) \in Nat
  BY <1>1, FS_EmptySet, FS_CardinalityType
<1>3. Unused # {}
  BY <1>2, FS_EmptySet DEF ClientInv, Reserved
<1>4. i \in Ids /\ state[i] = "none" /\ ~ released[i]
  BY <1>3 DEF Unused, ClientInv, ItemsInv
<1>5. state' = [state EXCEPT ![i] = "pending"] /\ UNCHANGED <<offset, shown, released>>
  BY DEF InsertItem
<1> HIDE DEF i
<1>6. \A j \in Ids : state'[j] = IF j = i THEN "pending" ELSE state[j]
  BY <1>5 DEF TypeOK
<1>7. Phase' = [Phase EXCEPT ![i] = Phase'[i]] /\ Durable' = Durable /\ Told' = Told
  <2>1. \A j \in Ids \ {i} : /\ state'[j] = state[j] /\ offset'[j] = offset[j]
                             /\ shown'[j] = shown[j] /\ released'[j] = released[j]
    BY <1>5, <1>6
  <2>2. Phase' = [Phase EXCEPT ![i] = Phase'[i]]
    BY <1>4, <2>1, OneChanges
  <2>3. Durable' = Durable /\ Told' = Told
    BY <1>5 DEF Durable, Told
  <2> QED
    BY <2>2, <2>3
<1>8. Phase[i] = "none" /\ Phase'[i] = "open"
  BY <1>4, <1>5, <1>6 DEF Phase
<1>9. [j \in Ids |-> Size][i] # 0
  BY <1>4, ClientBounds
<1>10. Upload!Open(i)
  BY <1>7, <1>8, <1>9 DEF Upload!Open
<1> QED
  BY <1>4, <1>10 DEF Upload!ANext

\* A committed chunk makes the item more durable.
LEMMA RefineCommit ==
  ASSUME TypeOK, ClientInv, NEW r \in Slots, CommitCheckpoint(r)
  PROVE  Upload!ANext \/ UNCHANGED Upload!avars
<1> DEFINE i == req[r].item
           next == req[r].chunk + 1
<1>1. /\ req[r].stage = "writing" /\ i \in Ids /\ state[i] \notin {"none", "ready"}
      /\ req[r].chunk = offset[i] /\ offset[i] < Size
  BY DEF CommitCheckpoint, ClientInv, RequestsInv, RequestOK
<1>2. offset[i] \in 0 .. Size /\ next = offset[i] + 1 /\ next \in offset[i] + 1 .. Size
  BY <1>1, ClientBounds DEF TypeOK
<1>3. /\ state' = [state EXCEPT ![i] = "transferring"] /\ offset' = [offset EXCEPT ![i] = next]
      /\ UNCHANGED <<shown, released>>
  BY DEF CommitCheckpoint
<1> HIDE DEF next
<1>4. /\ \A j \in Ids : state'[j] = IF j = i THEN "transferring" ELSE state[j]
      /\ \A j \in Ids : offset'[j] = IF j = i THEN next ELSE offset[j]
  BY <1>3 DEF TypeOK
<1>5. CASE released[i]
  BY <1>1, <1>3, <1>4, <1>5, ReleasedStutters
<1>6. CASE ~ released[i]
  <2>1. state[i] \in {"pending", "transferring"}
    BY <1>1, <1>6 DEF TypeOK, ItemState, ClientInv, ItemsInv
  <2>2. Phase[i] = "open" /\ Phase'[i] = "open"
    BY <1>1, <1>3, <1>4, <1>6, <2>1 DEF Phase
  <2>3. Durable[i] = offset[i] /\ Durable'[i] = next
    BY <1>1, <1>3, <1>4, <1>6 DEF Durable
  <2>4. Durable' = [Durable EXCEPT ![i] = next] /\ Told' = Told
    BY <1>1, <1>3, <1>4, <2>3, OneChanges DEF Told
  <2>5. Phase' = Phase
    <3>1. \A j \in Ids : Phase'[j] = Phase[j]
      BY <1>3, <1>4, <2>2 DEF Phase
    <3> QED
      BY <3>1 DEF Phase
  <2>6. next \in Durable[i] + 1 .. [j \in Ids |-> Size][i]
    BY <1>1, <1>2, <2>3
  <2>7. Upload!Advance(i)
    BY <2>2, <2>4, <2>5, <2>6 DEF Upload!Advance
  <2> QED
    BY <1>1, <2>7 DEF Upload!ANext
<1> QED
  BY <1>5, <1>6

\* An item whose chunks are all committed becomes ready.
LEMMA RefineReady ==
  ASSUME TypeOK, ClientInv, NEW i \in Ids, state[i] \notin {"none", "pending"},
         offset[i] = Size, state' = [state EXCEPT ![i] = "ready"],
         UNCHANGED <<offset, shown, released>>
  PROVE  Upload!ANext \/ UNCHANGED Upload!avars
<1>1. \A j \in Ids : state'[j] = IF j = i THEN "ready" ELSE state[j]
  BY DEF TypeOK
<1>2. CASE released[i]
  BY <1>1, <1>2, ReleasedStutters
<1>3. CASE state[i] = "ready"
  <2>1. state' = state
    BY <1>3 DEF TypeOK
  <2> QED
    BY <2>1, Stutters
<1>4. CASE ~ released[i] /\ state[i] # "ready"
  <2>1. state[i] = "transferring"
    BY <1>4 DEF TypeOK, ItemState, ClientInv, ItemsInv
  <2>2. Phase[i] = "open" /\ Phase'[i] = "complete"
    BY <1>1, <1>4, <2>1 DEF Phase
  <2>3. Durable[i] = [j \in Ids |-> Size][i]
    BY <1>4 DEF Durable
  <2>4. Phase' = [Phase EXCEPT ![i] = "complete"] /\ Durable' = Durable /\ Told' = Told
    BY <1>1, <2>2, OneChanges DEF Durable, Told
  <2>5. Upload!Complete(i)
    BY <2>2, <2>3, <2>4 DEF Upload!Complete
  <2> QED
    BY <2>5 DEF Upload!ANext
<1> QED
  BY <1>2, <1>3, <1>4

\* A cancelled item is released.
LEMMA RefineCancel ==
  ASSUME TypeOK, ClientInv, NEW i \in Ids, Cancel(i)
  PROVE  Upload!ANext
<1>1. /\ state[i] # "none" /\ state' = [state EXCEPT ![i] = "cancelled"]
      /\ released' = [released EXCEPT ![i] = TRUE] /\ UNCHANGED <<offset, shown>>
  BY DEF Cancel
<1>2. released'[i] /\ \A j \in Ids \ {i} : /\ state'[j] = state[j] /\ released'[j] = released[j]
  BY <1>1 DEF TypeOK
<1>3. Phase[i] # "none" /\ Phase'[i] = "released" /\ Durable'[i] = 0 /\ Told'[i] = 0
  BY <1>1, <1>2 DEF Phase, Durable, Told
<1>4. /\ Phase' = [Phase EXCEPT ![i] = "released"] /\ Durable' = [Durable EXCEPT ![i] = 0]
      /\ Told' = [Told EXCEPT ![i] = 0]
  BY <1>1, <1>2, <1>3, OneChanges
<1>5. Upload!Release(i)
  BY <1>3, <1>4 DEF Upload!Release
<1> QED
  BY <1>5 DEF Upload!ANext

\* A tab shows progress that is committed.
LEMMA RefineTell ==
  ASSUME TypeOK, ClientInv, NEW i \in Ids, NEW n \in 0 .. Size, Reported(i, n),
         state[i] # "none", n <= offset[i], UNCHANGED <<state, offset, released>>
  PROVE  Upload!ANext \/ UNCHANGED Upload!avars
<1>1. \A j \in Ids : shown'[j] = IF j = i /\ n > shown[i] THEN n ELSE shown[j]
  BY DEF Reported, TypeOK
<1>2. CASE released[i]
  BY <1>1, <1>2, ReleasedStutters
<1>3. CASE ~ n > shown[i]
  <2>1. shown' = shown
    BY <1>3 DEF Reported, TypeOK
  <2> QED
    BY <2>1, Stutters
<1>4. CASE ~ released[i] /\ n > shown[i]
  <2>1. state[i] \in {"pending", "transferring", "ready"}
    BY <1>4 DEF TypeOK, ItemState, ClientInv, ItemsInv
  <2>2. Phase[i] \in {"open", "complete"}
    BY <1>4, <2>1 DEF Phase
  <2>3. Told[i] = shown[i] /\ Told'[i] = n /\ Durable[i] = offset[i]
    BY <1>1, <1>4 DEF Told, Durable
  <2>4. Told' = [Told EXCEPT ![i] = n] /\ Phase' = Phase /\ Durable' = Durable
    BY <1>1, <2>3, OneChanges DEF Phase, Durable
  <2>5. shown[i] \in 0 .. Size /\ offset[i] \in 0 .. Size /\ Size \in Nat
    BY ClientBounds DEF TypeOK
  <2>6. n \in Told[i] + 1 .. Durable[i]
    BY <1>4, <2>3, <2>5
  <2>7. Upload!Tell(i)
    BY <2>2, <2>4, <2>6 DEF Upload!Tell
  <2> QED
    BY <2>7 DEF Upload!ANext
<1> QED
  BY <1>2, <1>3, <1>4

\* The steps of a tab.
LEMMA RefineClient ==
  ASSUME TypeOK, ClientInv, NEW c \in Clients, ClientStep(c) \/ Begin(c) \/ Stop(c)
  PROVE  Upload!ANext \/ UNCHANGED Upload!avars
<1>1. UNCHANGED <<state, offset, released>>
  BY DEF ClientStep, Begin, Stop, Look, List, Register, Registered, Status, Send, Acknowledged,
         CheckpointFailed, Ask, Finish, Final, server
<1>2. CASE UNCHANGED shown
  BY <1>1, <1>2, Stutters
<1>3. ASSUME NEW n \in 0 .. Size, Reported(call[c].item, n), n <= offset[call[c].item],
             pc[c] \in {"list", "status", "ask", "wait"}
      PROVE  Upload!ANext \/ UNCHANGED Upload!avars
  <2>1. call[c].item \in Ids /\ state[call[c].item] # "none"
    BY <1>3, KeepsFit, ClientBounds
  <2> QED
    BY <1>1, <1>3, <2>1, RefineTell
<1>4. CASE List(c)
  <2>1. call[c].item \in Ids /\ call[c].offset \in 0 .. Size /\ call[c].offset <= offset[call[c].item]
    BY <1>4, KeepsFit, ClientBounds DEF List
  <2> QED
    BY <1>2, <1>3, <1>4, <2>1 DEF List, Continue
<1>5. CASE Status(c) \/ Ask(c)
  <2>1. call[c].item \in Ids
    BY <1>5, KeepsFit, ClientBounds DEF Status, Ask
  <2>2. offset[call[c].item] \in 0 .. Size /\ offset[call[c].item] <= offset[call[c].item]
    BY <2>1 DEF TypeOK
  <2> QED
    BY <1>2, <1>3, <1>5, <2>2 DEF Status, Ask, Continue
<1>6. CASE Acknowledged(c)
  <2>1. PICK r \in Slots :
          /\ req[r].owner = c /\ req[r].stage = "answered" /\ req[r].ok
          /\ Continue(c, req[r].result)
    BY <1>6 DEF Acknowledged
  <2>2. req[r].item = call[c].item /\ pc[c] = "wait"
    BY <1>6, <2>1, ClientBounds DEF Acknowledged, ClientInv, OwnersInv
  <2>3. req[r].result \in 0 .. Size /\ req[r].result <= offset[call[c].item]
    BY <2>1, <2>2 DEF TypeOK, Req, ClientInv, RequestsInv, RequestOK
  <2> QED
    BY <1>3, <2>1, <2>2, <2>3 DEF Continue
<1>7. CASE Begin(c) \/ Stop(c) \/ Look(c) \/ Register(c) \/ Registered(c) \/ Send(c)
           \/ CheckpointFailed(c) \/ Finish(c) \/ Final(c)
  BY <1>2, <1>7 DEF Begin, Stop, Look, Register, Registered, Send, CheckpointFailed, Finish, Final
<1> QED
  BY <1>4, <1>5, <1>6, <1>7 DEF ClientStep

\* Every step is a step of the durable upload, or none.
LEMMA RefineNext ==
  ASSUME TypeOK, ClientInv, [Next]_vars
  PROVE  Upload!ANext \/ UNCHANGED Upload!avars
<1>1. ASSUME NEW r \in Slots, ServerStep(r) \/ ServerFails(r)
      PROVE  Upload!ANext \/ UNCHANGED Upload!avars
  <2>1. CASE InsertItem(r)
    BY <2>1, RefineInsert
  <2>2. CASE CommitCheckpoint(r)
    BY <2>2, RefineCommit
  <2>3. CASE CompleteUpload(r)
    <3>1. UNCHANGED <<offset, shown, released>>
      BY <2>3 DEF CompleteUpload
    <3>2. /\ req[r].item \in Ids /\ state[req[r].item] \notin {"none", "pending"}
          /\ offset[req[r].item] = Size
      BY <2>3 DEF CompleteUpload, ClientInv, RequestsInv, RequestOK
    <3>3. UNCHANGED state \/ state' = [state EXCEPT ![req[r].item] = "ready"]
      BY <2>3 DEF CompleteUpload
    <3> QED
      BY <3>1, <3>2, <3>3, Stutters, RefineReady
  <2>4. CASE AcceptRegister(r) \/ AcceptPatch(r) \/ Refuse(r) \/ ServerFails(r)
    <3>1. UNCHANGED <<state, offset, shown, released>>
      BY <2>4 DEF AcceptRegister, AcceptPatch, Refuse, ServerFails, server
    <3> QED
      BY <3>1, Stutters
  <2> QED
    BY <1>1, <2>1, <2>2, <2>3, <2>4 DEF ServerStep
<1>2. ASSUME NEW i \in Ids, Recover(i)
      PROVE  Upload!ANext \/ UNCHANGED Upload!avars
  BY <1>2, RefineReady DEF Recover, Unfinished
<1>3. CASE Restart \/ Crash \/ UNCHANGED vars
  <2>1. UNCHANGED <<state, offset, shown, released>>
    BY <1>3 DEF Restart, Crash, vars, server
  <2> QED
    BY <2>1, Stutters
<1> QED
  BY <1>1, <1>2, <1>3, RefineClient, RefineCancel DEF Next, Progress, BootStep

\* Seen from the pages, with their retries, pauses, reloads and further tabs, the
\* upload is the durable upload: progress shown for an item is committed, and an item
\* is never reopened (uploadRoomFile, writeUploadCheckpoint).
THEOREM PagesSeeDurableUpload == Spec => ShownIsDurable
<1>1. ASSUME Init
      PROVE  Upload!AInit
  BY <1>1 DEF Init, Upload!AInit, Phase, Durable, Told
<1>2. TypeOK /\ ClientInv /\ [Next]_vars => [Upload!ANext]_(Upload!avars)
  BY RefineNext
<1> QED
  BY <1>1, <1>2, ClientInvHolds, TypeCorrect, PTL DEF Spec, ShownIsDurable, Upload!Spec

=============================================================================
