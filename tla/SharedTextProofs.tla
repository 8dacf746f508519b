-------------------------- MODULE SharedTextProofs --------------------------
(***************************************************************************)
(* Proofs about the note of a room, for any browsers, texts and bounds.    *)
(*                                                                         *)
(* What a dialog or a request holds is judged against a set N of notes, so *)
(* that a larger N is a monotone change.  NoteInv is inductive: what is    *)
(* shown was accepted, and a share expects the revision of what was shown. *)
(***************************************************************************)
EXTENDS SharedText, TLAPS

GoodDialog(d, N) == d \in Dialog /\ {d.base, d.conflict} \subseteq N \union {NoNote}

GoodCall(call, N) ==
  /\ call \in Call
  /\ {call.note, call.shown} \subseteq N \union {NoNote}
  /\ call.result # "sent" => call.note \in N
  /\ call.kind = "share" => call.shown \in N /\ call.expected = call.shown.revision

GoodCalls(bag, N) == IsABag(bag) /\ \A call \in DOMAIN bag : GoodCall(call, N)

NoteInv ==
  /\ TypeOK
  /\ calls = [b \in Browsers |-> calls[b]]
  /\ stored.revision = Len(notes) /\ stored \in Notes
  /\ \A b \in Browsers : GoodDialog(dialog[b], Notes) /\ GoodCalls(calls[b], Notes)

-----------------------------------------------------------------------------
(* Bags.                                                                    *)

\* A call that is added is the only new one.
LEMMA BagAddCalls ==
  ASSUME NEW B, IsABag(B), NEW x
  PROVE  IsABag(BagAdd(B, x)) /\ DOMAIN BagAdd(B, x) = DOMAIN B \union {x}
<1> DEFINE P == {n \in Nat : n > 0}
<1>0. B \in [DOMAIN B -> P]
  BY DEF IsABag
<1>1. CASE x \in DOMAIN B
  <2>1. BagAdd(B, x) = [e \in DOMAIN B |-> IF e = x THEN B[e] + 1 ELSE B[e]]
    BY <1>1 DEF BagAdd
  <2>2. \A e \in DOMAIN B : B[e] \in P /\ B[e] + 1 \in P
    BY <1>0
  <2>3. DOMAIN BagAdd(B, x) = DOMAIN B
    BY <2>1
  <2>4. BagAdd(B, x) \in [DOMAIN B -> P]
    BY <2>1, <2>2
  <2> QED
    BY <2>3, <2>4, <1>1 DEF IsABag
<1>2. CASE x \notin DOMAIN B
  <2>1. BagAdd(B, x) = [e \in DOMAIN B \union {x} |-> IF e = x THEN 1 ELSE B[e]]
    BY <1>2 DEF BagAdd
  <2>2. \A e \in DOMAIN B : B[e] \in P
    BY <1>0
  <2>3. DOMAIN BagAdd(B, x) = DOMAIN B \union {x}
    BY <2>1
  <2>4. BagAdd(B, x) \in [DOMAIN B \union {x} -> P]
    BY <2>1, <2>2
  <2> QED
    BY <2>3, <2>4 DEF IsABag
<1> QED
  BY <1>1, <1>2

\* A bag restricted to some of its calls is a bag of these.
LEMMA PartOfBag ==
  ASSUME NEW B, IsABag(B), NEW S \in SUBSET DOMAIN B
  PROVE  /\ IsABag([e \in S |-> B[e]])
         /\ DOMAIN [e \in S |-> B[e]] = S
<1> DEFINE P == {n \in Nat : n > 0}
           R == [e \in S |-> B[e]]
<1>1. \A e \in S : B[e] \in P
  BY DEF IsABag
<1>2. DOMAIN R = S
  OBVIOUS
<1>3. R \in [S -> P]
  BY <1>1
<1> QED
  BY <1>2, <1>3 DEF IsABag

\* A call that is removed leaves no new one.
LEMMA BagRemoveCalls ==
  ASSUME NEW B, IsABag(B), NEW x
  PROVE  IsABag(BagRemove(B, x)) /\ DOMAIN BagRemove(B, x) \subseteq DOMAIN B
<1> DEFINE P == {n \in Nat : n > 0}
<1>0. \A e \in DOMAIN B : B[e] \in P
  BY DEF IsABag
<1>1. CASE x \in DOMAIN B /\ B[x] = 1
  <2>1. BagRemove(B, x) = [e \in DOMAIN B \ {x} |-> B[e]]
    BY <1>1 DEF BagRemove
  <2> QED
    BY <2>1, PartOfBag
<1>2. CASE x \in DOMAIN B /\ B[x] # 1
  <2>1. BagRemove(B, x) = [e \in DOMAIN B |-> IF e = x THEN B[e] - 1 ELSE B[e]]
    BY <1>2 DEF BagRemove
  <2>2. \A e \in DOMAIN B : e = x => B[e] - 1 \in P
    BY <1>0, <1>2
  <2>3. DOMAIN BagRemove(B, x) = DOMAIN B /\ BagRemove(B, x) \in [DOMAIN B -> P]
    BY <1>0, <2>1, <2>2
  <2> QED
    BY <2>3 DEF IsABag
<1>3. CASE x \notin DOMAIN B
  BY <1>3 DEF BagRemove
<1> QED
  BY <1>1, <1>2, <1>3

-----------------------------------------------------------------------------
(* Requests.                                                                *)

\* Adding a good request keeps a bag good.
LEMMA GoodAdded ==
  ASSUME NEW B, NEW N, GoodCalls(B, N), NEW call, GoodCall(call, N)
  PROVE  GoodCalls(BagAdd(B, call), N)
<1>1. IsABag(B) /\ \A c \in DOMAIN B : GoodCall(c, N)
  BY DEF GoodCalls
<1>2. IsABag(BagAdd(B, call)) /\ DOMAIN BagAdd(B, call) = DOMAIN B \union {call}
  BY <1>1, BagAddCalls
<1> QED
  BY <1>1, <1>2 DEF GoodCalls

\* Removing a request keeps a bag good.
LEMMA GoodRemoved ==
  ASSUME NEW B, NEW N, GoodCalls(B, N), NEW call
  PROVE  GoodCalls(BagRemove(B, call), N)
<1>1. IsABag(B) /\ \A c \in DOMAIN B : GoodCall(c, N)
  BY DEF GoodCalls
<1>2. IsABag(BagRemove(B, call)) /\ DOMAIN BagRemove(B, call) \subseteq DOMAIN B
  BY <1>1, BagRemoveCalls
<1> QED
  BY <1>1, <1>2 DEF GoodCalls

\* A request stays good when notes are added.
LEMMA GoodGrows ==
  ASSUME NEW N, NEW M, N \subseteq M
  PROVE  /\ \A bag : GoodCalls(bag, N) => GoodCalls(bag, M)
         /\ \A d : GoodDialog(d, N) => GoodDialog(d, M)
<1>1. ASSUME NEW call, GoodCall(call, N) PROVE GoodCall(call, M)
  BY <1>1 DEF GoodCall
<1> QED
  BY <1>1 DEF GoodCalls, GoodDialog

\* What is sent with a good expectation is a good request.
LEMMA GoodSent ==
  ASSUME NEW N, NEW kind \in {"open", "signal", "share"}, NEW expected \in Nat,
         NEW shown \in N \union {NoNote}, NEW content \in Texts, N \subseteq Note,
         kind = "share" => shown \in N /\ expected = shown.revision
  PROVE  GoodCall([kind |-> kind, live |-> TRUE, expected |-> expected,
                   shown |-> shown, content |-> content, result |-> "sent",
                   note |-> NoNote], N)
BY DEF GoodCall, Call

\* A request stays good when it is answered with an accepted note.
LEMMA GoodAnswered ==
  ASSUME NEW N, N \subseteq Note, NEW call, GoodCall(call, N),
         NEW result \in {"note", "conflict"}, NEW note \in N
  PROVE  GoodCall([call EXCEPT !.result = result, !.note = note], N)
BY DEF GoodCall, Call

\* The notes of a state are notes, and there is one of each revision.
LEMMA NotesByRevision ==
  ASSUME TypeOK
  PROVE  /\ Notes \subseteq Note
         /\ \A m, n \in Notes : m.revision = n.revision => m = n
<1>1. notes \in Seq(Texts) /\ DOMAIN notes = 1 .. Len(notes) /\ Len(notes) \in Nat
  BY DEF TypeOK
<1>2. \A r \in DOMAIN notes : notes[r] \in Texts /\ r \in Nat /\ r > 0
  BY <1>1
<1>3. NoRow \in Note
  BY TextBounds DEF NoRow, Note
<1> QED
  BY <1>2, <1>3 DEF Notes, Note, NoRow

-----------------------------------------------------------------------------
(* Steps.                                                                   *)

\* A browser's step keeps NoteInv when the dialog and the requests it leaves
\* are good.
LEMMA BrowserKeepsNoteInv ==
  ASSUME NoteInv, NEW b \in Browsers, NEW d, NEW C,
         GoodDialog(d, Notes), GoodCalls(C, Notes),
         dialog' = [dialog EXCEPT ![b] = d], calls' = [calls EXCEPT ![b] = C],
         UNCHANGED <<stored, keyKnown, notes>>,
         signal' \in [Browsers -> Nat], shares' \in 0 .. MaxShares
  PROVE  NoteInv'
<1>1. Notes' = Notes
  BY DEF Notes
<1>2. calls' = [c \in Browsers |-> calls'[c]] /\ DOMAIN dialog = Browsers
      /\ DOMAIN calls = Browsers
  BY DEF NoteInv, TypeOK
<1>3. ASSUME NEW c \in Browsers
      PROVE  GoodDialog(dialog'[c], Notes) /\ GoodCalls(calls'[c], Notes)
  BY <1>2 DEF NoteInv
<1>4. dialog' \in [Browsers -> Dialog]
  BY <1>2, <1>3 DEF NoteInv, TypeOK, GoodDialog
<1>5. \A c \in Browsers : IsABag(calls'[c]) /\ DOMAIN calls'[c] \subseteq Call
  BY <1>3 DEF GoodCalls, GoodCall
<1>6. TypeOK'
  BY <1>4, <1>5 DEF NoteInv, TypeOK
<1> QED
  BY <1>1, <1>2, <1>3, <1>6 DEF NoteInv

\* A step that leaves dialogs, requests and notes alone keeps NoteInv.
LEMMA OtherKeepsNoteInv ==
  ASSUME NoteInv, UNCHANGED <<stored, signal, dialog, calls, shares, notes>>,
         keyKnown' \in BOOLEAN
  PROVE  NoteInv'
BY DEF NoteInv, TypeOK, Notes

\* The initial state satisfies NoteInv.
LEMMA NoteInvInit == Init => NoteInv
<1> SUFFICES ASSUME Init PROVE NoteInv
  OBVIOUS
<1>1. Notes = {NoRow} /\ NoRow \in Note
  BY TextBounds DEF Init, Notes, NoRow, Note
<1>2. GoodDialog(ClosedDialog, Notes)
  BY TextBounds DEF GoodDialog, ClosedDialog, Dialog
<1>3. GoodCalls(EmptyBag, Notes)
  BY DEF GoodCalls, EmptyBag, IsABag, SetToBag
<1>4. TypeOK
  <2>1. dialog \in [Browsers -> Dialog]
    BY <1>2 DEF Init, GoodDialog
  <2>2. signal \in [Browsers -> Nat] /\ shares \in 0 .. MaxShares /\ notes \in Seq(Texts)
    BY TextBounds DEF Init
  <2>3. \A b \in Browsers : IsABag(calls[b]) /\ DOMAIN calls[b] \subseteq Call
    BY <1>3 DEF Init, GoodCalls, GoodCall
  <2> QED
    BY <1>1, <2>1, <2>2, <2>3 DEF Init, TypeOK
<1> QED
  BY <1>1, <1>2, <1>3, <1>4 DEF Init, NoteInv, NoRow

\* What NoteInv says of one browser.
LEMMA NoteInvFacts ==
  ASSUME NoteInv, NEW b \in Browsers
  PROVE  /\ GoodDialog(dialog[b], Notes) /\ GoodCalls(calls[b], Notes)
         /\ IsABag(calls[b]) /\ \A call \in DOMAIN calls[b] : GoodCall(call, Notes)
         /\ Notes \subseteq Note /\ stored \in Notes
         /\ calls = [c \in Browsers |-> calls[c]] /\ dialog \in [Browsers -> Dialog]
         /\ signal \in [Browsers -> Nat] /\ shares \in 0 .. MaxShares
<1>1. GoodDialog(dialog[b], Notes) /\ GoodCalls(calls[b], Notes)
  BY DEF NoteInv
<1>2. Notes \subseteq Note /\ stored \in Notes
  BY NotesByRevision DEF NoteInv
<1> QED
  BY <1>1, <1>2 DEF NoteInv, TypeOK, GoodCalls

\* Sending a good request keeps the requests of a browser good.
LEMMA SendKeepsGood ==
  ASSUME NoteInv, NEW b \in Browsers, NEW others, GoodCalls(others, Notes),
         NEW kind \in {"open", "signal", "share"}, NEW expected \in Nat,
         NEW shown \in Notes \union {NoNote}, NEW content \in Texts,
         kind = "share" => shown \in Notes /\ expected = shown.revision,
         Send(b, others, kind, expected, shown, content)
  PROVE  \E C : GoodCalls(C, Notes) /\ calls' = [calls EXCEPT ![b] = C]
<1> DEFINE call == [kind |-> kind, live |-> TRUE, expected |-> expected,
                    shown |-> shown, content |-> content, result |-> "sent",
                    note |-> NoNote]
<1>1. GoodCall(call, Notes)
  BY NoteInvFacts, GoodSent
<1>2. GoodCalls(BagAdd(others, call), Notes)
  BY <1>1, GoodAdded
<1>3. calls' = [calls EXCEPT ![b] = BagAdd(others, call)]
  BY DEF Send
<1> QED
  BY <1>2, <1>3

\* The cleanups of the effects keep the requests of a browser good.
LEMMA CleanupKeepsGood ==
  ASSUME NoteInv, NEW b \in Browsers
  PROVE  GoodCalls(WithoutSignal(b), Notes) /\ GoodCalls(Deafened(b), Notes)
<1> DEFINE live == {c \in DOMAIN calls[b] : c.kind = "open" /\ c.live}
           c == CHOOSE c \in live : TRUE
           S == {x \in DOMAIN calls[b] : x.kind # "signal"}
<1>1. GoodCalls(WithoutSignal(b), Notes)
  <2>1. IsABag([x \in S |-> calls[b][x]]) /\ DOMAIN [x \in S |-> calls[b][x]] = S
    BY PartOfBag, NoteInvFacts
  <2> QED
    BY <2>1, NoteInvFacts DEF WithoutSignal, GoodCalls
<1>2. CASE live = {}
  BY <1>1, <1>2 DEF Deafened
<1>3. CASE live # {}
  <2>1. c \in live
    BY <1>3
  <2>2. GoodCall([c EXCEPT !.live = FALSE], Notes)
    <3>1. GoodCall(c, Notes)
      BY <2>1, NoteInvFacts
    <3> HIDE DEF c
    <3> QED
      BY <3>1 DEF GoodCall, Call
  <2>3. IsABag(WithoutSignal(b)) /\ \A x \in DOMAIN WithoutSignal(b) : GoodCall(x, Notes)
    BY <1>1 DEF GoodCalls
  <2>4. GoodCalls(BagRemoveAll(WithoutSignal(b), c), Notes)
    <3> DEFINE W == WithoutSignal(b)
               T == DOMAIN W \ {c}
    <3>1. IsABag([x \in T |-> W[x]]) /\ DOMAIN [x \in T |-> W[x]] = T
      BY <2>3, PartOfBag
    <3> QED
      BY <2>3, <3>1 DEF GoodCalls, BagRemoveAll
  <2>5. Deafened(b) = BagAdd(BagRemoveAll(WithoutSignal(b), c), [c EXCEPT !.live = FALSE])
    BY <1>3 DEF Deafened
  <2> QED
    BY <1>1, <2>2, <2>4, <2>5, GoodAdded
<1> QED
  BY <1>1, <1>2, <1>3

\* Showing an accepted note keeps a dialog good.
LEMMA ShowsKeepsGood ==
  ASSUME NEW N, N \subseteq Note, NEW d, GoodDialog(d, N), NEW note \in N
  PROVE  GoodDialog(Shows(d, note), N)
BY DEF GoodDialog, Dialog, Shows, Note

\* An answer that is applied keeps a dialog good.
LEMMA AppliedKeepsGood ==
  ASSUME NEW N, N \subseteq Note, NEW d, GoodDialog(d, N),
         NEW call, GoodCall(call, N), call.result # "sent"
  PROVE  GoodDialog(Applied(d, call), N)
<1>1. call.note \in N /\ call.note.revision \in Nat
      /\ call.kind \in {"open", "signal", "share"}
  BY DEF GoodCall, Note, Call
<1>2. GoodDialog(Opened(d, call), N)
  <2> DEFINE after == [d EXCEPT !.initializing = FALSE]
             shown == Shows(after, call.note)
  <2>1. GoodDialog(after, N)
    BY DEF GoodDialog, Dialog
  <2>2. GoodDialog(shown, N)
    BY <1>1, <2>1, ShowsKeepsGood
  <2> HIDE DEF shown
  <2>3. GoodDialog([shown EXCEPT !.fetched = call.note.revision,
                                 !.conflict = d.conflict], N)
    BY <1>1, <2>2 DEF GoodDialog, Dialog
  <2> QED
    BY <2>1, <2>3 DEF Opened, shown
<1>3. GoodDialog(Signalled(d, call), N)
  <2> DEFINE after == [d EXCEPT !.fetched = call.note.revision]
  <2>1. GoodDialog(after, N)
    BY <1>1 DEF GoodDialog, Dialog
  <2>2. GoodDialog(Shows(after, call.note), N)
    BY <1>1, <2>1, ShowsKeepsGood
  <2>3. GoodDialog([after EXCEPT !.conflict = call.note], N)
    BY <1>1, <2>1 DEF GoodDialog, Dialog
  <2> QED
    BY <2>2, <2>3 DEF Signalled
<1>4. GoodDialog(Shared(d, call), N)
  <2> DEFINE shown == Shows(d, call.note)
  <2>1. GoodDialog(shown, N)
    BY <1>1, ShowsKeepsGood
  <2> HIDE DEF shown
  <2>2. GoodDialog([shown EXCEPT !.fetched = call.note.revision], N)
    BY <1>1, <2>1 DEF GoodDialog, Dialog
  <2>3. Larger(d.fetched, call.note.revision) \in Nat \union {-1}
    BY <1>1 DEF GoodDialog, Dialog, Larger
  <2>4. GoodDialog([d EXCEPT !.fetched = Larger(d.fetched, call.note.revision),
                             !.conflict = call.note, !.activity = "other"], N)
    BY <1>1, <2>3 DEF GoodDialog, Dialog
  <2> QED
    BY <2>2, <2>4 DEF Shared, shown
<1> QED
  BY <1>1, <1>2, <1>3, <1>4 DEF Applied

\* A request that is refused or lost keeps a dialog good.
LEMMA RefusedKeepsGood ==
  ASSUME NEW N, NEW d, GoodDialog(d, N), NEW call
  PROVE  GoodDialog(Refused(d, call), N)
<1> DEFINE after == IF call.kind = "open" THEN [d EXCEPT !.initializing = FALSE] ELSE d
<1>1. GoodDialog(after, N)
  BY DEF GoodDialog, Dialog
<1> HIDE DEF after
<1>2. GoodDialog(Failed(after), N)
  BY <1>1 DEF GoodDialog, Dialog, Failed
<1> QED
  BY <1>1, <1>2 DEF Refused, after

\* An accepted write adds the note that stored becomes, the next revision, to
\* the notes of the room.
LEMMA WriteAddsNote ==
  ASSUME NoteInv, NEW b \in Browsers, NEW call \in DOMAIN calls[b],
         AcceptWrite(b, call)
  PROVE  /\ stored' \in Notes' /\ stored'.revision = Len(notes')
         /\ notes' \in Seq(Texts) /\ stored' \in Note /\ Notes \subseteq Notes'
<1>1. call.content \in Texts
  BY NoteInvFacts DEF GoodCall, Call
<1>2. notes \in Seq(Texts) /\ notes' = Append(notes, call.content)
      /\ stored.revision = Len(notes)
  BY DEF NoteInv, TypeOK, AcceptWrite
<1>3. /\ Len(notes') = Len(notes) + 1 /\ notes' \in Seq(Texts)
      /\ DOMAIN notes' = 1 .. Len(notes) + 1 /\ Len(notes) \in Nat
      /\ \A r \in DOMAIN notes : notes'[r] = notes[r] /\ r \in DOMAIN notes'
      /\ notes'[Len(notes) + 1] = call.content
  BY <1>1, <1>2
<1>4. stored' = [content |-> call.content, revision |-> Len(notes) + 1]
  BY <1>2 DEF AcceptWrite, Replaced
<1>5. stored' \in Notes'
  BY <1>3, <1>4 DEF Notes
<1>6. Notes \subseteq Notes'
  BY <1>3 DEF Notes
<1> QED
  BY <1>1, <1>3, <1>4, <1>5, <1>6 DEF Note

\* A step of the service keeps NoteInv.
LEMMA ServiceKeepsNoteInv ==
  ASSUME NoteInv, ServiceStep
  PROVE  NoteInv'
<1>1. ASSUME NEW b \in Browsers, NEW call \in DOMAIN calls[b],
             NEW result \in {"note", "conflict"},
             UNCHANGED <<stored, keyKnown, signal, dialog, shares, notes>>,
             Answered(b, call, result)
      PROVE  NoteInv'
  <2> DEFINE answer == [call EXCEPT !.result = result, !.note = stored']
             C == BagAdd(BagRemove(calls[b], call), answer)
  <2>1. GoodCall(call, Notes) /\ stored' \in Notes /\ Notes \subseteq Note
    BY <1>1, NoteInvFacts
  <2>2. GoodCall(answer, Notes)
    BY <2>1, GoodAnswered
  <2> HIDE DEF answer
  <2>3. GoodCalls(C, Notes)
    BY <2>2, NoteInvFacts, GoodAdded, GoodRemoved
  <2>4. calls' = [calls EXCEPT ![b] = C]
    BY <1>1 DEF Answered, answer
  <2>5. dialog' = [dialog EXCEPT ![b] = dialog[b]]
    BY <1>1, NoteInvFacts
  <2> HIDE DEF C
  <2> QED
    BY <1>1, <2>3, <2>4, <2>5, NoteInvFacts, BrowserKeepsNoteInv
<1>2. ASSUME NEW b \in Browsers, NEW call \in DOMAIN calls[b], ServeRead(b, call)
      PROVE  NoteInv'
  BY <1>1, <1>2 DEF ServeRead
<1>3. ASSUME NEW b \in Browsers, NEW call \in DOMAIN calls[b], RejectWrite(b, call)
      PROVE  NoteInv'
  BY <1>1, <1>3 DEF RejectWrite
<1>4. ASSUME NEW b \in Browsers, NEW call \in DOMAIN calls[b], AcceptWrite(b, call)
      PROVE  NoteInv'
  <2> DEFINE answer == [call EXCEPT !.result = "note", !.note = stored']
             C == BagAdd(BagRemove(calls[b], call), answer)
  <2>1. /\ stored' \in Notes' /\ stored'.revision = Len(notes')
        /\ notes' \in Seq(Texts) /\ stored' \in Note /\ Notes \subseteq Notes'
    BY <1>4, WriteAddsNote
  <2>2. Notes' \subseteq Note
    <3>1. \A r \in DOMAIN notes' : notes'[r] \in Texts /\ r \in Nat
      BY <2>1
    <3>2. NoRow \in Note
      BY TextBounds DEF NoRow, Note
    <3> QED
      BY <3>1, <3>2 DEF Notes, Note
  <2>3. GoodCall(call, Notes')
    BY <2>1, NoteInvFacts DEF GoodCall
  <2>4. GoodCall(answer, Notes')
    BY <2>1, <2>2, <2>3, GoodAnswered
  <2> HIDE DEF answer
  <2>5. \A c \in Browsers : GoodCalls(calls[c], Notes') /\ GoodDialog(dialog[c], Notes')
    BY <2>1, GoodGrows DEF NoteInv
  <2>6. GoodCalls(C, Notes')
    BY <2>4, <2>5, GoodAdded, GoodRemoved
  <2>7. calls' = [calls EXCEPT ![b] = C] /\ dialog' = dialog
    BY <1>4 DEF AcceptWrite, Answered, answer
  <2> HIDE DEF C
  <2>8. calls' = [c \in Browsers |-> calls'[c]] /\ \A c \in Browsers : GoodCalls(calls'[c], Notes')
    BY <2>5, <2>6, <2>7, NoteInvFacts
  <2>9. \A c \in Browsers : IsABag(calls'[c]) /\ DOMAIN calls'[c] \subseteq Call
    BY <2>8 DEF GoodCalls, GoodCall
  <2>10. TypeOK'
    BY <1>4, <2>1, <2>7, <2>9 DEF NoteInv, TypeOK, AcceptWrite
  <2> QED
    BY <2>1, <2>5, <2>7, <2>8, <2>10 DEF NoteInv
<1>5. CASE Restart \/ RememberKey
  BY <1>5, OtherKeepsNoteInv DEF Restart, RememberKey
<1> QED
  BY <1>2, <1>3, <1>4, <1>5 DEF ServiceStep

\* A step of a browser keeps NoteInv.
LEMMA BrowserStepKeepsNoteInv ==
  ASSUME NoteInv, NEW b \in Browsers, BrowserStep(b)
  PROVE  NoteInv'
<1> DEFINE d == dialog[b]
<1>1. /\ GoodDialog(d, Notes) /\ GoodCalls(calls[b], Notes)
      /\ Notes \subseteq Note /\ d \in Dialog
      /\ dialog \in [Browsers -> Dialog] /\ calls = [c \in Browsers |-> calls[c]]
      /\ signal \in [Browsers -> Nat] /\ shares \in 0 .. MaxShares
      /\ \A call \in DOMAIN calls[b] : GoodCall(call, Notes)
  BY NoteInvFacts DEF GoodDialog
<1>2. calls = [calls EXCEPT ![b] = calls[b]] /\ dialog = [dialog EXCEPT ![b] = d]
  BY <1>1
<1>3. GoodDialog(ClosedDialog, Notes)
  BY TextBounds DEF GoodDialog, ClosedDialog, Dialog
<1>4. CASE Open(b)
  <2> DEFINE e == [ClosedDialog EXCEPT !.open = TRUE, !.initializing = TRUE,
                                       !.activity = "loading"]
  <2>1. GoodDialog(e, Notes)
    BY TextBounds DEF GoodDialog, ClosedDialog, Dialog
  <2>2. PICK C : GoodCalls(C, Notes) /\ calls' = [calls EXCEPT ![b] = C]
    BY <1>1, <1>4, SendKeepsGood, TextBounds DEF Open
  <2>3. dialog' = [dialog EXCEPT ![b] = e]
    BY <1>4 DEF Open
  <2> HIDE DEF e
  <2> QED
    BY <1>1, <1>4, <2>1, <2>2, <2>3, BrowserKeepsNoteInv DEF Open
<1>5. CASE Close(b)
  BY <1>1, <1>3, <1>5, CleanupKeepsGood, BrowserKeepsNoteInv DEF Close
<1>6. CASE Copy(b)
  <2>1. GoodDialog([d EXCEPT !.activity = "other"], Notes)
    BY <1>1 DEF GoodDialog, Dialog
  <2>2. dialog' = [dialog EXCEPT ![b] = [d EXCEPT !.activity = "other"]]
    BY <1>6 DEF Copy
  <2> QED
    BY <1>1, <1>2, <1>6, <2>1, <2>2, BrowserKeepsNoteInv DEF Copy
<1>7. ASSUME NEW shown \in Notes, Press(b, shown)
      PROVE  NoteInv'
  <2>1. GoodDialog([d EXCEPT !.activity = "saving"], Notes)
    BY <1>1 DEF GoodDialog, Dialog
  <2>2. dialog' = [dialog EXCEPT ![b] = [d EXCEPT !.activity = "saving"]]
    BY <1>7 DEF Press
  <2>3. Expected(b, shown) = shown.revision /\ shown.revision \in Nat /\ d.draft \in Texts
    BY <1>1 DEF Expected, Note, Dialog
  <2>4. PICK C : GoodCalls(C, Notes) /\ calls' = [calls EXCEPT ![b] = C]
    BY <1>1, <1>7, <2>3, SendKeepsGood DEF Press
  <2>5. shares' \in 0 .. MaxShares
    BY <1>1, <1>7, TextBounds DEF Press
  <2> QED
    BY <1>1, <1>7, <2>1, <2>2, <2>4, <2>5, BrowserKeepsNoteInv DEF Press
<1>8. CASE Share(b)
  BY <1>1, <1>7, <1>8 DEF Share, Press, GoodDialog
<1>9. CASE Replace(b)
  BY <1>1, <1>7, <1>9 DEF Replace, GoodDialog
<1>10. CASE UseLatest(b)
  <2>1. d.conflict \in Notes
    BY <1>1, <1>10 DEF UseLatest, GoodDialog
  <2>2. GoodDialog(Shows(d, d.conflict), Notes)
    BY <1>1, <2>1, ShowsKeepsGood
  <2>3. dialog' = [dialog EXCEPT ![b] = Shows(d, d.conflict)]
    BY <1>10 DEF UseLatest
  <2> QED
    BY <1>1, <1>2, <1>10, <2>2, <2>3, BrowserKeepsNoteInv DEF UseLatest
<1>11. ASSUME NEW r \in 1 .. stored.revision, Observe(b, r)
       PROVE  NoteInv'
  <2>1. signal' \in [Browsers -> Nat]
    BY <1>1, <1>11 DEF Observe
  <2>2. GoodCalls(WithoutSignal(b), Notes)
    BY CleanupKeepsGood
  <2>3. PICK C : GoodCalls(C, Notes) /\ calls' = [calls EXCEPT ![b] = C]
    BY <1>1, <1>11, <2>2, SendKeepsGood, TextBounds DEF Observe
  <2> QED
    BY <1>1, <1>2, <1>11, <2>1, <2>3, BrowserKeepsNoteInv DEF Observe
<1>12. ASSUME NEW t \in Texts, Edit(b, t)
       PROVE  NoteInv'
  <2> DEFINE e == [d EXCEPT !.draft = t, !.activity = "other"]
  <2>1. GoodDialog(e, Notes)
    BY <1>1 DEF GoodDialog, Dialog
  <2>2. dialog' = [dialog EXCEPT ![b] = e]
    BY <1>1, <1>12 DEF Edit
  <2> HIDE DEF e
  <2> QED
    BY <1>1, <1>2, <1>12, <2>1, <2>2, BrowserKeepsNoteInv DEF Edit
<1>13. ASSUME NEW call \in DOMAIN calls[b], NEW e, GoodDialog(e, Notes),
              Settled(b, call, e)
       PROVE  NoteInv'
  <2>1. GoodCalls(BagRemove(calls[b], call), Notes)
    BY <1>1, GoodRemoved
  <2>2. calls' = [calls EXCEPT ![b] = BagRemove(calls[b], call)]
    BY <1>13 DEF Settled
  <2> QED
    BY <1>1, <1>13, <2>1, <2>2, BrowserKeepsNoteInv DEF Settled
<1>14. ASSUME NEW call \in DOMAIN calls[b], Apply(b, call)
       PROVE  NoteInv'
  BY <1>1, <1>13, <1>14, AppliedKeepsGood DEF Apply
<1>15. ASSUME NEW call \in DOMAIN calls[b], Fail(b, call)
       PROVE  NoteInv'
  BY <1>1, <1>13, <1>15, RefusedKeepsGood DEF Fail
<1> QED
  BY <1>4, <1>5, <1>6, <1>8, <1>9, <1>10, <1>11, <1>12, <1>14, <1>15 DEF BrowserStep

\* NoteInv holds in every reachable state.
THEOREM NoteInvHolds == Spec => []NoteInv
<1>1. NoteInv /\ [Next]_vars => NoteInv'
  <2>1. NoteInv /\ UNCHANGED vars => NoteInv'
    BY DEF vars, NoteInv, TypeOK, Notes
  <2> QED
    BY <2>1, ServiceKeepsNoteInv, BrowserStepKeepsNoteInv DEF Next
<1> QED
  BY <1>1, NoteInvInit, PTL DEF Spec

\* Every variable keeps its type, however answers and keystrokes interleave.
THEOREM TypeCorrect == Spec => []TypeOK
<1>1. NoteInv => TypeOK
  BY DEF NoteInv
<1> QED
  BY <1>1, NoteInvHolds, PTL

\* Every note in a dialog, an answer or the database was accepted under the
\* revision it carries (updateSharedText, share and the reading effects).
THEOREM OnlyAcceptedNotes == Spec => []NotesAreAccepted
<1>1. NoteInv => NotesAreAccepted
  BY DEF NoteInv, NotesAreAccepted, GoodDialog, GoodCalls, GoodCall
<1> QED
  BY <1>1, NoteInvHolds, PTL

\* An accepted write replaces exactly the note its writer was shown: the
\* expected revision stands for the note, because a revision has one note.
THEOREM NoUnseenOverwrite == Spec => NothingOverwrittenUnseen
<1> DEFINE A == stored' # stored =>
                  \E b \in Browsers : \E call \in DOMAIN calls[b] :
                    /\ call.shown = stored
                    /\ Answered(b, call, "note")
<1>1. NoteInv /\ [Next]_vars => [A]_vars
  <2> SUFFICES ASSUME NoteInv, Next, stored' # stored
               PROVE  A
    BY DEF vars
  <2>1. PICK b \in Browsers : \E call \in DOMAIN calls[b] : AcceptWrite(b, call)
    BY DEF Next, ServiceStep, BrowserStep, ServeRead, RejectWrite, Restart, RememberKey,
           Open, Close, Copy, Share, Replace, Press, UseLatest, Observe, Edit,
           Apply, Fail, Settled
  <2>0. PICK call \in DOMAIN calls[b] : AcceptWrite(b, call)
    BY <2>1
  <2>2. call.shown \in Notes /\ call.shown.revision = stored.revision
    BY <2>0, NoteInvFacts DEF AcceptWrite, Current, GoodCall
  <2>3. call.shown = stored
    BY <2>2, NotesByRevision DEF NoteInv
  <2> QED
    BY <2>0, <2>3 DEF AcceptWrite
<1> QED
  BY <1>1, NoteInvHolds, PTL DEF Spec, NothingOverwrittenUnseen

=============================================================================
