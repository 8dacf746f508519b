----------------------------- MODULE SharedText -----------------------------
(***************************************************************************)
(* The one note of a room: its row and its key in RoomStore, the requests  *)
(* that read and replace it, and the dialog each browser edits it in       *)
(* (SharedTextDialog.tsx), driven by the revisions its page observes.      *)
(*                                                                         *)
(* A request is sent, served, and answered later, in any order.  A render  *)
(* and its effects are one step.  A closed dialog is kept as ClosedDialog: *)
(* whatever a late answer sets there, opening resets.                      *)
(* Left out: lengths, composition guard, focus, wording, the unread mark.  *)
(***************************************************************************)
EXTENDS Integers, Sequences, Bags, BagsExt

CONSTANTS
  Browsers,
  Texts, Empty,    \* what may be written, and the text of a room without a row
  NoNote,          \* an undefined base or conflict
  MaxCalls,        \* bound on the requests of one browser under way
  MaxShares,       \* bound on the shares pressed in a behaviour
  MayFail          \* whether requests may be refused or lost

ASSUME TextBounds ==
  /\ Empty \in Texts
  /\ MaxCalls \in Nat /\ MaxShares \in Nat /\ MayFail \in BOOLEAN

VARIABLES
  stored,     \* room_shared_text: content and revision, revision 0 without a row
  keyKnown,   \* sharedTextKeys has the room's key
  signal,     \* highest revision each page has observed
  dialog,     \* the dialog of each page
  calls,      \* the bag of its requests under way
  shares,
  notes       \* ghost: the accepted contents, by revision

vars == <<stored, keyKnown, signal, dialog, calls, shares, notes>>

-----------------------------------------------------------------------------

Note == [content : Texts, revision : Nat]

\* activity: "other" stands for idle, shared and copied, which nothing tells
\* apart but the message; "error" also for the text of the error.
Dialog == [open : BOOLEAN, initializing : BOOLEAN, base : Note \union {NoNote},
           draft : Texts, conflict : Note \union {NoNote},
           fetched : Nat \union {-1},
           activity : {"loading", "saving", "error", "other"}]

\* kind: the effect that reads on opening, the effect that reads on a signal,
\* or share.  live is the flag "active" of the effect.  shown is a ghost: the
\* note the writer was to replace when the share was pressed.
Call == [kind : {"open", "signal", "share"}, live : BOOLEAN,
         expected : Nat, shown : Note \union {NoNote}, content : Texts,
         result : {"sent", "note", "conflict"},
         note : Note \union {NoNote}]

NoRow == [content |-> Empty, revision |-> 0]

ClosedDialog == [open |-> FALSE, initializing |-> FALSE, base |-> NoNote,
                 draft |-> Empty, conflict |-> NoNote, fetched |-> -1,
                 activity |-> "other"]

TypeOK ==
  /\ stored \in Note /\ keyKnown \in BOOLEAN
  /\ signal \in [Browsers -> Nat]
  /\ dialog \in [Browsers -> Dialog]
  /\ \A b \in Browsers : IsABag(calls[b]) /\ DOMAIN calls[b] \subseteq Call
  /\ shares \in 0 .. MaxShares
  /\ notes \in Seq(Texts)

Init ==
  /\ stored = NoRow /\ keyKnown = TRUE /\ notes = <<>>
  /\ signal = [b \in Browsers |-> 0]
  /\ dialog = [b \in Browsers |-> ClosedDialog]
  /\ calls = [b \in Browsers |-> EmptyBag]
  /\ shares = 0

-----------------------------------------------------------------------------
(* The service.                                                             *)

Answered(b, call, result) ==
  calls' = [calls EXCEPT ![b] = BagAdd(BagRemove(@, call),
              [call EXCEPT !.result = result, !.note = stored'])]

\* readSharedText needs the key only when there is a row to decrypt.
Readable == keyKnown \/ stored.revision = 0

ServeRead(b, call) ==
  /\ call.kind # "share" /\ call.result = "sent"
  /\ Readable
  /\ UNCHANGED stored /\ Answered(b, call, "note")
  /\ UNCHANGED <<keyKnown, signal, dialog, shares, notes>>

\* updateSharedText compares the revision, and replaceSharedText once more in
\* its transaction.
Current(call) == stored.revision = call.expected

\* Variant: the row keeps its revision.
ReplacedInPlace(content) == [content |-> content, revision |-> stored.revision]

Replaced(content) == [content |-> content, revision |-> stored.revision + 1]

AcceptWrite(b, call) ==
  /\ call.kind = "share" /\ call.result = "sent"
  /\ keyKnown /\ Current(call)
  /\ stored' = Replaced(call.content)
  /\ notes' = Append(notes, call.content)
  /\ Answered(b, call, "note")
  /\ UNCHANGED <<keyKnown, signal, dialog, shares>>

RejectWrite(b, call) ==
  /\ call.kind = "share" /\ call.result = "sent"
  /\ Readable /\ ~ Current(call)
  /\ UNCHANGED stored /\ Answered(b, call, "conflict")
  /\ UNCHANGED <<keyKnown, signal, dialog, shares, notes>>

\* The keys live in memory; a holder of the room's token brings the key back.
Restart ==
  /\ keyKnown /\ keyKnown' = FALSE
  /\ UNCHANGED <<stored, signal, dialog, calls, shares, notes>>

RememberKey ==
  /\ ~ keyKnown /\ keyKnown' = TRUE
  /\ UNCHANGED <<stored, signal, dialog, calls, shares, notes>>

-----------------------------------------------------------------------------
(* The dialog.                                                              *)

Send(b, others, kind, expected, shown, content) ==
  /\ BagCardinality(others) < MaxCalls
  /\ calls' = [calls EXCEPT ![b] = BagAdd(others,
       [kind |-> kind, live |-> TRUE, expected |-> expected, shown |-> shown,
        content |-> content, result |-> "sent", note |-> NoNote])]

\* The cleanup of the signal effect: its request is deaf from then on.
WithoutSignal(b) ==
  [call \in {c \in DOMAIN calls[b] : c.kind # "signal"} |-> calls[b][call]]

\* The cleanup of both effects.  At most one opening read is live.
Deafened(b) ==
  LET live == {c \in DOMAIN calls[b] : c.kind = "open" /\ c.live}
  IN  IF live = {} THEN WithoutSignal(b)
      ELSE LET c == CHOOSE c \in live : TRUE
           IN  BagAdd(BagRemoveAll(WithoutSignal(b), c), [c EXCEPT !.live = FALSE])

Open(b) ==
  /\ ~ dialog[b].open
  /\ dialog' = [dialog EXCEPT ![b] = [ClosedDialog EXCEPT !.open = TRUE,
                  !.initializing = TRUE, !.activity = "loading"]]
  /\ Send(b, calls[b], "open", 0, NoNote, Empty)
  /\ UNCHANGED <<stored, keyKnown, signal, shares, notes>>

Close(b) ==
  /\ dialog[b].open
  /\ dialog' = [dialog EXCEPT ![b] = ClosedDialog]
  /\ calls' = [calls EXCEPT ![b] = Deafened(b)]
  /\ UNCHANGED <<stored, keyKnown, signal, shares, notes>>

\* An event or a polled view brings a newer revision; the signal effect reads
\* again, unless the dialog is still initializing.
Fetches(b, r) == dialog[b].open /\ ~ dialog[b].initializing /\ r > dialog[b].fetched

Observe(b, r) ==
  /\ r > signal[b]
  /\ signal' = [signal EXCEPT ![b] = r]
  /\ IF Fetches(b, r)
     THEN Send(b, WithoutSignal(b), "signal", 0, NoNote, Empty)
     ELSE calls' = [calls EXCEPT ![b] = WithoutSignal(b)]
  /\ UNCHANGED <<stored, keyKnown, dialog, shares, notes>>

Dirty(b) == dialog[b].base # NoNote /\ dialog[b].draft # dialog[b].base.content

\* Typing, or the button that clears the draft.
Edit(b, t) ==
  /\ dialog[b].open /\ dialog[b].base # NoNote /\ t # dialog[b].draft
  /\ dialog[b].activity # "loading" \/ t = Empty
  /\ dialog' = [dialog EXCEPT ![b].draft = t, ![b].activity = "other"]
  /\ UNCHANGED <<stored, keyKnown, signal, calls, shares, notes>>

\* Copying, and its timer, end whatever activity was shown.
Copy(b) ==
  /\ dialog[b].open /\ dialog[b].base # NoNote
  /\ dialog[b].activity \in {"loading", "saving"}
  /\ dialog' = [dialog EXCEPT ![b].activity = "other"]
  /\ UNCHANGED <<stored, keyKnown, signal, calls, shares, notes>>

\* Variant: the revision of the latest answer is taken for the one shown.
LatestFetched(b, shown) == IF dialog[b].fetched = -1 THEN 0 ELSE dialog[b].fetched

Expected(b, shown) == shown.revision

\* share(): shown is the base, or the conflict that is to be replaced.
Press(b, shown) ==
  /\ dialog[b].open /\ dialog[b].base # NoNote
  /\ shares < MaxShares /\ shares' = shares + 1
  /\ dialog' = [dialog EXCEPT ![b].activity = "saving"]
  /\ Send(b, calls[b], "share", Expected(b, shown), shown, dialog[b].draft)
  /\ UNCHANGED <<stored, keyKnown, signal, notes>>

Share(b) == Dirty(b) /\ dialog[b].activity # "saving" /\ Press(b, dialog[b].base)

Replace(b) == dialog[b].conflict # NoNote /\ Press(b, dialog[b].conflict)

\* Every place that shows a note as the current one.
Shows(d, note) == [d EXCEPT !.base = note, !.draft = note.content,
                            !.conflict = NoNote, !.activity = "other"]

UseLatest(b) ==
  /\ dialog[b].conflict # NoNote
  /\ dialog' = [dialog EXCEPT ![b] = Shows(@, dialog[b].conflict)]
  /\ UNCHANGED <<stored, keyKnown, signal, calls, shares, notes>>

-----------------------------------------------------------------------------
(* Answers.                                                                 *)

Failed(d) == [d EXCEPT !.activity = "error"]

\* The opening read keeps a conflict that a late share brought meanwhile; its
\* "finally" ends the initialization even when the effect is long gone.
Opened(d, call) ==
  LET after == [d EXCEPT !.initializing = FALSE]
  IN  IF ~ call.live THEN after
      ELSE [Shows(after, call.note) EXCEPT !.fetched = call.note.revision,
                                           !.conflict = d.conflict]

\* A draft of the user's is kept from a newer note.
KeepsDraft(d, note) ==
  /\ d.base # NoNote => d.draft # d.base.content
  /\ d.base = NoNote => d.draft # Empty
  /\ note.revision > (IF d.base = NoNote THEN 0 ELSE d.base.revision)

Signalled(d, call) ==
  LET after == [d EXCEPT !.fetched = call.note.revision]
  IN  IF KeepsDraft(d, call.note)
      THEN [after EXCEPT !.conflict = call.note]
      ELSE Shows(after, call.note)

Larger(a, b) == IF a < b THEN b ELSE a

\* Variant: the conflict is remembered under the revision of the base.
SharedOnOldBase(d, call) ==
  IF call.result = "note" \/ d.base = NoNote THEN Shows(d, call.note)
  ELSE [d EXCEPT !.conflict = [call.note EXCEPT !.revision = d.base.revision]]

\* No flag guards the answer of a share: it is applied to whatever the dialog
\* has become.
Shared(d, call) ==
  IF call.result = "note"
  THEN [Shows(d, call.note) EXCEPT !.fetched = call.note.revision]
  ELSE [d EXCEPT !.fetched = Larger(@, call.note.revision),
                 !.conflict = call.note, !.activity = "other"]

Applied(d, call) ==
  IF ~ d.open THEN d
  ELSE CASE call.kind = "open" -> Opened(d, call)
         [] call.kind = "signal" -> Signalled(d, call)
         [] call.kind = "share" -> Shared(d, call)

Settled(b, call, after) ==
  /\ dialog' = [dialog EXCEPT ![b] = after]
  /\ calls' = [calls EXCEPT ![b] = BagRemove(@, call)]
  /\ UNCHANGED <<stored, keyKnown, signal, shares, notes>>

Apply(b, call) == call.result # "sent" /\ Settled(b, call, Applied(dialog[b], call))

\* A request that the service refuses (limits, authorization, no key), or that
\* is lost with its answer.
Refused(d, call) ==
  LET after == IF call.kind = "open" THEN [d EXCEPT !.initializing = FALSE] ELSE d
  IN  IF d.open /\ call.live THEN Failed(after) ELSE after

Fail(b, call) == MayFail /\ Settled(b, call, Refused(dialog[b], call))

-----------------------------------------------------------------------------

ServiceStep ==
  \/ \E b \in Browsers : \E call \in DOMAIN calls[b] :
       ServeRead(b, call) \/ AcceptWrite(b, call) \/ RejectWrite(b, call)
  \/ Restart
  \/ RememberKey

BrowserStep(b) ==
  \/ Open(b) \/ Close(b) \/ Copy(b) \/ Share(b) \/ Replace(b) \/ UseLatest(b)
  \/ \E r \in 1 .. stored.revision : Observe(b, r)
  \/ \E t \in Texts : Edit(b, t)
  \/ \E call \in DOMAIN calls[b] : Apply(b, call) \/ Fail(b, call)

Next == ServiceStep \/ \E b \in Browsers : BrowserStep(b)

Spec == Init /\ [][Next]_vars

-----------------------------------------------------------------------------
(* Properties.                                                              *)

Notes == {[content |-> notes[r], revision |-> r] : r \in DOMAIN notes} \union {NoRow}

\* Every note in a dialog, in an answer or in the database is a note the room
\* accepted, under the revision it was accepted with: no answer that is late,
\* repeated or applied to a reopened dialog pairs a content with the revision
\* of another (updateSharedText, share and both effects).
NotesAreAccepted ==
  /\ stored.revision = Len(notes) /\ stored \in Notes
  /\ \A b \in Browsers :
       /\ {dialog[b].base, dialog[b].conflict} \subseteq Notes \union {NoNote}
       /\ \A call \in DOMAIN calls[b] :
            {call.note, call.shown} \subseteq Notes \union {NoNote}

\* A write that is accepted replaces exactly the note its writer had on the
\* screen, as the base or as the conflict to be replaced: nobody's text is
\* overwritten unseen (the revision protocol of SHARED_TEXT_DESIGN.md).
NothingOverwrittenUnseen ==
  [][stored' # stored =>
       \E b \in Browsers : \E call \in DOMAIN calls[b] :
         /\ call.shown = stored
         /\ Answered(b, call, "note")]_vars

\* Once a page has observed the newest revision and nothing is under way, an
\* open dialog without edits and without an error shows the newest note or
\* offers it ("missed events converge by snapshot revision polling",
\* SHARED_TEXT_DESIGN.md).
QuietDialogIsCurrent ==
  \A b \in Browsers :
    /\ dialog[b].open /\ dialog[b].activity # "error" /\ ~ Dirty(b)
    /\ signal[b] = stored.revision /\ calls[b] = EmptyBag
    => stored \in {dialog[b].base, dialog[b].conflict}

\* A draft that differs from its base is changed by its user or by the answer
\* to his own share, never by a note somebody else wrote.
RemoteTextKeepsDraft ==
  [][\A b \in Browsers :
       /\ Dirty(b) /\ dialog'[b].open /\ dialog'[b].draft # dialog[b].draft
       => \A call \in DOMAIN calls[b] :
            call.kind = "signal" => call \in DOMAIN calls'[b]]_vars
=============================================================================
