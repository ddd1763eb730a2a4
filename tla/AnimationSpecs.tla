--------------------------- MODULE AnimationSpecs ---------------------------
(***************************************************************************)
(* The animation plan of one slide in one language: the store              *)
(* (internal/animation/animstore), the PUT handler that compares with the  *)
(* stored plan before it writes (internal/api/animation.go), the editor    *)
(* with its draft (web/src/AnimationEditor.tsx), the request that          *)
(* applies a style to the whole deck (animation_applyall.go) and an export *)
(* that pins a plan now and draws it later (internal/app/animation_pages). *)
(*                                                                         *)
(* Rows are never deleted and every write raises revision, so <<version,   *)
(* revision>> names a content.  A plan is reduced to the entrance clip of  *)
(* one element: when it appears, where that came from, and its id; style,  *)
(* strength and the other clips are what a draft may differ in besides.    *)
(* A Put is one step: its UPDATE repeats the comparison, and of two        *)
(* inserts the unique key lets one through.  One editor is modelled step   *)
(* by step; the others are what they write.                                *)
(***************************************************************************)
EXTENDS Naturals

CONSTANTS
  Segments,  \* the segments of the slide's script
  ClipIds,   \* ids a generated clip may get (c1, c2, ...)
  Made,      \* bound: the clips that generation makes, of Generable
  None,      \* no row, no draft, no request
  Crews,     \* bound: which of "editor", "others", "legacy", "deck", "export" are about
  MaxRev     \* bound on the revision of a row

VARIABLES
  row,   \* row[v]: the plan of source version v; 0 is the legacy row
  ed,    \* what the editor holds
  deck,  \* an apply-all request at this slide: what it has read
  pin,   \* an export: the plan it was told to draw
  crew   \* who is about in this behaviour

animationVars == <<row, ed, deck, pin, crew>>

Versions == {0, 1}
\* "static": the element has no clip, and so appears with the page.
Moments == Segments \cup {"enter"}
Triggers == Moments \cup {"static"}
\* "rule": bound by a rule or the model; "manual": the mark of a person's change.
Labels == {"none", "rule", "manual"}
\* hand: history, a person chose this trigger.
Clips == [id : ClipIds, trigger : Triggers, label : Labels, hand : BOOLEAN]

\* What default generation makes: clips in sequence, or clips bound to what is said.
Sequenced == [id : ClipIds, trigger : Moments, label : {"none"}, hand : {FALSE}]
Bound == [id : ClipIds, trigger : Segments, label : {"rule"}, hand : {FALSE}]
           \cup [id : ClipIds, trigger : {"static"}, label : {"none"}, hand : {FALSE}]
Generable == Sequenced \cup Bound

ASSUME AnimationAssumption ==
  /\ Made \subseteq Generable
  /\ "static" \notin Segments
  /\ MaxRev \in Nat \ {0}

NoRow == [rev |-> 0, clip |-> None]
Plan(v) == [ver |-> v, rev |-> row[v].rev, clip |-> row[v].clip]

\* Get: the row of the version, or else the legacy one.
Get(v) == IF row[v] # NoRow THEN Plan(v) ELSE IF row[0] # NoRow THEN Plan(0) ELSE None

Seen(plan) == IF plan = None THEN None ELSE <<plan.ver, plan.rev>>
Number(seen) == IF seen = None THEN 0 ELSE seen[2]

\* A draft: the revision it will be saved under, and (history) the plan its author had
\* before his eyes.
Draft(seen, clip) == [rev |-> Number(seen), seen |-> seen, clip |-> clip]
DraftOf(plan) == IF plan = None THEN None ELSE Draft(Seen(plan), plan.clip)

\* saved, draft, conflict: as in the code.  untouched: the draft is the last prefill
\* (prefillBaselineRef, null at first like the draft); ask: a generation under way, with
\* the draft it started from; busy: prefilling; waits: an answer of the model may come,
\* and polled: what was saved when the poll for it was sent, which its closure keeps;
\* later: one that was put aside (prefillPending); call: a PUT under way, and of an
\* overwrite the draft to go back to.
NoCall == [step |-> "none", draft |-> None, over |-> None]
NoEditor == [saved |-> None, draft |-> None, conflict |-> None, untouched |-> TRUE,
             ask |-> None, busy |-> FALSE, waits |-> FALSE, polled |-> None, later |-> None,
             call |-> NoCall]

AnimationInit ==
  /\ row \in {[v \in Versions |-> IF v = 0 THEN old ELSE NoRow] :
               old \in {NoRow} \cup {[rev |-> 1, clip |-> c] : c \in Made}}
  /\ ed = NoEditor
  /\ deck = None
  /\ pin = None
  /\ crew \in Crews
-----------------------------------------------------------------------------
(* The store and the handlers.                                             *)

\* No row is revision 0.
MayPut(v, expected) == row[v].rev = expected

Put(v, clip) ==
  /\ row[v].rev < MaxRev
  /\ row' = [row EXCEPT ![v] = [rev |-> row[v].rev + 1, clip |-> clip]]

\* ReconcileTriggerSources: a clip of the stored plan, known by its id, that a rule
\* had bound and whose trigger differs now, is marked.
Reconciled(prev, clip) ==
  IF /\ prev # None /\ "static" \notin {prev.clip.trigger, clip.trigger}
     /\ prev.clip.id = clip.id /\ prev.clip.trigger # clip.trigger /\ prev.clip.label = "rule"
    THEN [clip EXCEPT !.label = "manual"]
    ELSE clip

\* The PUT handler reads the stored plan and compares ...
PutReads ==
  /\ ed.call.step = "sent"
  /\ ed' = [ed EXCEPT !.call.step = "read",
                      !.call.draft.clip = Reconciled(Get(1), ed.call.draft.clip)]
  /\ UNCHANGED <<row, deck, pin>>

\* ... and writes, if the revision is still the one the editor expects.
PutWrites ==
  /\ ed.call.step = "read"
  /\ \/ /\ MayPut(1, ed.call.draft.rev) /\ Put(1, ed.call.draft.clip)
        /\ ed' = [ed EXCEPT !.call.step = "saved"]
     \/ /\ ~MayPut(1, ed.call.draft.rev)
        /\ ed' = [ed EXCEPT !.call.step = "refused"]
        /\ UNCHANGED row
  /\ UNCHANGED <<deck, pin>>

\* Another editor's PUT, or one of an old client that names no source version: what a
\* person has chosen, or generated plans.
OthersSave(v) ==
  /\ \E clip \in Made, hand \in BOOLEAN :
       Put(v, Reconciled(Get(v), [clip EXCEPT !.hand = hand /\ clip.label = "none"
                                                         /\ clip.trigger # "static"]))
  /\ UNCHANGED <<ed, deck, pin>>

Skips(over) == ~over /\ Get(1) # None /\ Get(1).clip.label = "manual"

\* applyOneSlide: reads, skips a plan a person has marked unless told otherwise ...
ApplyReads(over) ==
  /\ deck = None /\ ~Skips(over)
  /\ deck' = [prev |-> Get(1), over |-> over]
  /\ UNCHANGED <<row, ed, pin>>

\* Mutant: the whole deck is written without a look at what is there now.
ExpectedNow == row[1].rev

Expected == Number(Seen(deck.prev))

\* ... generates a plan, compares it with the one it has read, and writes; or gives
\* the slide up.
ApplyWrites ==
  /\ deck # None /\ deck' = None
  /\ \/ /\ MayPut(1, Expected)
        /\ \E clip \in Made : Put(1, Reconciled(deck.prev, clip))
     \/ UNCHANGED row
  /\ UNCHANGED <<ed, pin>>

\* Mutant: the pin carries the version that was asked for.
PinnedAsked == IF Get(1) = None THEN None ELSE [Get(1) EXCEPT !.ver = 1]

\* animationOptions: the version and the revision of the row that was found.
Pinned == Get(1)

PinPlan ==
  /\ pin = None /\ pin' = Pinned
  /\ UNCHANGED <<row, ed, deck>>

\* revision: a plan with another revision number leaves the page static.
Drawn == LET found == Get(pin.ver)
         IN IF found # None /\ found.rev = pin.rev THEN found ELSE None

Export ==
  /\ pin # None /\ pin' = None
  /\ UNCHANGED <<row, ed, deck>>
-----------------------------------------------------------------------------
(* The editor.  While a PUT is under way its controls are disabled.        *)

Web == UNCHANGED <<row, deck, pin>>
Free == ed.call = NoCall
Edits == Free /\ ed.draft # None

\* The plan is read again after apply-all, and what is on its way still arrives; or the
\* drawer is opened anew.
Load ==
  /\ \E old \in {ed, NoEditor} :
       ed' = [NoEditor EXCEPT !.saved = Seen(Get(1)), !.draft = DraftOf(Get(1)),
                              !.untouched = Get(1) = None,
                              !.ask = old.ask, !.waits = old.waits, !.polled = old.polled,
                              !.call = old.call]
  /\ Web

Change(clip) == ed' = [ed EXCEPT !.draft.clip = clip, !.untouched = FALSE]

\* withTrackTrigger: another moment, and the label goes.
Retime ==
  /\ Edits /\ ed.draft.clip.trigger # "static"
  /\ \E t \in Moments \ {ed.draft.clip.trigger} :
       Change([ed.draft.clip EXCEPT !.trigger = t, !.label = "none", !.hand = TRUE])
  /\ Web

\* revokeSource, revokeBinding: back to the start of the page, and the label goes.
Revoke ==
  /\ Edits /\ ed.draft.clip.label # "none"
  /\ Change([ed.draft.clip EXCEPT !.trigger = "enter", !.label = "none", !.hand = TRUE])
  /\ Web

\* A change of strength makes another draft of the same clip.
Adjust ==
  /\ Edits /\ ed.untouched
  /\ Change(ed.draft.clip)
  /\ Web

\* applyPreset and runPrefill ask for a plan; a later request replaces an earlier one.
\* A prefill is for a slide without a saved plan, one at a time; one that a style has
\* replaced stays "prefilling".
Ask(kind) ==
  /\ Free
  /\ kind = "prefill" => ed.saved = None /\ ~ed.busy
  /\ ed' = [ed EXCEPT !.ask = [kind |-> kind, rev |-> Number(ed.saved), seen |-> ed.saved,
                               clip |-> IF ed.draft = None THEN None ELSE ed.draft.clip],
                      !.busy = ed.busy \/ kind = "prefill",
                      !.later = IF kind = "prefill" THEN None ELSE ed.later]
  /\ Web

\* carryBindings: the new clip takes over when the old one appeared, and its label.
Carried(clip) ==
  IF ed.ask.clip = None \/ ed.ask.clip.trigger = "static" THEN clip
  ELSE [ed.ask.clip EXCEPT !.id = clip.id]

\* Mutant: the number is the one the editor knows when the answer arrives.
AskedRevNow == Number(ed.saved)

\* The number is the one it knew at the click.
AskedRev == ed.ask.rev

Asked(kind) == ed.ask # None /\ ed.ask.kind = kind
Generated(clip) == [rev |-> AskedRev, seen |-> ed.ask.seen, clip |-> clip]

PresetArrives ==
  /\ Asked("preset")
  /\ \E clip \in Made \cap Sequenced :
       ed' = [ed EXCEPT !.draft = Generated(Carried(clip)), !.untouched = FALSE, !.ask = None]
  /\ Web

\* The rules have bound what they can; the model may follow.
PrefillArrives ==
  /\ Asked("prefill")
  /\ \E clip \in Made, waits \in BOOLEAN :
       ed' = [ed EXCEPT !.draft = Generated(clip), !.untouched = TRUE, !.busy = waits,
                           !.waits = waits, !.polled = IF waits THEN ed.saved ELSE None,
                           !.ask = None]
  /\ Web

AskFails ==
  /\ ed.ask # None
  /\ ed' = [ed EXCEPT !.ask = None, !.busy = ed.busy /\ ~Asked("prefill")]
  /\ Web

\* Mutant: the answer of the model replaces the draft, changed or not.
ReplacesAlways == TRUE

Replaces == ed.untouched

PollAsks ==
  /\ ed.waits
  /\ ed' = [ed EXCEPT !.polled = ed.saved]
  /\ Web

Answered == [ed EXCEPT !.busy = FALSE, !.waits = FALSE, !.polled = None]

\* The poll brings the model's plan.  Its number is that of the plan saved when the
\* poll was sent, whatever has been saved since.
PollArrives ==
  /\ ed.waits
  /\ \E clip \in Made \cap Bound :
       ed' = IF Replaces
               THEN [Answered EXCEPT !.draft = Draft(ed.polled, clip)]
               ELSE [Answered EXCEPT !.later = Draft(ed.polled, clip)]
  /\ Web

\* The model has failed, or the editor waits no longer.
PollEnds == ed.waits /\ ed' = Answered /\ Web

Adopt ==
  /\ Free /\ ed.later # None
  /\ ed' = [ed EXCEPT !.draft = ed.later, !.untouched = TRUE, !.later = None]
  /\ Web

Save ==
  /\ Edits
  /\ ed' = [ed EXCEPT !.call = [step |-> "sent", draft |-> ed.draft, over |-> None]]
  /\ Web

\* The answer to a PUT that was written is the plan as stored.
SaveAnswers ==
  /\ ed.call.step = "saved"
  /\ LET plan == [ver |-> 1, rev |-> ed.call.draft.rev + 1, clip |-> ed.call.draft.clip]
     IN ed' = [ed EXCEPT !.saved = Seen(plan), !.draft = DraftOf(plan), !.untouched = FALSE,
                         !.conflict = None, !.call = NoCall]
  /\ Web

\* A refused save fetches the latest plan, if it can; a call whose answer is lost is an
\* error and the draft stays.
SaveFails ==
  /\ ~Free /\ ed.call.over = None
  /\ \E latest \in {ed.conflict, None, Get(1)} :
       /\ latest # ed.conflict => ed.call.step = "refused"
       /\ ed' = [ed EXCEPT !.conflict = latest, !.call = NoCall]
  /\ Web

\* A refused overwrite is an error like any other; the draft goes back to what it was,
\* the last prefill perhaps if none has arrived meanwhile.
OverwriteFails ==
  /\ ~Free /\ ed.call.over # None
  /\ \E untouched \in {FALSE, ed.call.over.untouched} :
       ed' = [ed EXCEPT !.draft = ed.call.over.draft, !.untouched = untouched, !.call = NoCall]
  /\ Web

TakeLatest ==
  /\ Free /\ ed.conflict # None
  /\ ed' = [ed EXCEPT !.conflict = None, !.saved = Seen(ed.conflict), !.draft = DraftOf(ed.conflict),
                      !.untouched = FALSE]
  /\ Web

Overwrite ==
  /\ Edits /\ ed.conflict # None
  /\ ed' = [ed EXCEPT !.conflict = None,
                      !.call = [step |-> "sent", draft |-> Draft(Seen(ed.conflict), ed.draft.clip),
                                over |-> [draft |-> ed.draft, untouched |-> ed.untouched]]]
  /\ Web
-----------------------------------------------------------------------------
Edit ==
  \/ Load \/ Retime \/ Revoke \/ Adjust \/ Adopt \/ Ask("preset") \/ Ask("prefill")
  \/ PresetArrives \/ PrefillArrives \/ AskFails \/ PollAsks \/ PollArrives \/ PollEnds
  \/ Save \/ PutReads \/ PutWrites \/ SaveAnswers \/ SaveFails
  \/ TakeLatest \/ Overwrite \/ OverwriteFails

AnimationNext ==
  /\ \/ "editor" \in crew /\ Edit
     \/ "others" \in crew /\ OthersSave(1)
     \/ "legacy" \in crew /\ OthersSave(0)
     \/ "deck" \in crew /\ (ApplyWrites \/ \E over \in BOOLEAN : ApplyReads(over))
     \/ "export" \in crew /\ (PinPlan \/ Export)
  /\ UNCHANGED crew

AnimationSpec == AnimationInit /\ [][AnimationNext]_animationVars
-----------------------------------------------------------------------------
Written == ed.call.step = "read" /\ ed'.call.step = "saved" /\ row[1] # NoRow

\* A save replaces the plan its author had before his eyes when he asked for what he
\* saves, or nothing -- unless that was the legacy plan, whose number may be the same.
SaveReplacesSeen ==
  [][Written => ed.call.draft.seen \in {<<v, row[1].rev>> : v \in Versions}]_animationVars

\* Apply-all does not replace a plan with a marked binding unless told to, whenever
\* the mark was made -- unless it has read the legacy plan.
MarkedKept ==
  [][deck # None /\ ~deck.over /\ deck' = None /\ row[1] # NoRow /\ row'[1] # row[1] =>
       row[1].clip.label # "manual" \/ (deck.prev # None /\ deck.prev.ver = 0)]_animationVars

\* A choice not saved yet stays in the draft whatever arrives: a new style, or the
\* plan of the model -- except a style asked for before the choice was
\* made, and the start of a prefill, which is a new beginning.
DraftKept ==
  [][/\ ed.draft # None /\ ed.draft.clip.hand
     /\ PresetArrives \/ PollArrives
     => \/ ed'.draft.clip.trigger = ed.draft.clip.trigger
        \/ ed.ask # ed'.ask /\ (ed.ask.clip = None \/ ed.ask.clip # ed.draft.clip)]_animationVars

\* What an export draws is what it was told to draw.
ExportedAsPinned == pin # None /\ Drawn # None => Drawn.clip = pin.clip
-----------------------------------------------------------------------------
(* Statements of the specification that the code does not keep             *)

\* A save does not replace what others have changed (animation-spec/spec.md:146).
NeverOverwritten == [][Written => ed.call.draft.seen = <<1, row[1].rev>>]_animationVars

\* A binding that a person has changed is marked as manual (animation-spec/spec.md:208).
HandIsMarked == row[1] # NoRow /\ row[1].clip.hand => row[1].clip.label = "manual"

\* TriggerSource "manual" says that a person has changed the trigger
\* (hasManualAnimationEdits).
ManualIsHand == row[1] # NoRow /\ row[1].clip.label = "manual" => row[1].clip.hand
=============================================================================
