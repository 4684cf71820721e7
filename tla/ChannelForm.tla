---------------------------- MODULE ChannelForm ----------------------------
(***************************************************************************)
(* web/static/js/admin.js: the form of one notification channel, which     *)
(* never sees the secret it edits.  A configured secret is shown as a mask *)
(* that makes way when the field gets the focus; the form sends a new      *)
(* secret, a blank that means "keep", or a flag that means "clear".  What  *)
(* the user gets depends on flags kept in the field, on when the form is   *)
(* drawn again, and on how the server merges what is posted with the       *)
(* override it has and with its configuration file.                        *)
(*                                                                         *)
(* Abstraction.  Telegram, Bark, WeChat and Email differ in how many inputs*)
(* they have: one secret and one other input stand for them, and traits    *)
(* says which kind of input the other is.  A queued save is one step at the*)
(* server (AdminPage has the queue); one save at a time.  Left out: the    *)
(* structured webhook, a list of receivers that replaces what the          *)
(* configuration file has, the log, which has no secret, and a Bark key    *)
(* that is written into the server's address.                              *)
(***************************************************************************)
EXTENDS Naturals

CONSTANTS
    Secret,     \* what the user may type, or the configuration file hold
    Text,       \* what the other inputs hold: templates, titles, addresses
    Default,    \* what an empty input of the Bark form is drawn with
    Traits,     \* the kinds of inputs there are: what a kind is marked with
    Blank,      \* an empty field
    Mask,       \* the dots that stand for a configured secret
    Smudged     \* the mask with something typed behind it

ASSUME FormAssumption ==
    /\ Secret # {} /\ Default \in Text /\ Text # {Default}
    /\ Traits \subseteq SUBSET {"required", "destination", "default"}
    /\ Blank \notin Secret \cup Text /\ {"keep", "clear", "reset"} \cap Secret = {}
    /\ {Mask, Smudged} \cap (Secret \cup Text \cup {Blank}) = {} /\ Mask # Smudged

VARIABLES
    traits,     \* of the other input, see below
    base,       \* the channel in the server's configuration file
    override,   \* at most one element: the channel in the server's settings
    shown,      \* state.settings' entry: the same without the secret
    field,      \* the secret's input element and its dataset
    text,       \* the other inputs
    focused,    \* the cursor is in the secret's field
    baseline,   \* state.localBaseline
    dirty,      \* state.localDirty
    turn,       \* where the channel's save is, and what the user had asked for
    intent,     \* history: what the user did to the secret since the form was drawn
    redrawn,    \* history: the form was drawn under the cursor
    missed      \* history: the form was not drawn after a change at the server

formServer == <<traits, base, override>>
formPage == <<shown, field, text, focused, baseline, dirty>>
formHistory == <<intent, redrawn, missed>>
formVars == <<formServer, formPage, turn, formHistory>>

(* A kind of input may be marked as                                        *)
(* "required": a test is not let through without it (an id, a recipient);  *)
(* "destination": the secret is sent there (the server of Email or Bark);  *)
(* "default": drawn with one when it is empty (Bark's server, title, group).*)

Channel == [text : Text \cup {Blank}, secret : Secret \cup {Blank, Smudged}, clear : BOOLEAN]

Reset == [reset |-> TRUE]
Turn(step, payload, asked) == [step |-> step, payload |-> payload, asked |-> asked]
NoTurn == Turn("idle", Reset, "keep")

----------------------------------------------------------------------------
(* The server: merge_sensitive_fields and what a channel is in effect.     *)

Given(value, otherwise) == IF value = Blank THEN otherwise ELSE value

\* Mutant of Merge: a blank secret is stored as it is.
MergeBlank(p, current) == {[p EXCEPT !.secret = IF p.clear THEN Blank ELSE @]}

\* A blank keeps the secret, and the flag, of the override there is.
Merge(p, current) ==
    IF p.clear THEN {[p EXCEPT !.secret = Blank]}
    ELSE IF p.secret = Blank /\ current # {}
         THEN {[p EXCEPT !.secret = o.secret, !.clear = o.clear] : o \in current}
         ELSE {p}

\* effective_tgbot_config and its likes.
Effective(current) ==
    IF current = {} THEN [base EXCEPT !.clear = FALSE]
    ELSE LET o == CHOOSE o \in current : TRUE IN
         [text |-> Given(o.text, base.text), clear |-> FALSE,
          secret |-> IF o.clear THEN Blank ELSE Given(o.secret, base.secret)]

\* public_admin_data
Public(current) ==
    {[text |-> o.text, clear |-> o.clear,
      configured |-> ~o.clear /\ o.secret # Blank] : o \in current}

\* destination_changed of build_bark_test_config and build_email_test_config
Moved(p) ==
    "destination" \in traits /\ p.text # Blank /\ p.text # Effective(override).text

\* test_admin_notification: the secret a test of the posted form would use.  The
\* stored one is not sent to another destination.
TestedWith(p) ==
    IF p.clear \/ (Moved(p) /\ p.secret = Blank) THEN Blank
    ELSE Given(p.secret, Effective(override).secret)

----------------------------------------------------------------------------
(* Drawing and reading the form.                                           *)

\* setSecretInputState
FreshField(configured, clear) ==
    [configured |-> configured /\ ~clear, original |-> configured /\ ~clear,
     masked |-> configured /\ ~clear, clear |-> clear,
     value |-> IF configured /\ ~clear THEN Mask ELSE Blank]

\* Mutant of DrawnField: the configuration file's secret is left out.
DrawnFieldSaved(saved) ==
    IF saved = {} THEN FreshField(FALSE, FALSE)
    ELSE LET s == CHOOSE s \in saved : TRUE IN FreshField(s.configured, s.clear)

DrawnField(saved) ==
    IF saved = {} THEN FreshField(base.secret # Blank, FALSE)
    ELSE LET s == CHOOSE s \in saved : TRUE IN
         FreshField(~s.clear /\ (s.configured \/ base.secret # Blank), s.clear)

\* { ...base, ...saved }
StoredText(saved) ==
    IF saved = {} THEN base.text ELSE LET s == CHOOSE s \in saved : TRUE IN s.text

\* The default stands where an input is stored empty.
Filled(saved) == "default" \in traits /\ StoredText(saved) = Blank

DrawnText(saved) == IF Filled(saved) THEN Default ELSE StoredText(saved)

ReadSecret(f) == IF f.masked \/ f.value = Mask THEN Blank ELSE f.value

\* collectTgbotSettings and its likes: what is posted, and compared.
Collected(f, t) == [text |-> t, secret |-> ReadSecret(f), clear |-> f.clear]

\* renderTgbotNotification and its likes, whatever the user was doing.
Draw(saved) ==
    /\ shown' = saved
    /\ field' = DrawnField(saved)
    /\ text' = DrawnText(saved)
    /\ baseline' = Collected(field', text')
    /\ dirty' = FALSE
    /\ intent' = "keep"
    /\ redrawn' = (redrawn \/ (focused /\ field'.masked))
    /\ UNCHANGED focused

\* Mutant of Refresh: the mark for clearing is not compared.
RefreshUnmarked == dirty' = (text' # baseline.text \/ ReadSecret(field') # baseline.secret)

\* refreshLocalDirty
Refresh == dirty' = (Collected(field', text') # baseline)

----------------------------------------------------------------------------
(* What the user does in the form.                                         *)

Edit == UNCHANGED <<formServer, shown, baseline, turn, redrawn, missed>>

\* handleSecretFocus
Focus ==
    /\ ~focused /\ focused' = TRUE
    /\ field' = IF field.masked THEN [field EXCEPT !.value = Blank, !.masked = FALSE] ELSE field
    /\ UNCHANGED <<text, dirty, intent>>
    /\ Edit

\* handleDashboardFieldChange, updateSecretInputChangeState.  In a field that was
\* masked again under the cursor the text lands behind the dots.
Typed(v) ==
    [field EXCEPT !.value = IF @ = Mask THEN Smudged ELSE v,
                  !.clear = FALSE, !.masked = FALSE, !.configured = FALSE]

Type(v) ==
    /\ focused
    /\ field' = Typed(v)
    /\ intent' = v
    /\ UNCHANGED <<text, focused>> /\ Refresh
    /\ Edit

\* The field is emptied: the flags stay what typing made them.
Erase ==
    /\ focused /\ field.value # Blank
    /\ field' = [field EXCEPT !.value = Blank]
    /\ intent' = IF field.clear THEN "clear" ELSE "keep"
    /\ UNCHANGED <<text, focused>> /\ Refresh
    /\ Edit

\* handleSecretBlur, restoreSecretInput
Blur ==
    /\ focused /\ focused' = FALSE
    /\ field' = IF ~field.clear /\ field.configured /\ field.value = Blank
                THEN [field EXCEPT !.value = Mask, !.masked = TRUE] ELSE field
    /\ UNCHANGED <<text, intent>> /\ Refresh
    /\ Edit

\* toggleSecretClear: marking empties the field, unmarking shows the mask again.
Toggled ==
    IF field.clear /\ field.original
    THEN [field EXCEPT !.clear = FALSE, !.configured = TRUE, !.masked = TRUE, !.value = Mask]
    ELSE [field EXCEPT !.clear = ~@, !.configured = FALSE, !.masked = FALSE, !.value = Blank]

ToggleClear ==
    /\ ~focused /\ (field.original \/ field.configured)
    /\ field' = Toggled
    /\ intent' = IF field'.clear THEN "clear" ELSE "keep"
    /\ UNCHANGED <<text, focused>> /\ Refresh
    /\ Edit

EditText(v) ==
    /\ ~focused /\ text' = v
    /\ UNCHANGED <<field, focused, intent>> /\ Refresh
    /\ Edit

----------------------------------------------------------------------------
(* Saving, resetting, drawing again.                                       *)

\* The payload is collected when the button is clicked.
Click(payload, why) ==
    /\ turn.step = "idle" /\ ~focused
    /\ turn' = Turn("sent", payload, why)
    /\ UNCHANGED <<formServer, formPage, intent, redrawn, missed>>

ClickSave == dirty /\ Click(Collected(field, text), intent)
ClickReset == Click(Reset, "reset")

FormServed ==
    /\ turn.step = "sent"
    /\ override' = IF turn.payload = Reset THEN {} ELSE Merge(turn.payload, override)
    /\ turn' = Turn("answered", Reset, "keep")
    /\ UNCHANGED <<traits, base, formPage, formHistory>>

\* The request or its answer is lost.
FormLost ==
    /\ turn.step \in {"sent", "answered"}
    /\ turn' = NoTurn
    /\ missed' = (missed \/ turn.step = "answered")
    /\ UNCHANGED <<formServer, formPage, intent, redrawn>>

\* mergeScopedSettings, and the channel is asked for once more.
FormSaved ==
    /\ turn.step = "answered"
    /\ shown' = Public(override)
    /\ turn' = Turn("reload", Reset, "keep")
    /\ UNCHANGED <<formServer, field, text, focused, baseline, dirty, formHistory>>

\* reloadNotificationState, resetLocalBaseline: edits made meanwhile are gone.
FormReloaded ==
    /\ turn.step = "reload"
    /\ Draw(Public(override))
    /\ turn' = NoTurn
    /\ missed' = FALSE
    /\ UNCHANGED formServer

FormReloadFails ==
    /\ turn.step = "reload"
    /\ turn' = NoTurn
    /\ missed' = TRUE
    /\ UNCHANGED <<formServer, formPage, intent, redrawn>>

\* A purge was answered with the settings, and renderAll draws every form.
FormDrawnAgain ==
    /\ Draw(Public(override))
    /\ missed' = (missed /\ turn.step # "idle")
    /\ UNCHANGED <<formServer, turn>>

\* validateTgbotSettingsForTest and its likes, of a channel that is switched on
LetsTest ==
    /\ ReadSecret(field) # Blank \/ (~field.clear /\ field.configured)
    /\ "required" \in traits => text # Blank

\* testNotification, when the answer has come; the form may have changed.
FormTested ==
    /\ dirty' = (Collected(field, text) # baseline)
    /\ UNCHANGED <<formServer, shown, field, text, focused, baseline, turn, formHistory>>

FormInit ==
    /\ traits \in Traits
    /\ base \in [text : {CHOOSE t \in Text : t # Default, Blank}, secret : Secret \cup {Blank},
                 clear : {FALSE}]
    /\ override = {}
    /\ shown = {}
    /\ field = FreshField(base.secret # Blank, FALSE)
    /\ text = DrawnText({})
    /\ focused = FALSE
    /\ baseline = Collected(field, text)
    /\ dirty = FALSE
    /\ turn = NoTurn
    /\ intent = "keep"
    /\ redrawn = FALSE /\ missed = FALSE

FormNext ==
    \/ Focus \/ Erase \/ Blur \/ ToggleClear
    \/ \E v \in Secret : Type(v)
    \/ \E v \in Text \cup {Blank} : EditText(v)
    \/ ClickSave \/ ClickReset
    \/ FormServed \/ FormLost \/ FormSaved \/ FormReloaded \/ FormReloadFails
    \/ FormDrawnAgain \/ FormTested

FormSpec == FormInit /\ [][FormNext]_formVars

----------------------------------------------------------------------------
FieldType == [configured : BOOLEAN, original : BOOLEAN, masked : BOOLEAN, clear : BOOLEAN,
              value : Secret \cup {Blank, Mask, Smudged}]
Asks == {"keep", "clear", "reset"} \cup Secret

\* Types of the variables; a masked field shows the mask of a configured secret,
\* unless it was drawn under the cursor.
FormTypeOK ==
    /\ field.masked /\ ~redrawn => field.value = Mask /\ field.configured /\ ~field.clear
    /\ traits \in Traits
    /\ base \in Channel /\ override \subseteq Channel
    /\ shown \subseteq [text : Text \cup {Blank}, clear : BOOLEAN, configured : BOOLEAN]
    /\ field \in FieldType
    /\ text \in Text \cup {Blank}
    /\ baseline \in Channel
    /\ turn \in [step : {"idle", "sent", "answered", "reload"}, payload : Channel \cup {Reset},
                 asked : Asks]
    /\ intent \in Asks
    /\ {focused, dirty, redrawn, missed} \subseteq BOOLEAN

\* A save leaves the channel with the secret the user asked for: the one typed,
\* none after marking it, and else the one it had - whatever was focused, typed,
\* erased, marked and unmarked before, and whatever was saved before.  Promised
\* of a form that was drawn after the last change, and never under the cursor
\* (there the mask itself ends up in the secret).
SecretAsAsked ==
    [][turn.step = "sent" /\ turn'.step = "answered" /\ turn.asked # "reset"
         /\ ~missed /\ ~redrawn =>
       Effective(override').secret =
           CASE turn.asked = "keep" -> Effective(override).secret
             [] turn.asked = "clear" -> Blank
             [] OTHER -> turn.asked]_formVars

\* A form that shows no unsaved change has none: saving it would not change the
\* channel, as long as it was drawn after the last change.  One exception is the
\* code's: where Bark's input is stored empty the form shows a default, and a save
\* puts that in the place of what the configuration file has.
CleanMeansSaved ==
    ~dirty /\ ~missed /\ turn.step = "idle" =>
        Effective(Merge(Collected(field, text), override)) =
            IF Filled(shown) THEN [Effective(override) EXCEPT !.text = Default]
            ELSE Effective(override)

\* A test that the form lets through has a secret to use at the server, unless it
\* goes to another destination and no secret was typed for that.  The form as it
\* was drawn lets a test through exactly when the channel has a secret, be it from
\* the settings or from the configuration file, and tests the channel with it
\* (unless the destination is a default that was drawn for an empty one).
TestHasSecret ==
    ~missed /\ turn.step = "idle" =>
        LET p == Collected(field, text) IN
        /\ LetsTest => TestedWith(p) # Blank \/ (Moved(p) /\ p.secret = Blank)
        /\ field = DrawnField(shown) /\ text = DrawnText(shown) =>
              /\ LetsTest <=> /\ Effective(override).secret # Blank
                              /\ "required" \in traits => text # Blank
              /\ LetsTest /\ ~Filled(shown) => TestedWith(p) = Effective(override).secret
=============================================================================
