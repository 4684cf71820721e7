------------------------- MODULE ChannelFormProofs -------------------------
(***************************************************************************)
(* Proofs about the form of a notification channel, for any secrets and    *)
(* texts: what is saved of a secret the form never sees.                   *)
(***************************************************************************)
EXTENDS ChannelForm, TLAPS

\* What the variables hold; the settings have the channel once or not at all.
Types ==
    /\ traits \in Traits /\ base \in Channel
    /\ override = {} \/ \E o \in Channel : override = {o}
    /\ field \in FieldType /\ text \in Text \cup {Blank}
    /\ focused \in BOOLEAN /\ redrawn \in BOOLEAN /\ missed \in BOOLEAN
    /\ turn \in [step : {"idle", "sent", "answered", "reload"},
                 payload : Channel \cup {Reset}, asked : Asks]
    /\ intent \in {"keep", "clear"} \cup Secret

\* What the user did is what the secret's field holds.
FieldTells ==
    /\ field.configured => field.original
    /\ field.clear => field.value = Blank /\ ~field.configured /\ ~field.masked
    /\ ~redrawn =>
          /\ field.masked => field.value = Mask /\ field.configured
          /\ field.value \in Secret \cup {Blank, Mask}
          /\ field.value = Mask => field.masked
          /\ focused => ~field.masked
          /\ field.configured => intent = "keep"
          /\ intent = "clear" => field.clear
          /\ intent = "keep" => field.value \in {Blank, Mask}
          /\ intent \in Secret => field.value = intent /\ ~field.clear

DirtyTells == dirty = (Collected(field, text) # baseline)

\* The form was drawn from what the server has.
DrawnFromServer ==
    ~missed /\ turn.step \in {"idle", "sent"} =>
        /\ shown = Public(override)
        /\ baseline = Collected(DrawnField(Public(override)), DrawnText(Public(override)))
        /\ field.original => Effective(override).secret # Blank
        /\ field.clear => intent = "clear" \/ Effective(override).secret = Blank

\* What was posted asks for what the user asked for.
Asked ==
    turn.step = "sent" /\ ~missed /\ ~redrawn /\ turn.asked # "reset" =>
        /\ turn.payload # Reset
        /\ turn.asked = "keep" =>
              /\ turn.payload.secret = Blank
              /\ turn.payload.clear => Effective(override).secret = Blank
        /\ turn.asked = "clear" => turn.payload.clear
        /\ turn.asked \in Secret => turn.payload.secret = turn.asked /\ ~turn.payload.clear

FInv == Types /\ FieldTells /\ DirtyTells /\ DrawnFromServer /\ Asked

----------------------------------------------------------------------------
(* Lemmas about the operators.                                             *)

\* The member of a set of one.
LEMMA OnlyMember == \A c : (CHOOSE o \in {c} : TRUE) = c
OBVIOUS

\* What an override makes of the channel in the configuration file.
LEMMA Overridden ==
    \A o : Effective({o}) = [text |-> Given(o.text, base.text), clear |-> FALSE,
                             secret |-> IF o.clear THEN Blank ELSE Given(o.secret, base.secret)]
<1>1. ASSUME NEW o
      PROVE  Effective({o}) = [text |-> Given(o.text, base.text), clear |-> FALSE,
                               secret |-> IF o.clear THEN Blank ELSE Given(o.secret, base.secret)]
  BY OnlyMember, {o} # {} DEF Effective
<1> QED
  BY <1>1

\* What a channel is in effect, without an override and with one.
LEMMA InEffect ==
    ASSUME base \in Channel
    PROVE  /\ Effective({}).text = base.text /\ Effective({}).secret = base.secret
           /\ \A o \in Channel :
                /\ Effective({o}).text = Given(o.text, base.text)
                /\ Effective({o}).secret = IF o.clear THEN Blank ELSE Given(o.secret, base.secret)
<1>1. Effective({}).text = base.text /\ Effective({}).secret = base.secret
  BY DEF Effective, Channel
<1>2. ASSUME NEW o \in Channel
      PROVE  /\ Effective({o}).text = Given(o.text, base.text)
             /\ Effective({o}).secret = IF o.clear THEN Blank ELSE Given(o.secret, base.secret)
  <2> DEFINE secret == IF o.clear THEN Blank ELSE Given(o.secret, base.secret)
  <2>1. Effective({o}) = [text |-> Given(o.text, base.text), clear |-> FALSE, secret |-> secret]
    BY Overridden
  <2> HIDE DEF secret
  <2>2. Effective({o}).text = Given(o.text, base.text) /\ Effective({o}).secret = secret
    BY <2>1
  <2> QED
    BY <2>2 DEF secret
<1> QED
  BY <1>1, <1>2

\* A channel with another text.
LEMMA OtherText ==
    \A x, y, t : [[text |-> x, clear |-> FALSE, secret |-> y] EXCEPT !.text = t] =
                [text |-> t, clear |-> FALSE, secret |-> y]
<1>1. ASSUME NEW x, NEW y, NEW t
      PROVE  [[text |-> x, clear |-> FALSE, secret |-> y] EXCEPT !.text = t] =
                 [text |-> t, clear |-> FALSE, secret |-> y]
  <2> DEFINE Like == [text : {x}, clear : {FALSE}, secret : {y}]
             c == [text |-> x, clear |-> FALSE, secret |-> y]
  <2>1. ASSUME NEW d \in Like
        PROVE  [d EXCEPT !.text = t] = [text |-> t, clear |-> d.clear, secret |-> d.secret]
    OBVIOUS
  <2>2. c \in Like /\ c.clear = FALSE /\ c.secret = y
    OBVIOUS
  <2> HIDE DEF Like, c
  <2>3. [c EXCEPT !.text = t] = [text |-> t, clear |-> FALSE, secret |-> y]
    BY <2>1, <2>2
  <2> QED
    BY <2>3 DEF c
<1> QED
  BY <1>1

\* What is stored of a posted channel.
LEMMA Stored ==
    ASSUME NEW p \in Channel
    PROVE  /\ p.clear => Merge(p, override) =
                 {[text |-> p.text, secret |-> Blank, clear |-> p.clear]}
           /\ ~p.clear /\ (p.secret # Blank \/ override = {}) => Merge(p, override) = {p}
           /\ \A o \in Channel : override = {o} /\ ~p.clear /\ p.secret = Blank =>
                 Merge(p, override) = {[text |-> p.text, secret |-> o.secret, clear |-> o.clear]}
<1>1. [p EXCEPT !.secret = Blank] = [text |-> p.text, secret |-> Blank, clear |-> p.clear]
  BY DEF Channel
<1>3. p.clear => Merge(p, override) = {[text |-> p.text, secret |-> Blank, clear |-> p.clear]}
  BY <1>1 DEF Merge
<1>4. ~p.clear /\ (p.secret # Blank \/ override = {}) => Merge(p, override) = {p}
  BY DEF Merge
<1>5. ASSUME NEW o \in Channel, override = {o}, ~p.clear, p.secret = Blank
      PROVE  Merge(p, override) = {[text |-> p.text, secret |-> o.secret, clear |-> o.clear]}
  <2>1. Merge(p, override) = {[p EXCEPT !.secret = o.secret, !.clear = o.clear]}
    BY <1>5 DEF Merge
  <2> DEFINE q == [p EXCEPT !.secret = o.secret, !.clear = o.clear]
  <2>2. q = [text |-> p.text, secret |-> o.secret, clear |-> o.clear]
    <3>1. q \in Channel /\ q.text = p.text /\ q.secret = o.secret /\ q.clear = o.clear
      BY DEF Channel
    <3>2. \A c \in Channel : c = [text |-> c.text, secret |-> c.secret, clear |-> c.clear]
      BY DEF Channel
    <3> HIDE DEF q
    <3> QED
      BY <3>1, <3>2
  <2> QED
    BY <2>1, <2>2
<1> QED
  BY <1>3, <1>4, <1>5

\* A posted secret replaces, a mark clears, a blank keeps what there was.
LEMMA Merged ==
    ASSUME NEW p \in Channel, base \in Channel,
           override = {} \/ \E o \in Channel : override = {o}
    PROVE  /\ \E q \in Channel : Merge(p, override) = {q}
           /\ Effective(Merge(p, override)).secret =
                  IF p.clear THEN Blank
                  ELSE IF p.secret = Blank THEN Effective(override).secret ELSE p.secret
<1>1. CASE p.clear
  <2>1. [p EXCEPT !.secret = Blank] \in Channel /\ [p EXCEPT !.secret = Blank].clear
    BY <1>1 DEF Channel
  <2>2. Merge(p, override) = {[p EXCEPT !.secret = Blank]}
    BY <1>1 DEF Merge
  <2> QED
    BY <1>1, <2>1, <2>2, InEffect
<1>2. CASE ~p.clear /\ p.secret = Blank /\ override # {}
  <2>1. PICK o \in Channel : override = {o}
    BY <1>2
  <2>2. [p EXCEPT !.secret = o.secret, !.clear = o.clear] \in Channel
        /\ [p EXCEPT !.secret = o.secret, !.clear = o.clear].secret = o.secret
        /\ [p EXCEPT !.secret = o.secret, !.clear = o.clear].clear = o.clear
    BY DEF Channel
  <2>3. Merge(p, override) = {[p EXCEPT !.secret = o.secret, !.clear = o.clear]}
    BY <1>2, <2>1 DEF Merge
  <2> QED
    BY <1>2, <2>1, <2>2, <2>3, InEffect
<1>3. CASE ~p.clear /\ (p.secret # Blank \/ override = {})
  <2>1. Merge(p, override) = {p}
    BY <1>3 DEF Merge
  <2> QED
    BY <1>3, <2>1, InEffect DEF Given
<1> QED
  BY <1>1, <1>2, <1>3

\* The form is drawn alike while the server's side stays as it is.
LEMMA DrawnAlike ==
    ASSUME UNCHANGED <<traits, base, override>>
    PROVE  /\ Public(override)' = Public(override)
           /\ Effective(override)' = Effective(override)
           /\ DrawnField(Public(override))' = DrawnField(Public(override))
           /\ DrawnText(Public(override))' = DrawnText(Public(override))
BY DEF Public, Effective, DrawnField, DrawnText, StoredText, Filled

\* A form drawn from the settings shows a mask exactly when the channel has a
\* secret, from the settings or from the configuration file.
LEMMA DrawnForm ==
    ASSUME base \in Channel, override = {} \/ \E o \in Channel : override = {o}
    PROVE  LET f == DrawnField(Public(override)) IN
           /\ f \in FieldType
           /\ f.configured = (Effective(override).secret # Blank)
           /\ f.original = f.configured /\ f.masked = f.configured
           /\ f.clear => ~f.configured
           /\ f.value = IF f.configured THEN Mask ELSE Blank
           /\ f.clear = (\E o \in override : o.clear)
           /\ DrawnText(Public(override)) \in Text \cup {Blank}
<1>1. ASSUME NEW configured \in BOOLEAN, NEW clear \in BOOLEAN
      PROVE  LET f == FreshField(configured, clear) IN
             /\ f \in FieldType
             /\ f.configured = (configured /\ ~clear)
             /\ f.original = f.configured /\ f.masked = f.configured
             /\ f.clear = clear
             /\ f.value = IF f.configured THEN Mask ELSE Blank
  BY DEF FreshField, FieldType
<1>2. CASE override = {}
  <2>1. Public(override) = {}
    BY <1>2 DEF Public
  <2>2. /\ DrawnField(Public(override)) = FreshField(base.secret # Blank, FALSE)
        /\ DrawnText(Public(override)) \in {base.text, Default}
    BY <2>1 DEF DrawnField, DrawnText, StoredText
  <2>3. /\ base.text \in Text \cup {Blank} /\ Default \in Text
        /\ (base.secret # Blank) \in BOOLEAN
    BY FormAssumption DEF Channel
  <2> QED
    BY <1>1, <1>2, <2>2, <2>3, InEffect
<1>3. CASE override # {}
  <2>1. PICK o \in Channel : override = {o}
    BY <1>3
  <2> DEFINE s == [text |-> o.text, clear |-> o.clear,
                   configured |-> ~o.clear /\ o.secret # Blank]
             has == ~s.clear /\ (s.configured \/ base.secret # Blank)
  <2>2. Public(override) = {s}
    BY <2>1 DEF Public
  <2>3. /\ DrawnField(Public(override)) = FreshField(has, s.clear)
        /\ DrawnText(Public(override)) \in {s.text, Default}
    BY <2>2, OnlyMember, {s} # {} DEF DrawnField, DrawnText, StoredText
  <2>4. /\ s.text \in Text \cup {Blank} /\ Default \in Text /\ s.clear \in BOOLEAN /\ s.clear = o.clear
        /\ has \in BOOLEAN /\ has = (Effective(override).secret # Blank)
        /\ s.clear => ~has
    BY <2>1, InEffect, FormAssumption DEF Channel, Given
  <2>5. s.clear = (\E c \in override : c.clear)
    BY <2>1, <2>4
  <2> DEFINE f == FreshField(has, s.clear)
  <2>6. /\ f \in FieldType /\ f.clear = s.clear
        /\ f.configured = (has /\ ~s.clear)
        /\ f.original = f.configured /\ f.masked = f.configured
        /\ f.value = IF f.configured THEN Mask ELSE Blank
    <3> HIDE DEF s, has
    <3> QED BY <1>1, <2>4
  <2> HIDE DEF s, has, f
  <2>7. (has /\ ~s.clear) = has
    BY <2>4
  <2>8. f.configured = (Effective(override).secret # Blank)
    BY <2>4, <2>6, <2>7
  <2>9. f.clear => ~f.configured
    BY <2>4, <2>6
  <2>10. f.clear = (\E c \in override : c.clear)
    BY <2>5, <2>6
  <2>11. DrawnField(Public(override)) = f /\ DrawnText(Public(override)) \in Text \cup {Blank}
    BY <2>3, <2>4 DEF f
  <2> QED
    BY <2>6, <2>8, <2>9, <2>10, <2>11
<1> QED
  BY <1>2, <1>3

\* What is read from the form is a channel.
LEMMA CollectedChannel ==
    ASSUME NEW f \in FieldType, NEW t \in Text \cup {Blank}
    PROVE  /\ Collected(f, t) \in Channel /\ Collected(f, t).text = t
           /\ Collected(f, t).clear = f.clear
           /\ Collected(f, t).secret = ReadSecret(f)
BY DEF Collected, ReadSecret, FieldType, Channel

\* The posted text is the stored one.
LEMMA MergedText ==
    ASSUME NEW p \in Channel, override = {} \/ \E o \in Channel : override = {o}
    PROVE  \E q \in Channel : Merge(p, override) = {q} /\ q.text = p.text
<1>1. ASSUME NEW s \in Secret \cup {Blank, Smudged}, NEW c \in BOOLEAN
      PROVE  [text |-> p.text, secret |-> s, clear |-> c] \in Channel
  BY DEF Channel
<1>2. CASE p.clear
  <2>1. [text |-> p.text, secret |-> Blank, clear |-> p.clear] \in Channel
    BY <1>1 DEF Channel
  <2> QED
    BY <1>2, <2>1, Stored
<1>3. CASE ~p.clear /\ (p.secret # Blank \/ override = {})
  BY <1>3, Stored
<1>4. CASE ~p.clear /\ p.secret = Blank /\ override # {}
  <2>1. PICK o \in Channel : override = {o}
    BY <1>4
  <2>2. [text |-> p.text, secret |-> o.secret, clear |-> o.clear] \in Channel
    BY <1>1 DEF Channel
  <2> QED
    BY <1>4, <2>1, <2>2, Stored
<1> QED
  BY <1>2, <1>3, <1>4

----------------------------------------------------------------------------
(* The steps.                                                              *)

\* A form that was just drawn tells what the server has.
LEMMA JustDrawn ==
    ASSUME base \in Channel, override = {} \/ \E o \in Channel : override = {o},
           focused \in BOOLEAN, redrawn \in BOOLEAN, Draw(Public(override)),
           UNCHANGED formServer
    PROVE  /\ FieldTells' /\ DirtyTells'
           /\ shown' = Public(override)
           /\ baseline' = Collected(DrawnField(Public(override)), DrawnText(Public(override)))
           /\ field'.original => Effective(override).secret # Blank
           /\ field'.clear => Effective(override).secret = Blank
           /\ field' \in FieldType /\ text' \in Text \cup {Blank}
           /\ focused' = focused /\ redrawn' \in BOOLEAN /\ (redrawn => redrawn')
           /\ intent' = "keep"
<1>1. /\ field' = DrawnField(Public(override)) /\ text' = DrawnText(Public(override))
      /\ shown' = Public(override) /\ baseline' = Collected(field', text') /\ dirty' = FALSE
      /\ intent' = "keep" /\ focused' = focused
      /\ redrawn' = (redrawn \/ (focused /\ field'.masked))
  BY DEF Draw
<1>2. /\ field' \in FieldType
      /\ field'.configured = (Effective(override).secret # Blank)
      /\ field'.original = field'.configured /\ field'.masked = field'.configured
      /\ field'.clear => ~field'.configured
      /\ field'.value = IF field'.configured THEN Mask ELSE Blank
      /\ text' \in Text \cup {Blank}
  BY <1>1, DrawnForm
<1>3. "keep" \notin Secret /\ Mask # Blank
  BY FormAssumption
<1>4. FieldTells'
  BY <1>1, <1>2, <1>3 DEF FieldTells
<1>5. redrawn' \in BOOLEAN
  BY <1>1, <1>2
<1> QED
  BY <1>1, <1>2, <1>4, <1>5 DEF DirtyTells

\* What an input does to the field is told by the field, and nothing else changes.
LEMMA UserEdits ==
    ASSUME FInv, Edit, FieldTells', DirtyTells', field' \in FieldType,
           text' \in Text \cup {Blank}, focused' \in BOOLEAN,
           intent' \in {"keep", "clear"} \cup Secret, field'.original = field.original,
           field'.clear => intent' = "clear" \/ (field.clear /\ intent' = intent)
    PROVE  FInv'
<1>1. UNCHANGED <<traits, base, override, shown, baseline, turn, redrawn, missed>>
  BY DEF Edit, formServer
<1>2. Public(override)' = Public(override) /\ Effective(override)' = Effective(override)
      /\ DrawnField(Public(override))' = DrawnField(Public(override))
      /\ DrawnText(Public(override))' = DrawnText(Public(override))
  BY <1>1, DrawnAlike
<1>3. Types' /\ DrawnFromServer' /\ Asked'
  BY <1>1, <1>2 DEF FInv, Types, DrawnFromServer, Asked
<1> QED
  BY <1>3 DEF FInv

\* The inputs, one by one.
LEMMA UserSteps ==
    ASSUME FInv, \/ Focus \/ Erase \/ Blur \/ ToggleClear
                 \/ \E v \in Secret : Type(v)
                 \/ \E v \in Text \cup {Blank} : EditText(v)
    PROVE  FInv'
<1>0. /\ field \in FieldType /\ FieldTells /\ text \in Text \cup {Blank} /\ DirtyTells
      /\ intent \in {"keep", "clear"} \cup Secret /\ focused \in BOOLEAN
  BY DEF FInv, Types
<1>a. /\ "keep" \notin Secret /\ "clear" \notin Secret /\ Blank \notin Secret
      /\ Mask \notin Secret /\ Smudged \notin Secret
      /\ Mask # Blank /\ Smudged # Blank /\ Mask # Smudged
  BY FormAssumption
<1>1. CASE Focus
  <2>1. /\ Edit /\ text' = text /\ dirty' = dirty /\ intent' = intent /\ focused' = TRUE
        /\ baseline' = baseline /\ redrawn' = redrawn
    BY <1>1 DEF Focus, Edit
  <2>2. /\ field' \in FieldType /\ field'.clear = field.clear
        /\ field'.original = field.original /\ field'.configured = field.configured
        /\ field'.masked = FALSE
        /\ field'.value = IF field.masked THEN Blank ELSE field.value
    BY <1>0, <1>1 DEF Focus, FieldType
  <2>3. FieldTells'
    BY <1>0, <1>a, <2>1, <2>2 DEF FieldTells
  <2>4. Collected(field, text)' = Collected(field, text)
    BY <1>a, <2>1, <2>2 DEF Collected, ReadSecret
  <2> QED
    BY <1>0, <2>1, <2>2, <2>3, <2>4, UserEdits DEF DirtyTells
<1>2. ASSUME NEW v \in Secret, Type(v)
      PROVE  FInv'
  <2>1. /\ Edit /\ text' = text /\ intent' = v /\ focused' = focused
        /\ redrawn' = redrawn /\ focused /\ DirtyTells'
    BY <1>2 DEF Type, Edit, Refresh, DirtyTells
  <2>2. /\ field' \in FieldType /\ field'.clear = FALSE /\ field'.original = field.original
        /\ field'.configured = FALSE /\ field'.masked = FALSE
        /\ field'.value = IF field.value = Mask THEN Smudged ELSE v
    BY <1>0, <1>2 DEF Type, Typed, FieldType
  <2>3. FieldTells'
    BY <1>0, <1>a, <2>1, <2>2 DEF FieldTells
  <2> QED
    BY <1>0, <2>1, <2>2, <2>3, UserEdits
<1>3. CASE Erase
  <2>1. /\ Edit /\ text' = text /\ focused' = focused /\ field.value # Blank
        /\ intent' = (IF field.clear THEN "clear" ELSE "keep")
        /\ redrawn' = redrawn /\ focused /\ DirtyTells'
    BY <1>3 DEF Erase, Edit, Refresh, DirtyTells
  <2>2. /\ field' \in FieldType /\ field'.clear = field.clear
        /\ field'.original = field.original /\ field'.configured = field.configured
        /\ field'.masked = field.masked /\ field'.value = Blank
    BY <1>0, <1>3 DEF Erase, FieldType
  <2>3. FieldTells'
    BY <1>0, <1>a, <2>1, <2>2 DEF FieldTells
  <2> QED
    BY <1>0, <2>1, <2>2, <2>3, UserEdits
<1>4. CASE Blur
  <2>1. /\ Edit /\ text' = text /\ focused' = FALSE /\ intent' = intent
        /\ redrawn' = redrawn /\ DirtyTells'
    BY <1>4 DEF Blur, Edit, Refresh, DirtyTells
  <2> DEFINE masks == ~field.clear /\ field.configured /\ field.value = Blank
  <2>2. /\ field' \in FieldType /\ field'.clear = field.clear
        /\ field'.original = field.original /\ field'.configured = field.configured
        /\ masks => field'.masked /\ field'.value = Mask
        /\ ~masks => field'.masked = field.masked /\ field'.value = field.value
    BY <1>0, <1>4 DEF Blur, FieldType
  <2>3. FieldTells'
    BY <1>0, <1>a, <2>1, <2>2 DEF FieldTells
  <2> QED
    BY <1>0, <2>1, <2>2, <2>3, UserEdits
<1>5. CASE ToggleClear
  <2>1. /\ Edit /\ text' = text /\ focused' = FALSE
        /\ intent' = (IF field'.clear THEN "clear" ELSE "keep")
        /\ field.original \/ field.configured
        /\ redrawn' = redrawn /\ DirtyTells'
    BY <1>0, <1>5 DEF ToggleClear, Edit, Refresh, DirtyTells
  <2>2. /\ field' \in FieldType /\ field'.original = field.original
        /\ field'.clear = ~field.clear
        /\ field.clear => field'.configured /\ field'.masked /\ field'.value = Mask
        /\ ~field.clear => ~field'.configured /\ ~field'.masked /\ field'.value = Blank
    BY <1>0, <1>5 DEF ToggleClear, Toggled, FieldType, FieldTells
  <2>3. FieldTells'
    BY <1>0, <1>a, <2>1, <2>2 DEF FieldTells
  <2> QED
    BY <1>0, <2>1, <2>2, <2>3, UserEdits
<1>6. ASSUME NEW v \in Text \cup {Blank}, EditText(v)
      PROVE  FInv'
  <2>1. /\ Edit /\ text' = v /\ focused' = focused /\ field' = field /\ intent' = intent
        /\ redrawn' = redrawn /\ DirtyTells'
    BY <1>6 DEF EditText, Edit, Refresh, DirtyTells
  <2>2. FieldTells'
    BY <1>0, <2>1 DEF FieldTells
  <2> QED
    BY <1>0, <2>1, <2>2, UserEdits
<1> QED
  BY <1>1, <1>2, <1>3, <1>4, <1>5, <1>6

\* What is posted asks for what the user asked for.
LEMMA Clicks ==
    ASSUME FInv, ClickSave \/ ClickReset
    PROVE  FInv'
<1>0. /\ field \in FieldType /\ text \in Text \cup {Blank} /\ FieldTells
      /\ intent \in {"keep", "clear"} \cup Secret /\ DrawnFromServer
      /\ "keep" \notin Secret /\ "clear" \notin Secret /\ "reset" \notin Secret
      /\ Mask \notin Secret /\ Blank \notin Secret
  BY FormAssumption DEF FInv, Types
<1>1. /\ UNCHANGED <<traits, base, override, shown, field, text, focused, baseline, dirty, intent,
                     redrawn, missed>>
      /\ turn.step = "idle"
  BY DEF ClickSave, ClickReset, Click, formServer, formPage
<1>2. /\ FieldTells' /\ DirtyTells'
  BY <1>1 DEF FInv, FieldTells, DirtyTells
<1>3. /\ Public(override)' = Public(override) /\ Effective(override)' = Effective(override)
      /\ DrawnField(Public(override))' = DrawnField(Public(override))
      /\ DrawnText(Public(override))' = DrawnText(Public(override))
  BY <1>1, DrawnAlike
<1>4. CASE ClickReset
  <2>1. turn' = [step |-> "sent", payload |-> Reset, asked |-> "reset"]
    BY <1>4 DEF ClickReset, Click, Turn
  <2>2. Types' /\ DrawnFromServer' /\ Asked'
    BY <1>1, <1>3, <2>1 DEF FInv, Types, Asks, DrawnFromServer, Asked
  <2> QED
    BY <1>2, <2>2 DEF FInv
<1>5. CASE ClickSave
  <2> DEFINE p == Collected(field, text)
  <2>1. turn' = [step |-> "sent", payload |-> p, asked |-> intent]
    BY <1>5 DEF ClickSave, Click, Turn
  <2>2. p \in Channel /\ p.clear = field.clear /\ p.secret = ReadSecret(field)
    BY <1>0, CollectedChannel
  <2>3. p # Reset
    BY DEF Collected, Reset
  <2> HIDE DEF p
  <2>4. Types' /\ DrawnFromServer'
    BY <1>0, <1>1, <1>3, <2>1, <2>2 DEF FInv, Types, Asks, DrawnFromServer
  <2>5. ~missed /\ ~redrawn =>
           /\ intent = "keep" =>
                 p.secret = Blank /\ (p.clear => Effective(override).secret = Blank)
           /\ intent = "clear" => p.clear
           /\ intent \in Secret => p.secret = intent /\ ~p.clear
    BY <1>0, <1>1, <2>2 DEF DrawnFromServer, FieldTells, ReadSecret
  <2>6. Asked'
    <3>1. turn'.payload = p /\ turn'.asked = intent
      BY <2>1
    <3> QED
      BY <1>1, <1>3, <2>3, <2>5, <3>1 DEF Asked
  <2> QED
    BY <1>2, <2>4, <2>6 DEF FInv
<1> QED
  BY <1>4, <1>5

\* The server's step leaves the channel once in the settings, or not at all.
LEMMA Serves ==
    ASSUME FInv, FormServed
    PROVE  FInv'
<1>1. /\ UNCHANGED <<traits, base, shown, field, text, focused, baseline, dirty, intent, redrawn,
                     missed>>
      /\ turn' = [step |-> "answered", payload |-> Reset, asked |-> "keep"]
      /\ turn.payload \in Channel \cup {Reset}
      /\ override' = IF turn.payload = Reset THEN {} ELSE Merge(turn.payload, override)
  BY DEF FormServed, formPage, formHistory, Turn, FInv, Types
<1>2. override' = {} \/ \E o \in Channel : override' = {o}
  BY <1>1, Merged DEF FInv, Types
<1>3. Types' /\ FieldTells' /\ DirtyTells' /\ DrawnFromServer' /\ Asked'
  BY <1>1, <1>2 DEF FInv, Types, Asks, FieldTells, DirtyTells, DrawnFromServer, Asked
<1> QED
  BY <1>3 DEF FInv

\* Every form is drawn from what the server has.
LEMMA Draws ==
    ASSUME FInv, FormReloaded \/ FormDrawnAgain
    PROVE  FInv'
<1>1. /\ base \in Channel /\ (override = {} \/ \E o \in Channel : override = {o})
      /\ focused \in BOOLEAN /\ redrawn \in BOOLEAN
  BY DEF FInv, Types
<1>2. Draw(Public(override)) /\ UNCHANGED formServer
  BY DEF FormReloaded, FormDrawnAgain
<1>3. /\ FieldTells' /\ DirtyTells'
      /\ shown' = Public(override)
      /\ baseline' = Collected(DrawnField(Public(override)), DrawnText(Public(override)))
      /\ field'.original => Effective(override).secret # Blank
      /\ field'.clear => Effective(override).secret = Blank
      /\ field' \in FieldType /\ text' \in Text \cup {Blank}
      /\ focused' = focused /\ redrawn' \in BOOLEAN /\ (redrawn => redrawn')
      /\ intent' = "keep"
  BY <1>1, <1>2, JustDrawn
<1>4. traits' = traits /\ base' = base /\ override' = override
  BY <1>2 DEF formServer
<1>5. /\ Public(override)' = Public(override) /\ Effective(override)' = Effective(override)
      /\ DrawnField(Public(override))' = DrawnField(Public(override))
      /\ DrawnText(Public(override))' = DrawnText(Public(override))
  BY <1>4, DrawnAlike
<1>6. DrawnFromServer'
  BY <1>3, <1>5 DEF DrawnFromServer
<1>7. /\ missed' \in BOOLEAN
      /\ \/ turn' = NoTurn
         \/ turn' = turn /\ (turn.step = "sent" => missed' = missed)
  BY DEF FormReloaded, FormDrawnAgain, FInv, Types
<1>8. Types'
  BY <1>1, <1>3, <1>4, <1>7 DEF FInv, Types, NoTurn, Turn, Asks
<1>9. Asked'
  BY <1>3, <1>5, <1>7 DEF FInv, Asked, NoTurn, Turn
<1> QED
  BY <1>3, <1>6, <1>8, <1>9 DEF FInv

\* An answer that is lost, or not followed by a reload, leaves a form adrift; the
\* rest leaves it as it was drawn.
LEMMA Answers ==
    ASSUME FInv, FormLost \/ FormSaved \/ FormReloadFails \/ FormTested
    PROVE  FInv'
<1>1. CASE FormLost \/ FormReloadFails
  <2>1. /\ UNCHANGED <<traits, base, override, shown, field, text, focused, baseline, dirty, intent,
                       redrawn>>
        /\ turn' = [step |-> "idle", payload |-> Reset, asked |-> "keep"]
        /\ missed' \in BOOLEAN /\ (~missed' => ~missed /\ turn.step = "sent")
    BY <1>1 DEF FormLost, FormReloadFails, formServer, formPage, NoTurn, Turn, FInv, Types
  <2>2. /\ Public(override)' = Public(override) /\ Effective(override)' = Effective(override)
        /\ DrawnField(Public(override))' = DrawnField(Public(override))
        /\ DrawnText(Public(override))' = DrawnText(Public(override))
    BY <2>1, DrawnAlike
  <2>3. Types' /\ FieldTells' /\ DirtyTells' /\ DrawnFromServer' /\ Asked'
    BY <2>1, <2>2 DEF FInv, Types, Asks, FieldTells, DirtyTells, DrawnFromServer, Asked
  <2> QED
    BY <2>3 DEF FInv
<1>2. CASE FormSaved
  <2>1. /\ UNCHANGED <<traits, base, override, field, text, focused, baseline, dirty, intent, redrawn,
                       missed>>
        /\ turn' = [step |-> "reload", payload |-> Reset, asked |-> "keep"]
    BY <1>2 DEF FormSaved, formServer, formHistory, Turn
  <2>2. Types' /\ FieldTells' /\ DirtyTells' /\ DrawnFromServer' /\ Asked'
    BY <2>1 DEF FInv, Types, Asks, FieldTells, DirtyTells, DrawnFromServer, Asked
  <2> QED
    BY <2>2 DEF FInv
<1>3. CASE FormTested
  <2>1. /\ UNCHANGED <<traits, base, override, shown, field, text, focused, baseline, turn, intent,
                       redrawn, missed>>
        /\ dirty' = (Collected(field, text) # baseline)
    BY <1>3 DEF FormTested, formServer, formHistory
  <2>2. /\ Public(override)' = Public(override) /\ Effective(override)' = Effective(override)
        /\ DrawnField(Public(override))' = DrawnField(Public(override))
        /\ DrawnText(Public(override))' = DrawnText(Public(override))
    BY <2>1, DrawnAlike
  <2>3. Types' /\ FieldTells' /\ DirtyTells' /\ DrawnFromServer' /\ Asked'
    BY <2>1, <2>2 DEF FInv, Types, FieldTells, DirtyTells, DrawnFromServer, Asked
  <2> QED
    BY <2>3 DEF FInv
<1> QED
  BY <1>1, <1>2, <1>3

\* The page starts with a form that was just drawn.
LEMMA FormInitially == FormInit => FInv
<1> SUFFICES ASSUME FormInit
             PROVE  FInv
  OBVIOUS
<1>0. /\ "keep" \notin Secret /\ "clear" \notin Secret /\ Mask # Blank
      /\ (CHOOSE t \in Text : t # Default) \in Text
  BY FormAssumption
<1>1. /\ traits \in Traits /\ base \in Channel /\ override = {} /\ shown = {}
      /\ text = DrawnText({})
      /\ field = FreshField(base.secret # Blank, FALSE)
      /\ focused = FALSE /\ baseline = Collected(field, text) /\ dirty = FALSE
      /\ turn = [step |-> "idle", payload |-> Reset, asked |-> "keep"]
      /\ intent = "keep" /\ redrawn = FALSE /\ missed = FALSE
  BY <1>0 DEF FormInit, Channel, NoTurn, Turn
<1>2. Public(override) = {}
  BY <1>1 DEF Public
<1>3. field = DrawnField(Public(override)) /\ text = DrawnText(Public(override))
  BY <1>1, <1>2 DEF DrawnField
<1>4. /\ field \in FieldType
      /\ field.configured = (Effective(override).secret # Blank)
      /\ field.original = field.configured /\ field.masked = field.configured
      /\ field.clear => ~field.configured
      /\ field.value = IF field.configured THEN Mask ELSE Blank
      /\ field.clear = (\E o \in override : o.clear)
      /\ text \in Text \cup {Blank}
  BY <1>1, <1>3, DrawnForm
<1>5. Types
  BY <1>1, <1>4 DEF Types, Asks
<1>6. FieldTells
  BY <1>0, <1>1, <1>4 DEF FieldTells
<1>7. DirtyTells /\ DrawnFromServer /\ Asked
  BY <1>1, <1>2, <1>3, <1>4 DEF DirtyTells, DrawnFromServer, Asked
<1> QED
  BY <1>5, <1>6, <1>7 DEF FInv

\* Every step keeps the invariant.
LEMMA FormInductive == FInv /\ [FormNext]_formVars => FInv'
<1> SUFFICES ASSUME FInv, [FormNext]_formVars
             PROVE  FInv'
  OBVIOUS
<1>1. CASE UNCHANGED formVars
  <2>1. UNCHANGED <<traits, base, override, shown, field, text, focused, baseline, dirty, turn, intent,
                    redrawn, missed>>
    BY <1>1 DEF formVars, formServer, formPage, formHistory
  <2>2. /\ Public(override)' = Public(override) /\ Effective(override)' = Effective(override)
        /\ DrawnField(Public(override))' = DrawnField(Public(override))
        /\ DrawnText(Public(override))' = DrawnText(Public(override))
    BY <2>1, DrawnAlike
  <2> QED
    BY <2>1, <2>2 DEF FInv, Types, FieldTells, DirtyTells, DrawnFromServer, Asked
<1>2. CASE FormNext
  BY <1>2, UserSteps, Clicks, Serves, Draws, Answers DEF FormNext
<1> QED
  BY <1>1, <1>2

----------------------------------------------------------------------------
(* The theorems.                                                           *)

\* The invariant holds in every state of the form.
THEOREM FormInvariant == FormSpec => []FInv
BY FormInitially, FormInductive, PTL DEF FormSpec

\* A save leaves the channel with the secret the user asked for, after any
\* sequence of focusing, typing, erasing, marking and saving
\* (setSecretInputState to toggleSecretClear, merge_sensitive_fields).
THEOREM SecretSavedAsAsked == FormSpec => SecretAsAsked
<1>1. ASSUME FInv, FormNext, turn.step = "sent", turn'.step = "answered",
             turn.asked # "reset", ~missed, ~redrawn
      PROVE  Effective(override').secret =
                 CASE turn.asked = "keep" -> Effective(override).secret
                   [] turn.asked = "clear" -> Blank
                   [] OTHER -> turn.asked
  <2>1. FormServed
    <3>1. ~UNCHANGED turn /\ turn'.step # "idle" /\ turn'.step # "reload"
      BY <1>1
    <3> QED
      BY <1>1, <3>1 DEF FormNext, Focus, Erase, Blur, ToggleClear, Type, EditText, Edit,
                        ClickSave, ClickReset, Click, FormLost, FormSaved, FormReloaded,
                        FormReloadFails, FormDrawnAgain, FormTested, NoTurn, Turn
  <2>2. /\ turn.payload # Reset /\ turn.payload \in Channel
        /\ turn.asked \in Asks /\ base \in Channel
        /\ override = {} \/ \E o \in Channel : override = {o}
    BY <1>1 DEF FInv, Types, Asked
  <2>3. override' = Merge(turn.payload, override)
    BY <2>1, <2>2 DEF FormServed
  <2>4. Effective(override').secret =
            IF turn.payload.clear THEN Blank
            ELSE IF turn.payload.secret = Blank THEN Effective(override).secret
                                                ELSE turn.payload.secret
    BY <2>2, <2>3, Merged
  <2>5. "keep" \notin Secret /\ "clear" \notin Secret /\ Blank \notin Secret
    BY FormAssumption
  <2> QED
    BY <1>1, <2>2, <2>4, <2>5 DEF FInv, Asked, Asks
<1>2. FInv /\ [FormNext]_formVars =>
        [turn.step = "sent" /\ turn'.step = "answered" /\ turn.asked # "reset"
           /\ ~missed /\ ~redrawn =>
         Effective(override').secret =
             CASE turn.asked = "keep" -> Effective(override).secret
               [] turn.asked = "clear" -> Blank
               [] OTHER -> turn.asked]_formVars
  BY <1>1
<1> QED
  BY <1>2, FormInvariant, PTL DEF FormSpec, SecretAsAsked

\* What is stored of an input's text, and what the server makes of it.
LEMMA StoredInEffect ==
    ASSUME base \in Channel, override = {} \/ \E o \in Channel : override = {o}
    PROVE  /\ StoredText(Public(override)) = IF override = {} THEN base.text
                                              ELSE (CHOOSE o \in override : TRUE).text
           /\ Effective(override).text = Given(StoredText(Public(override)), base.text)
           /\ Effective(override).clear = FALSE
           /\ Effective(override) = [text |-> Effective(override).text, clear |-> FALSE,
                                     secret |-> Effective(override).secret]
<1>1. CASE override = {}
  <2>1. Public(override) = {}
    BY <1>1 DEF Public
  <2>2. Effective(override) = [text |-> base.text, clear |-> FALSE, secret |-> base.secret]
    BY <1>1 DEF Effective, Channel
  <2> QED
    BY <1>1, <2>1, <2>2 DEF StoredText, Given
<1>2. CASE override # {}
  <2>1. PICK o \in Channel : override = {o}
    BY <1>2
  <2> DEFINE s == [text |-> o.text, clear |-> o.clear,
                   configured |-> ~o.clear /\ o.secret # Blank]
             kept == IF o.clear THEN Blank ELSE Given(o.secret, base.secret)
             e == [text |-> Given(o.text, base.text), clear |-> FALSE, secret |-> kept]
  <2>2. Public(override) = {s}
    BY <2>1 DEF Public
  <2>3. StoredText(Public(override)) = o.text
    <3>1. StoredText(Public(override)) = s.text
      <4> HIDE DEF s
      <4> QED BY <2>2, OnlyMember, {s} # {} DEF StoredText
    <3> QED
      BY <3>1
  <2>4. Effective(override) = e
    BY <2>1, Overridden
  <2>5. (CHOOSE c \in override : TRUE) = o
    BY <2>1, OnlyMember
  <2>6. e = [text |-> e.text, clear |-> FALSE, secret |-> e.secret] /\ ~e.clear
        /\ e.text = Given(o.text, base.text)
    <3> HIDE DEF kept
    <3> QED OBVIOUS
  <2> HIDE DEF e
  <2> QED
    BY <1>2, <2>3, <2>4, <2>5, <2>6
<1> QED
  BY <1>1, <1>2

\* A clean form posts what was drawn: the text, no secret, and the mark there is.
LEMMA CleanPayload ==
    ASSUME FInv, ~dirty, ~missed, turn.step = "idle"
    PROVE  LET p == Collected(field, text) IN
           /\ p \in Channel /\ p.text = DrawnText(shown) /\ p.secret = Blank
           /\ p.clear = (\E o \in override : o.clear)
<1> DEFINE f == DrawnField(Public(override))
           p == Collected(f, DrawnText(Public(override)))
<1>1. base \in Channel /\ (override = {} \/ \E o \in Channel : override = {o})
  BY DEF FInv, Types
<1>2. Collected(field, text) = p /\ shown = Public(override)
  BY DEF FInv, DirtyTells, DrawnFromServer
<1>3. /\ f \in FieldType /\ f.value \in {Mask, Blank}
      /\ f.clear = (\E o \in override : o.clear)
      /\ DrawnText(Public(override)) \in Text \cup {Blank}
  BY <1>1, DrawnForm
<1>4. /\ p \in Channel /\ p.text = DrawnText(Public(override))
      /\ p.secret = ReadSecret(f) /\ p.clear = f.clear
  BY <1>3, CollectedChannel
<1>5. ReadSecret(f) = Blank
  BY <1>3 DEF ReadSecret
<1> HIDE DEF f, p
<1> QED
  BY <1>2, <1>3, <1>4, <1>5

\* A form that shows no change has none: saving it would leave the channel as it
\* is, except that a default drawn for an input that is stored empty becomes the
\* channel's (refreshLocalDirty, collectTgbotSettings and its likes,
\* renderBarkNotification, merge_sensitive_fields).
THEOREM CleanFormIsSaved == FormSpec => []CleanMeansSaved
<1>1. ASSUME FInv, ~dirty, ~missed, turn.step = "idle"
      PROVE  Effective(Merge(Collected(field, text), override)) =
                 IF Filled(shown) THEN [Effective(override) EXCEPT !.text = Default]
                 ELSE Effective(override)
  <2> DEFINE p == Collected(field, text)
             e == Effective(override)
             new == [text |-> IF Filled(shown) THEN Default ELSE e.text, clear |-> FALSE,
                     secret |-> e.secret]
  <2>1. /\ base \in Channel /\ (override = {} \/ \E o \in Channel : override = {o})
        /\ shown = Public(override)
    BY <1>1 DEF FInv, Types, DrawnFromServer
  <2>2. /\ p \in Channel /\ p.text = DrawnText(shown) /\ p.secret = Blank
        /\ p.clear = (\E o \in override : o.clear)
    BY <1>1, CleanPayload
  <2>3. /\ e = [text |-> e.text, clear |-> FALSE, secret |-> e.secret]
        /\ e.text = Given(StoredText(shown), base.text)
    BY <2>1, StoredInEffect
  <2> HIDE DEF p, e
  <2>4. Given(p.text, base.text) = IF Filled(shown) THEN Default ELSE e.text
    <3>1. Default # Blank
      BY FormAssumption
    <3> QED
      BY <2>2, <2>3, <3>1 DEF DrawnText, Given
  <2>5. /\ \E q \in Channel : Merge(p, override) = {q} /\ q.text = p.text
        /\ Effective(Merge(p, override)).secret = e.secret
    <3>1. Effective(Merge(p, override)).secret =
              IF p.clear THEN Blank ELSE Effective(override).secret
      BY <2>1, <2>2, Merged
    <3>2. p.clear => e.secret = Blank
      BY <2>1, <2>2, InEffect DEF e
    <3>3. \E q \in Channel : Merge(p, override) = {q} /\ q.text = p.text
      BY <2>1, <2>2, MergedText
    <3> QED
      BY <3>1, <3>2, <3>3 DEF e
  <2>6. PICK q \in Channel : Merge(p, override) = {q} /\ q.text = p.text
    BY <2>5
  <2> DEFINE kept == IF q.clear THEN Blank ELSE Given(q.secret, base.secret)
  <2>7. Effective({q}) = [text |-> Given(q.text, base.text), clear |-> FALSE,
                          secret |-> kept]
    BY Overridden
  <2>8. Effective({q}) = new
    <3>1. kept = e.secret
      <4>1. Effective({q}).secret = kept
        <5> HIDE DEF kept
        <5> QED BY <2>7
      <4> QED
        BY <2>5, <2>6, <4>1
    <3> QED
      BY <2>4, <2>6, <2>7, <3>1
  <2>9. new = IF Filled(shown) THEN [e EXCEPT !.text = Default] ELSE e
    <3>1. [e EXCEPT !.text = Default] =
              [text |-> Default, clear |-> FALSE, secret |-> e.secret]
      BY <2>3, OtherText
    <3> QED
      BY <2>3, <3>1
  <2> QED
    BY <2>6, <2>8, <2>9 DEF p, e
<1>2. FInv => CleanMeansSaved
  BY <1>1 DEF CleanMeansSaved
<1> QED
  BY <1>2, FormInvariant, PTL

\* A test the form lets through has a secret to use, unless it goes to another
\* destination without one; and a form as it was drawn lets one through exactly
\* when the channel has a secret, and tests that
\* (validateTgbotSettingsForTest and its likes, test_admin_notification,
\* build_bark_test_config, build_email_test_config).
THEOREM TestedFormHasSecret == FormSpec => []TestHasSecret
<1>1. ASSUME FInv, ~missed, turn.step = "idle"
      PROVE  LET p == Collected(field, text) IN
             /\ LetsTest => TestedWith(p) # Blank \/ (Moved(p) /\ p.secret = Blank)
             /\ field = DrawnField(shown) /\ text = DrawnText(shown) =>
                   /\ LetsTest <=> /\ Effective(override).secret # Blank
                                   /\ "required" \in traits => text # Blank
                   /\ LetsTest /\ ~Filled(shown) => TestedWith(p) = Effective(override).secret
  <2> DEFINE p == Collected(field, text)
             e == Effective(override)
  <2>1. /\ base \in Channel /\ (override = {} \/ \E o \in Channel : override = {o})
        /\ field \in FieldType /\ text \in Text \cup {Blank} /\ FieldTells
        /\ shown = Public(override) /\ (field.original => e.secret # Blank)
    BY <1>1 DEF FInv, Types, DrawnFromServer
  <2>2. p.text = text /\ p.clear = field.clear /\ p.secret = ReadSecret(field)
    BY <2>1, CollectedChannel
  <2>3. e.text = Given(StoredText(shown), base.text)
    BY <2>1, StoredInEffect
  <2> HIDE DEF p, e
  <2>4. TestedWith(p) = IF p.clear \/ (Moved(p) /\ p.secret = Blank) THEN Blank
                        ELSE Given(p.secret, e.secret)
    BY DEF TestedWith, e
  <2>5. LetsTest => TestedWith(p) # Blank \/ (Moved(p) /\ p.secret = Blank)
    BY <2>1, <2>2, <2>4 DEF LetsTest, Given, FieldTells, ReadSecret
  <2>6. ASSUME field = DrawnField(shown), text = DrawnText(shown)
        PROVE  /\ LetsTest <=> (e.secret # Blank /\ ("required" \in traits => text # Blank))
               /\ LetsTest /\ ~Filled(shown) => TestedWith(p) = e.secret
    <3>1. /\ field.configured = (e.secret # Blank)
          /\ field.value = IF field.configured THEN Mask ELSE Blank
          /\ field.clear => ~field.configured
      BY <2>1, <2>6, DrawnForm DEF e
    <3>2. LetsTest <=> (e.secret # Blank /\ ("required" \in traits => text # Blank))
      BY <2>1, <3>1 DEF LetsTest, ReadSecret
    <3>3. ASSUME LetsTest, ~Filled(shown)
          PROVE  TestedWith(p) = e.secret
      <4>1. p.secret = Blank /\ ~p.clear
        BY <2>2, <3>1, <3>2, <3>3 DEF ReadSecret
      <4>2. ~Moved(p)
        <5>1. text = StoredText(shown)
          BY <2>6, <3>3 DEF DrawnText
        <5> QED
          BY <2>2, <2>3, <5>1 DEF Moved, Given, e
      <4> QED
        BY <2>4, <4>1, <4>2 DEF Given
    <3> QED
      BY <3>2, <3>3
  <2> QED
    BY <2>5, <2>6 DEF p, e
<1>2. FInv => TestHasSecret
  BY <1>1 DEF TestHasSecret
<1> QED
  BY <1>2, FormInvariant, PTL

----------------------------------------------------------------------------
(* The types.                                                              *)

\* What the page keeps of the channel besides the form itself.
PageTypes ==
    /\ shown \subseteq [text : Text \cup {Blank}, clear : BOOLEAN, configured : BOOLEAN]
    /\ baseline \in Channel

\* The settings without the secret have their own type.
LEMMA PublicTyped ==
    ASSUME override \subseteq Channel
    PROVE  Public(override) \subseteq [text : Text \cup {Blank}, clear : BOOLEAN,
                                       configured : BOOLEAN]
<1> SUFFICES ASSUME NEW s \in Public(override)
             PROVE  s \in [text : Text \cup {Blank}, clear : BOOLEAN, configured : BOOLEAN]
  OBVIOUS
<1>1. PICK o \in Channel : s = [text |-> o.text, clear |-> o.clear,
                                configured |-> ~o.clear /\ o.secret # Blank]
  BY Zenon DEF Public
<1> DEFINE has == ~o.clear /\ o.secret # Blank
<1>2. o.text \in Text \cup {Blank} /\ o.clear \in BOOLEAN /\ has \in BOOLEAN
  BY DEF Channel
<1>3. s = [text |-> o.text, clear |-> o.clear, configured |-> has]
  BY <1>1
<1> HIDE DEF has
<1> QED
  BY <1>2, <1>3

\* Every step keeps them: they only change when the form is drawn or an answer
\* is merged, from the settings in both cases.
LEMMA PageTypesKept ==
    ASSUME FInv, PageTypes, [FormNext]_formVars
    PROVE  PageTypes'
<1>1. base \in Channel /\ override \subseteq Channel
      /\ (override = {} \/ \E o \in Channel : override = {o})
  BY DEF FInv, Types
<1>2. ASSUME Draw(Public(override))
      PROVE  PageTypes'
  <2>1. shown' = Public(override) /\ field' = DrawnField(Public(override))
        /\ text' = DrawnText(Public(override)) /\ baseline' = Collected(field', text')
    BY <1>2 DEF Draw
  <2>2. field' \in FieldType /\ text' \in Text \cup {Blank}
    BY <1>1, <2>1, DrawnForm
  <2>3. baseline' \in Channel
    BY <2>1, <2>2, CollectedChannel
  <2> QED
    BY <1>1, <2>1, <2>3, PublicTyped DEF PageTypes
<1>3. CASE FormSaved
  BY <1>1, <1>3, PublicTyped DEF FormSaved, PageTypes
<1>4. CASE FormReloaded \/ FormDrawnAgain
  BY <1>2, <1>4 DEF FormReloaded, FormDrawnAgain
<1>5. CASE UNCHANGED <<shown, baseline>>
  BY <1>5 DEF PageTypes
<1>6. ~FormSaved /\ ~FormReloaded /\ ~FormDrawnAgain => UNCHANGED <<shown, baseline>>
  BY DEF FormNext, Focus, Erase, Blur, ToggleClear, Type, EditText, Edit, ClickSave, ClickReset,
         Click, FormServed, FormLost, FormReloadFails, FormTested, formVars, formPage
<1> QED
  BY <1>3, <1>4, <1>5, <1>6

\* The form starts with nothing shown but the configuration file's channel.
LEMMA PageTypesInit ==
    ASSUME FormInit, FInv
    PROVE  PageTypes
<1>1. baseline = Collected(field, text) /\ shown = {}
  BY DEF FormInit
<1>2. field \in FieldType /\ text \in Text \cup {Blank}
  BY DEF FInv, Types
<1> QED
  BY <1>1, <1>2, CollectedChannel DEF PageTypes

\* Types of the form's variables, and a masked field is the mask of a configured
\* secret unless it was drawn under the cursor (setSecretInputState,
\* toggleSecretClear).
THEOREM FormKeepsTypes == FormSpec => []FormTypeOK
<1>1. FormInit => PageTypes
  BY FormInitially, PageTypesInit
<1>2. FInv /\ PageTypes /\ [FormNext]_formVars => PageTypes'
  BY PageTypesKept
<1>3. FInv /\ PageTypes => FormTypeOK
  <2> SUFFICES ASSUME FInv, PageTypes
               PROVE  FormTypeOK
    OBVIOUS
  <2>1. field.masked /\ ~redrawn => field.value = Mask /\ field.configured /\ ~field.clear
    BY DEF FInv, FieldTells
  <2>2. dirty \in BOOLEAN
    BY DEF FInv, DirtyTells
  <2> QED
    BY <2>1, <2>2 DEF FInv, Types, PageTypes, FormTypeOK, Asks
<1> QED
  BY <1>1, <1>2, <1>3, FormInvariant, PTL DEF FormSpec
=============================================================================
