------------------------ MODULE EditorDialogProofs ------------------------
(***************************************************************************)
(* Proofs about the editor dialog, for any channels, servers, groups and   *)
(* names of groups, and any number of inputs changed and commands asked    *)
(* for.                                                                    *)
(***************************************************************************)
EXTENDS EditorDialog, TLAPS

RuleInputs == [shown : SUBSET Method, boxes : SUBSET Method, servers : SUBSET Node,
               metric : {"offline", "cpu", "load"}, threshold : {"none", "low", "high"},
               kept : {"none", "low", "high"}]
ServerForm == [mode : {"date", "permanent", "none"}, date : BOOLEAN, auto : BOOLEAN,
               cycle : BOOLEAN, fee : {"paid", "free"}, amount : {"none", "number"},
               currency : {"listed", "custom"}, code : BOOLEAN, groups : SUBSET Group]

Editors == [type : {"none", "rule", "server", "group", "command"},
            mode : {"none", "all", "explicit"}, values : SUBSET Method]

RuleOpen == window.open /\ editor.type = "rule"
ServerOpen == window.open /\ editor.type = "server"
GroupOpen == window.open /\ editor.type = "group"
RuleItem == [methods : SUBSET Method, servers : SUBSET Node,
             metric : {"offline", "cpu", "load"}, threshold : {"none", "low", "high"}]

\* What the variables hold, by the editor that is open.
Shape ==
    /\ config \subseteq Method
    /\ window \in [open : BOOLEAN, enabled : BOOLEAN]
    /\ editor \in Editors
    /\ asking \in Nat
    /\ RuleOpen => /\ inputs \in RuleInputs /\ item \in RuleItem
                   /\ editor.mode \in {"all", "explicit"}
    /\ ServerOpen => inputs \in ServerForm /\ item \in Server
    /\ GroupOpen => inputs \in [servers : SUBSET Node] /\ item.servers \subseteq Node

\* The boxes show what would be confirmed of the channels shown; a choice is
\* what the user last clicked.
Picker ==
    RuleOpen => /\ inputs.shown = config
                /\ inputs.boxes = Ticked(editor, config)
                /\ item.methods # {} => editor.mode = "explicit" /\ editor.values = chosen

\* A threshold that is put aside comes back.
RuleKept ==
    RuleOpen =>
        /\ "methods" \notin touched =>
              /\ editor.mode = "all" <=> item.methods = {}
              /\ editor.values = item.methods
        /\ "threshold" \notin touched /\ item.metric # "offline" =>
              /\ inputs.kept \in {"none", item.threshold}
              /\ inputs.metric = "offline" =>
                     inputs.threshold = "none" /\ inputs.kept = item.threshold
              /\ inputs.metric # "offline" => inputs.threshold = item.threshold

ListKept ==
    RuleOpen \/ GroupOpen =>
        ("servers" \notin touched => inputs.servers = item.servers \cap listed)

\* What an untouched server's inputs say.
BillKept ==
    ServerOpen =>
        /\ "end" \notin touched =>
              /\ inputs.mode = IF item.end = "odd" THEN "date" ELSE item.end
              /\ inputs.date <=> item.end = "date"
        /\ {"end", "auto"} \cap touched = {} /\ item.end = "date" => inputs.auto = item.auto
        /\ "cycle" \notin touched => inputs.cycle = item.cycle
        /\ "amount" \notin touched =>
              /\ inputs.fee = "free" <=> item.amount = "free"
              /\ item.amount \in {"listed", "custom"} => inputs.amount = "number"
              /\ item.amount \in {"none", "free"} => inputs.amount = "none"
              /\ item.amount = "custom" <=> inputs.currency = "custom" /\ item.amount # "odd"
        /\ "groups" \notin touched /\ item.groups # {} =>
              inputs.groups = {g \in Group : \E o \in item.groups : Label[o] = Label[g]}

\* A confirm button is only off while a command is being fetched for this dialog.
ButtonOff == window.open /\ ~window.enabled => editor.type = "command" /\ asking > 0

DInv == Shape /\ Picker /\ RuleKept /\ ListKept /\ BillKept /\ ButtonOff

----------------------------------------------------------------------------
(* Lemmas about the operators.                                             *)

\* A closed dialog satisfies what is said of an open one.
LEMMA WhenClosed ==
    ASSUME config' \subseteq Method, window' \in [open : BOOLEAN, enabled : BOOLEAN],
           window'.open = FALSE, editor' \in Editors, asking' \in Nat
    PROVE  DInv'
BY DEF DInv, Shape, Picker, RuleKept, ListKept, BillKept, ButtonOff, RuleOpen, ServerOpen,
       GroupOpen

\* Turning the button on or off leaves the dialog open or closed.
LEMMA ButtonTurned ==
    ASSUME NEW w \in [open : BOOLEAN, enabled : BOOLEAN], NEW on \in BOOLEAN
    PROVE  /\ [w EXCEPT !.enabled = on] \in [open : BOOLEAN, enabled : BOOLEAN]
           /\ [w EXCEPT !.enabled = on].open = w.open
           /\ [w EXCEPT !.enabled = on].enabled = on
OBVIOUS

\* Putting a threshold aside and back keeps the other inputs of a rule.
LEMMA MeteredFields ==
    ASSUME NEW in \in RuleInputs
    PROVE  /\ Metered(in) \in RuleInputs
           /\ Metered(in).shown = in.shown /\ Metered(in).boxes = in.boxes
           /\ Metered(in).servers = in.servers /\ Metered(in).metric = in.metric
           /\ in.metric = "offline" =>
                 /\ Metered(in).threshold = "none"
                 /\ Metered(in).kept = IF in.threshold = "none" THEN in.kept ELSE in.threshold
           /\ in.metric # "offline" =>
                 /\ Metered(in).kept = in.kept
                 /\ Metered(in).threshold = IF in.threshold = "none" THEN in.kept
                                                                     ELSE in.threshold
BY DEF Metered, RuleInputs

\* The controls of a server's editor clear the renewal and the amount only.
LEMMA SyncedFields ==
    ASSUME NEW in \in ServerForm
    PROVE  /\ Synced(in) \in ServerForm
           /\ Synced(in).mode = in.mode /\ Synced(in).date = in.date
           /\ Synced(in).cycle = in.cycle /\ Synced(in).fee = in.fee
           /\ Synced(in).currency = in.currency /\ Synced(in).groups = in.groups
           /\ in.mode = "date" => Synced(in).auto = in.auto
           /\ Synced(in).amount = IF in.fee = "free" THEN "none" ELSE in.amount
BY DEF Synced, ServerForm

\* The channels a rule names are those it allows.
LEMMA AllowedNamed ==
    ASSUME NEW methods \in SUBSET Method, methods # {}
    PROVE  AllowedBy(methods) = methods
BY DEF AllowedBy, Allowed

----------------------------------------------------------------------------
(* The steps.                                                              *)

LEMMA DialogInitially == DialogInit => DInv
BY DEF DialogInit, DInv, Shape, Picker, RuleKept, ListKept, BillKept, ButtonOff, RuleOpen,
       ServerOpen, GroupOpen, NoEditor, Plain, Editors

\* An editor opens with what its entry says.
LEMMA RuleOpens ==
    ASSUME NEW rule \in RuleItem, NEW nodes \in SUBSET Node, DInv, OpenRuleWith(rule, nodes)
    PROVE  DInv'
<1> DEFINE in == [shown |-> config, boxes |-> Ticked(SelectionOf(rule), config),
                  servers |-> rule.servers \cap nodes, metric |-> rule.metric,
                  threshold |-> rule.threshold, kept |-> "none"]
<1>0. config \subseteq Method /\ asking \in Nat
  BY DEF DInv, Shape
<1>1. SelectionOf(rule) \in Editors /\ SelectionOf(rule).type = "rule"
      /\ SelectionOf(rule).mode = (IF rule.methods = {} THEN "all" ELSE "explicit")
      /\ SelectionOf(rule).values = rule.methods
  BY DEF SelectionOf, RuleItem, Editors
<1>2. in \in RuleInputs
  BY <1>0, <1>1 DEF RuleInputs, RuleItem, Ticked
<1>3. /\ window' = OpenedWindow /\ editor' = SelectionOf(rule) /\ item' = rule
      /\ chosen' = AllowedBy(rule.methods) /\ touched' = {}
      /\ config' = config /\ asking' = asking /\ listed' = nodes
  BY DEF OpenRuleWith, Open
<1>3i. inputs' = Metered(in)
  BY DEF OpenRuleWith, Open
<1>4. window' \in [open : BOOLEAN, enabled : BOOLEAN] /\ window'.open /\ window'.enabled
  BY <1>3 DEF OpenedWindow
<1>5. /\ inputs' \in RuleInputs /\ inputs'.shown = config
      /\ inputs'.boxes = Ticked(SelectionOf(rule), config)
      /\ inputs'.servers = rule.servers \cap nodes
      /\ inputs'.metric = rule.metric
      /\ rule.metric = "offline" => inputs'.threshold = "none"
      /\ rule.metric # "offline" => inputs'.kept = "none" /\ inputs'.threshold = rule.threshold
  BY <1>2, <1>3i, MeteredFields
<1> HIDE DEF in
<1>6. Shape'
  BY <1>0, <1>1, <1>3, <1>4, <1>5 DEF Shape, RuleOpen, ServerOpen, GroupOpen
<1>7. Picker'
  BY <1>1, <1>3, <1>5, AllowedNamed DEF Picker, RuleOpen, Ticked, RuleItem
<1>8. RuleKept'
  BY <1>1, <1>3, <1>5 DEF RuleKept, RuleOpen
<1>9. ListKept' /\ BillKept' /\ ButtonOff'
  BY <1>1, <1>3, <1>4, <1>5 DEF ListKept, BillKept, ButtonOff, RuleOpen, GroupOpen, ServerOpen
<1> QED
  BY <1>6, <1>7, <1>8, <1>9 DEF DInv

LEMMA ServerOpens ==
    ASSUME NEW s \in Server, NEW default \in SUBSET Group, DInv, OpenServer(s, default)
    PROVE  DInv'
<1> DEFINE in == ServerInputs([s EXCEPT !.groups = IF @ = {} THEN default ELSE @])
<1>0. config \subseteq Method /\ asking \in Nat
  BY DEF DInv, Shape
<1>1. /\ window' = OpenedWindow /\ editor' = Plain("server") /\ item' = s
      /\ touched' = {} /\ config' = config /\ asking' = asking
  BY DEF OpenServer, Open
<1>1i. inputs' = Synced(in)
  BY DEF OpenServer, Open
<1>2. window' \in [open : BOOLEAN, enabled : BOOLEAN] /\ window'.open /\ window'.enabled
      /\ editor' \in Editors /\ editor'.type = "server"
  BY <1>1 DEF OpenedWindow, Plain, Editors
<1>3. /\ in \in ServerForm
      /\ in.mode = (IF s.end = "odd" THEN "date" ELSE s.end)
      /\ in.date = (s.end = "date") /\ in.auto = s.auto /\ in.cycle = s.cycle
      /\ in.fee = (IF s.amount = "free" THEN "free" ELSE "paid")
      /\ in.amount = (IF s.amount \in {"listed", "custom", "bare"} THEN "number" ELSE "none")
      /\ in.currency = (IF s.amount \in {"custom", "odd"} THEN "custom" ELSE "listed")
      /\ s.groups # {} => in.groups = {g \in Group : \E o \in s.groups : Label[o] = Label[g]}
  BY DEF ServerInputs, ServerForm, Server
<1>4. /\ inputs' \in ServerForm /\ inputs'.mode = in.mode /\ inputs'.date = in.date
      /\ inputs'.cycle = in.cycle /\ inputs'.fee = in.fee /\ inputs'.currency = in.currency
      /\ inputs'.groups = in.groups
      /\ in.mode = "date" => inputs'.auto = in.auto
      /\ inputs'.amount = IF in.fee = "free" THEN "none" ELSE in.amount
  BY <1>1i, <1>3, SyncedFields
<1> HIDE DEF in
<1>5. Shape'
  BY <1>0, <1>1, <1>2, <1>4 DEF Shape, RuleOpen, ServerOpen, GroupOpen
<1>6. BillKept'
  <2>1. inputs'.date = (s.end = "date") /\ inputs'.cycle = s.cycle
        /\ inputs'.mode = (IF s.end = "odd" THEN "date" ELSE s.end)
    BY <1>3, <1>4
  <2>2. s.end = "date" => inputs'.auto = s.auto
    BY <1>3, <1>4
  <2>3. /\ inputs'.fee = "free" <=> s.amount = "free"
        /\ s.amount \in {"listed", "custom"} => inputs'.amount = "number"
        /\ s.amount \in {"none", "free"} => inputs'.amount = "none"
        /\ s.amount = "custom" <=> inputs'.currency = "custom" /\ s.amount # "odd"
    BY <1>3, <1>4
  <2>4. s.groups # {} => inputs'.groups = {g \in Group : \E o \in s.groups : Label[o] = Label[g]}
    BY <1>3, <1>4
  <2> QED
    BY <1>1, <2>1, <2>2, <2>3, <2>4, Zenon DEF BillKept
<1>7. Picker' /\ RuleKept' /\ ListKept' /\ ButtonOff'
  BY <1>2 DEF Picker, RuleKept, ListKept, ButtonOff, RuleOpen, GroupOpen
<1> QED
  BY <1>5, <1>6, <1>7 DEF DInv

LEMMA GroupOpens ==
    ASSUME NEW members \in SUBSET Node, NEW nodes \in SUBSET Node, DInv,
           OpenGroup(members, nodes)
    PROVE  DInv'
<1>0. config \subseteq Method /\ asking \in Nat
  BY DEF DInv, Shape
<1>1. /\ window' = OpenedWindow /\ editor' = Plain("group")
      /\ item'.servers = members /\ inputs' = [servers |-> members \cap nodes]
      /\ config' = config /\ asking' = asking /\ listed' = nodes
  BY DEF OpenGroup, Open
<1>2. window' \in [open : BOOLEAN, enabled : BOOLEAN] /\ window'.open /\ window'.enabled
      /\ editor' \in Editors /\ editor'.type = "group"
  BY <1>1 DEF OpenedWindow, Plain, Editors
<1> QED
  BY <1>0, <1>1, <1>2 DEF DInv, Shape, Picker, RuleKept, ListKept, BillKept, ButtonOff,
                          RuleOpen, ServerOpen, GroupOpen

LEMMA CommandOpens ==
    ASSUME NEW row, DInv, OpenCommand(row)
    PROVE  DInv'
<1>0. config \subseteq Method /\ asking \in Nat
  BY DEF DInv, Shape
<1>1. /\ window' = OpenedWindow /\ editor' = Plain("command")
      /\ config' = config /\ asking' = asking
  BY DEF OpenCommand, Open
<1>2. window' \in [open : BOOLEAN, enabled : BOOLEAN] /\ window'.open /\ window'.enabled
      /\ editor' \in Editors /\ editor'.type = "command"
  BY <1>1 DEF OpenedWindow, Plain, Editors
<1> QED
  BY <1>0, <1>1, <1>2 DEF DInv, Shape, Picker, RuleKept, ListKept, BillKept, ButtonOff,
                          RuleOpen, ServerOpen, GroupOpen

\* A click on a channel changes what is shown and what would be confirmed alike.
LEMMA MethodClicked ==
    ASSUME NEW m \in Method, DInv, ClickMethod(m)
    PROVE  DInv'
<1> DEFINE boxes == Flip(inputs.boxes, m)
<1>1. /\ RuleOpen /\ inputs \in RuleInputs /\ item \in RuleItem /\ editor \in Editors
      /\ editor.mode \in {"all", "explicit"} /\ m \in config /\ config \subseteq Method
      /\ inputs.boxes = Ticked(editor, config) /\ asking \in Nat
      /\ window \in [open : BOOLEAN, enabled : BOOLEAN]
  BY DEF ClickMethod, DInv, Shape, Picker, RuleOpen
<1>2. /\ inputs' = [inputs EXCEPT !.boxes = boxes]
      /\ editor' = [editor EXCEPT !.mode = "explicit", !.values = Selected(boxes)]
      /\ chosen' = Flip(chosen, m) /\ touched' = touched \cup {"methods"}
      /\ UNCHANGED <<config, item, window, asking, listed>>
  BY DEF ClickMethod, Change
<1>3. boxes \subseteq config
  BY <1>1 DEF Ticked, Flip
<1>4. /\ Selected(boxes) \in SUBSET Method
      /\ Selected(boxes) \cap config = boxes
      /\ editor.mode = "explicit" => Selected(boxes) = Flip(editor.values, m)
  BY <1>1, <1>3 DEF Selected, Ticked, Flip, Editors
<1>5. /\ editor' \in Editors /\ editor'.type = "rule" /\ editor'.mode = "explicit"
      /\ editor'.values = Selected(boxes)
  BY <1>1, <1>2, <1>4 DEF Editors, RuleOpen
<1>6. /\ inputs' \in RuleInputs /\ inputs'.boxes = boxes /\ inputs'.shown = inputs.shown
      /\ inputs'.servers = inputs.servers /\ inputs'.metric = inputs.metric
      /\ inputs'.threshold = inputs.threshold /\ inputs'.kept = inputs.kept
  BY <1>1, <1>2, <1>3 DEF RuleInputs
<1> HIDE DEF boxes
<1>7. Shape'
  BY <1>1, <1>2, <1>5, <1>6 DEF Shape, RuleOpen, ServerOpen, GroupOpen
<1>8. Picker'
  BY <1>1, <1>2, <1>4, <1>5, <1>6 DEF DInv, Picker, RuleOpen, Ticked
<1>9. RuleKept'
  BY <1>1, <1>2, <1>6 DEF DInv, RuleKept, RuleOpen
<1>10. ListKept' /\ BillKept' /\ ButtonOff'
  BY <1>1, <1>2, <1>5, <1>6 DEF DInv, ListKept, BillKept, ButtonOff, RuleOpen, GroupOpen,
                                ServerOpen
<1> QED
  BY <1>7, <1>8, <1>9, <1>10 DEF DInv

\* The channels an open rule shows are drawn again from what would be confirmed.
LEMMA ChannelsChanged ==
    ASSUME NEW methods \in SUBSET Method, DInv, ChannelsChange(methods)
    PROVE  DInv'
<1>1. config' = methods /\ UNCHANGED <<item, editor, window, asking, listed, chosen, touched>>
  BY DEF ChannelsChange, dialogHistory
<1>2. CASE RuleOpen
  <2>1. inputs' = [inputs EXCEPT !.shown = methods, !.boxes = Ticked(editor, methods)]
    BY <1>2 DEF ChannelsChange, RuleOpen
  <2>2. inputs \in RuleInputs /\ Ticked(editor, methods) \subseteq Method
    BY <1>2 DEF DInv, Shape, Ticked
  <2>3. /\ inputs' \in RuleInputs /\ inputs'.shown = methods
        /\ inputs'.boxes = Ticked(editor, methods)
        /\ inputs'.servers = inputs.servers /\ inputs'.metric = inputs.metric
        /\ inputs'.threshold = inputs.threshold /\ inputs'.kept = inputs.kept
    BY <2>1, <2>2 DEF RuleInputs
  <2>4. Shape' /\ Picker'
    BY <1>1, <1>2, <2>3 DEF DInv, Shape, Picker, RuleOpen, ServerOpen, GroupOpen, Ticked
  <2>5. RuleKept' /\ ListKept' /\ BillKept' /\ ButtonOff'
    BY <1>1, <1>2, <2>3 DEF DInv, RuleKept, ListKept, BillKept, ButtonOff, RuleOpen,
                            ServerOpen, GroupOpen
  <2> QED
    BY <2>4, <2>5 DEF DInv
<1>3. CASE ~RuleOpen
  <2>1. inputs' = inputs
    BY <1>3 DEF ChannelsChange, RuleOpen
  <2> QED
    BY <1>1, <1>3, <2>1 DEF DInv, Shape, Picker, RuleKept, ListKept, BillKept, ButtonOff,
                            RuleOpen, ServerOpen, GroupOpen
<1> QED
  BY <1>2, <1>3

\* Another type of alert puts the threshold aside, or takes it back.
LEMMA MetricChosen ==
    ASSUME NEW metric \in {"offline", "cpu", "load"}, DInv, ChooseMetric(metric)
    PROVE  DInv'
<1> DEFINE in == [inputs EXCEPT !.metric = metric]
<1>1. /\ RuleOpen /\ inputs \in RuleInputs /\ metric # inputs.metric
      /\ touched' = touched \cup {"metric"}
      /\ UNCHANGED <<config, item, editor, window, asking, listed, chosen>>
  BY DEF ChooseMetric, Change, DInv, Shape, RuleOpen
<1>2. inputs' = Metered(in)
  BY DEF ChooseMetric, Change
<1>3. /\ in \in RuleInputs /\ in.metric = metric /\ in.shown = inputs.shown
      /\ in.boxes = inputs.boxes /\ in.servers = inputs.servers
      /\ in.threshold = inputs.threshold /\ in.kept = inputs.kept
  BY <1>1 DEF RuleInputs
<1>4. /\ inputs' \in RuleInputs /\ inputs'.shown = inputs.shown
      /\ inputs'.boxes = inputs.boxes /\ inputs'.servers = inputs.servers
      /\ inputs'.metric = metric
      /\ metric = "offline" =>
            /\ inputs'.threshold = "none"
            /\ inputs'.kept = IF inputs.threshold = "none" THEN inputs.kept ELSE inputs.threshold
      /\ metric # "offline" =>
            /\ inputs'.kept = inputs.kept
            /\ inputs'.threshold = IF inputs.threshold = "none" THEN inputs.kept
                                                                 ELSE inputs.threshold
  BY <1>2, <1>3, MeteredFields
<1> HIDE DEF in
<1>5. Shape'
  BY <1>1, <1>4 DEF DInv, Shape, RuleOpen, ServerOpen, GroupOpen
<1>6. RuleKept'
  BY <1>1, <1>4 DEF DInv, RuleKept, RuleOpen
<1>7. ListKept' /\ BillKept' /\ ButtonOff'
  BY <1>1, <1>4 DEF DInv, ListKept, BillKept, ButtonOff, RuleOpen, GroupOpen, ServerOpen
<1>8. Picker'
  BY <1>1, <1>4 DEF DInv, Shape, Picker, RuleOpen, ServerOpen, GroupOpen, Ticked
<1> QED
  BY <1>5, <1>6, <1>7, <1>8 DEF DInv

\* A threshold that is typed is no longer the one the rule came with.
LEMMA ThresholdTyped ==
    ASSUME NEW value \in {"none", "low", "high"}, DInv, TypeThreshold(value)
    PROVE  DInv'
<1>1. /\ RuleOpen /\ inputs \in RuleInputs
      /\ inputs' = [inputs EXCEPT !.threshold = value]
      /\ touched' = touched \cup {"threshold"}
      /\ UNCHANGED <<config, item, editor, window, asking, listed, chosen>>
  BY DEF TypeThreshold, Change, DInv, Shape, RuleOpen
<1>2. /\ inputs' \in RuleInputs /\ inputs'.shown = inputs.shown
      /\ inputs'.boxes = inputs.boxes /\ inputs'.servers = inputs.servers
  BY <1>1 DEF RuleInputs
<1>3. Shape' /\ Picker'
  BY <1>1, <1>2 DEF DInv, Shape, Picker, RuleOpen, ServerOpen, GroupOpen, Ticked
<1>4. RuleKept'
  BY <1>1, <1>2 DEF DInv, RuleKept, RuleOpen
<1>5. ListKept' /\ BillKept' /\ ButtonOff'
  BY <1>1, <1>2 DEF DInv, ListKept, BillKept, ButtonOff, RuleOpen, GroupOpen, ServerOpen
<1> QED
  BY <1>3, <1>4, <1>5 DEF DInv

\* A click on a server leaves the rest of the editor alone.
LEMMA NodeClicked ==
    ASSUME NEW n \in Node, DInv, ClickNode(n)
    PROVE  DInv'
<1>1. /\ RuleOpen \/ GroupOpen
      /\ inputs' = [inputs EXCEPT !.servers = Flip(@, n)]
      /\ touched' = touched \cup {"servers"}
      /\ UNCHANGED <<config, item, editor, window, asking, listed, chosen>>
  BY DEF ClickNode, Change, RuleOpen, GroupOpen
<1>2. CASE RuleOpen
  <2>1. inputs \in RuleInputs
    BY <1>2 DEF DInv, Shape
  <2>2. /\ inputs' \in RuleInputs /\ inputs'.shown = inputs.shown
        /\ inputs'.boxes = inputs.boxes /\ inputs'.metric = inputs.metric
        /\ inputs'.threshold = inputs.threshold /\ inputs'.kept = inputs.kept
    BY <1>1, <2>1 DEF RuleInputs, Flip
  <2>3. Shape' /\ Picker'
    BY <1>1, <1>2, <2>2 DEF DInv, Shape, Picker, RuleOpen, ServerOpen, GroupOpen, Ticked
  <2>4. RuleKept' /\ ListKept' /\ BillKept' /\ ButtonOff'
    BY <1>1, <1>2, <2>2 DEF DInv, RuleKept, ListKept, BillKept, ButtonOff, RuleOpen,
                            GroupOpen, ServerOpen
  <2> QED
    BY <2>3, <2>4 DEF DInv
<1>3. CASE GroupOpen
  <2>0. inputs \in [servers : SUBSET Node]
    BY <1>3 DEF DInv, Shape
  <2>1. inputs' \in [servers : SUBSET Node]
    BY <1>1, <2>0 DEF Flip
  <2> QED
    BY <1>1, <1>3, <2>1 DEF DInv, Shape, Picker, RuleKept, ListKept, BillKept, ButtonOff,
                            RuleOpen, GroupOpen, ServerOpen
<1> QED
  BY <1>1, <1>2, <1>3

\* An input of a server's editor that changes leaves what the others say.
LEMMA ServerChanged ==
    ASSUME NEW name, NEW in \in ServerForm, DInv, ServerOpen, ChangeServer(name, in),
           name # "end" => in.mode = inputs.mode /\ in.date = inputs.date,
           name # "auto" => in.auto = inputs.auto,
           name # "cycle" => in.cycle = inputs.cycle,
           name # "amount" => /\ in.fee = inputs.fee /\ in.amount = inputs.amount
                              /\ in.currency = inputs.currency,
           name # "groups" => in.groups = inputs.groups
    PROVE  DInv'
<1>1. /\ touched' = touched \cup {name}
      /\ UNCHANGED <<config, item, editor, window, asking, listed, chosen>>
  BY DEF ChangeServer, Change
<1>2. inputs' = Synced(in)
  BY DEF ChangeServer, Change
<1>3. /\ inputs' \in ServerForm /\ inputs'.mode = in.mode /\ inputs'.date = in.date
      /\ inputs'.cycle = in.cycle /\ inputs'.fee = in.fee /\ inputs'.currency = in.currency
      /\ inputs'.groups = in.groups
      /\ in.mode = "date" => inputs'.auto = in.auto
      /\ inputs'.amount = IF in.fee = "free" THEN "none" ELSE in.amount
  BY <1>2, SyncedFields
<1>4. Shape' /\ Picker' /\ RuleKept' /\ ListKept' /\ ButtonOff'
  BY <1>1, <1>3 DEF DInv, Shape, Picker, RuleKept, ListKept, ButtonOff, RuleOpen, ServerOpen,
                    GroupOpen
<1>5. BillKept'
  <2>1. name # "end" /\ "end" \notin touched =>
            /\ inputs'.mode = IF item.end = "odd" THEN "date" ELSE item.end
            /\ inputs'.date <=> item.end = "date"
    BY <1>3 DEF DInv, BillKept
  <2>2. name \notin {"end", "auto"} /\ {"end", "auto"} \cap touched = {} /\ item.end = "date" =>
            inputs'.auto = item.auto
    BY <1>3 DEF DInv, BillKept
  <2>3. name # "cycle" /\ "cycle" \notin touched => inputs'.cycle = item.cycle
    BY <1>3 DEF DInv, BillKept
  <2>4. name # "amount" /\ "amount" \notin touched =>
            /\ inputs'.fee = "free" <=> item.amount = "free"
            /\ item.amount \in {"listed", "custom"} => inputs'.amount = "number"
            /\ item.amount \in {"none", "free"} => inputs'.amount = "none"
            /\ item.amount = "custom" <=> inputs'.currency = "custom" /\ item.amount # "odd"
    BY <1>3 DEF DInv, BillKept
  <2>5. name # "groups" /\ "groups" \notin touched /\ item.groups # {} =>
            inputs'.groups = {g \in Group : \E o \in item.groups : Label[o] = Label[g]}
    BY <1>3 DEF DInv, BillKept
  <2> QED
    BY <1>1, <2>1, <2>2, <2>3, <2>4, <2>5 DEF BillKept
<1> QED
  BY <1>4, <1>5 DEF DInv

\* Every input of a server's editor is one of those.
LEMMA ServerFormEdited ==
    ASSUME DInv, EditServerForm
    PROVE  DInv'
<1>1. ServerOpen /\ inputs \in ServerForm
  BY DEF EditServerForm, DInv, Shape, ServerOpen
<1>2. ASSUME NEW m \in {"date", "permanent", "none"},
             ChangeServer("end", [inputs EXCEPT !.mode = m])
      PROVE  DInv'
  BY <1>1, <1>2, ServerChanged DEF ServerForm
<1>3. ASSUME ChangeServer("end", [inputs EXCEPT !.date = ~@])
      PROVE  DInv'
  BY <1>1, <1>3, ServerChanged DEF ServerForm
<1>4. ASSUME ChangeServer("auto", [inputs EXCEPT !.auto = ~@])
      PROVE  DInv'
  BY <1>1, <1>4, ServerChanged DEF ServerForm
<1>5. ASSUME ChangeServer("cycle", [inputs EXCEPT !.cycle = ~@])
      PROVE  DInv'
  BY <1>1, <1>5, ServerChanged DEF ServerForm
<1>6. ASSUME NEW f \in {"paid", "free"}, ChangeServer("amount", [inputs EXCEPT !.fee = f])
      PROVE  DInv'
  BY <1>1, <1>6, ServerChanged DEF ServerForm
<1>7. ASSUME NEW a \in {"none", "number"}, ChangeServer("amount", [inputs EXCEPT !.amount = a])
      PROVE  DInv'
  BY <1>1, <1>7, ServerChanged DEF ServerForm
<1>8. ASSUME NEW c \in {"listed", "custom"},
             ChangeServer("amount", [inputs EXCEPT !.currency = c])
      PROVE  DInv'
  BY <1>1, <1>8, ServerChanged DEF ServerForm
<1>9. ASSUME ChangeServer("amount", [inputs EXCEPT !.code = ~@])
      PROVE  DInv'
  BY <1>1, <1>9, ServerChanged DEF ServerForm
<1>10. ASSUME NEW g \in Group, ChangeServer("groups", [inputs EXCEPT !.groups = Flip(@, g)])
       PROVE  DInv'
  BY <1>1, <1>10, ServerChanged DEF ServerForm, Flip
<1> QED
  BY <1>2, <1>3, <1>4, <1>5, <1>6, <1>7, <1>8, <1>9, <1>10, Zenon DEF EditServerForm

\* A command's request turns its own dialog's button off, and its failure the
\* open command's on; the last answer leaves no open dialog without a button.
LEMMA CommandSteps ==
    ASSUME DInv, ConfirmCommand \/ CommandFails \/ RowsDrawnAgain
    PROVE  DInv'
<1>0. asking \in Nat /\ window \in [open : BOOLEAN, enabled : BOOLEAN] /\ editor \in Editors
  BY DEF DInv, Shape
<1>1. CASE ConfirmCommand \/ CommandFails
  <2>1. PICK on \in BOOLEAN :
            /\ window' = [window EXCEPT !.enabled = on]
            /\ ~on => /\ ConfirmCommand \/ ~window.enabled
                      /\ ConfirmCommand \/ editor.type # "command"
    <3>1. CASE ConfirmCommand
      BY <3>1 DEF ConfirmCommand
    <3>2. CASE CommandFails
      BY <3>2, (window.enabled \/ editor.type = "command") \in BOOLEAN DEF CommandFails
    <3> QED
      BY <1>1, <3>1, <3>2
  <2>2. /\ window' \in [open : BOOLEAN, enabled : BOOLEAN] /\ window'.open = window.open
        /\ window'.enabled = on
    BY <1>0, <2>1, ButtonTurned
  <2>3. UNCHANGED <<config, item, editor, inputs, listed, chosen, touched>>
    BY <1>1 DEF ConfirmCommand, CommandFails, dialogHistory
  <2>4. asking' \in Nat /\ (ConfirmCommand => editor.type = "command" /\ asking' > 0)
    BY <1>0, <1>1 DEF ConfirmCommand, CommandFails, Confirming
  <2>5. ButtonOff'
    BY <2>1, <2>2, <2>3, <2>4 DEF DInv, ButtonOff
  <2> QED
    BY <2>2, <2>3, <2>4, <2>5 DEF DInv, Shape, Picker, RuleKept, ListKept, BillKept, RuleOpen,
                      ServerOpen, GroupOpen
<1>2. CASE RowsDrawnAgain
  BY <1>2 DEF RowsDrawnAgain, dialogHistory, DInv, Shape, Picker, RuleKept,
              ListKept, BillKept, ButtonOff, RuleOpen, ServerOpen, GroupOpen
<1> QED
  BY <1>1, <1>2

\* Whatever closes the dialog leaves nothing to say about it.
LEMMA Closes ==
    ASSUME DInv, \/ ConfirmRule \/ ConfirmServer \/ ConfirmGroup
                 \/ Cancel \/ Escape \/ Settled \/ CommandCopied
    PROVE  DInv'
<1>0. /\ config \subseteq Method /\ asking \in Nat /\ editor \in Editors
      /\ window \in [open : BOOLEAN, enabled : BOOLEAN]
  BY DEF DInv, Shape
<1>1. Plain("none") \in Editors /\ Plain(editor.type) \in Editors
  BY <1>0 DEF Plain, Editors
<1>2. ClosedWindow \in [open : BOOLEAN, enabled : BOOLEAN] /\ ClosedWindow.open = FALSE
  BY <1>0 DEF ClosedWindow
<1>3. CASE Settled
  BY <1>0, <1>3, WhenClosed DEF Settled
<1>4. CASE ~Settled
  <2>1. /\ config' = config /\ asking' \in Nat /\ window' = ClosedWindow
        /\ editor' \in {Plain("none"), Plain(editor.type)}
    BY <1>0, <1>4 DEF ConfirmRule, ConfirmServer, ConfirmGroup, Confirmed, Cancel, Escape,
                      CommandCopied, Close, NoEditor
  <2> QED
    BY <1>0, <1>1, <1>2, <2>1, WhenClosed
<1> QED
  BY <1>3, <1>4

\* Every step keeps the invariant.
LEMMA DialogInductive == DInv /\ [DialogNext]_dialogVars => DInv'
<1> SUFFICES ASSUME DInv, [DialogNext]_dialogVars
             PROVE  DInv'
  OBVIOUS
<1>1. CASE Opens
  <2>1. ASSUME NEW r \in Rule, NEW nodes \in SUBSET Node, OpenRule(r, nodes)
        PROVE  DInv'
    <3>1. r \in RuleItem
      BY DEF Rule, RuleItem
    <3> QED
      BY <2>1, <3>1, RuleOpens DEF OpenRule
  <2>2. ASSUME NEW nodes \in SUBSET Node, OpenNewRule(nodes)
        PROVE  DInv'
    <3>1. [methods |-> config, servers |-> {}, metric |-> "offline", threshold |-> "low"]
             \in RuleItem
      BY DEF DInv, Shape, RuleItem
    <3> QED
      BY <2>2, <3>1, RuleOpens DEF OpenNewRule
  <2>3. ASSUME NEW nodes \in SUBSET Node, NEW members \in SUBSET Node,
               OpenGroup(members, nodes)
        PROVE  DInv'
    BY <2>3, GroupOpens
  <2>4. ASSUME NEW s \in Server, NEW default \in SUBSET Group, OpenServer(s, default)
        PROVE  DInv'
    BY <2>4, ServerOpens
  <2>5. ASSUME NEW row, OpenCommand(row)
        PROVE  DInv'
    BY <2>5, CommandOpens
  <2> QED
    BY <1>1, <2>1, <2>2, <2>3, <2>4, <2>5, Zenon DEF Opens
<1>2. CASE \E m \in Method : ClickMethod(m)
  BY <1>2, MethodClicked
<1>3. CASE \E metric \in {"offline", "cpu", "load"} : ChooseMetric(metric)
  BY <1>3, MetricChosen
<1>4. CASE \E value \in {"none", "low", "high"} : TypeThreshold(value)
  BY <1>4, ThresholdTyped
<1>5. CASE \E n \in Node : ClickNode(n)
  BY <1>5, NodeClicked
<1>6. CASE EditServerForm
  BY <1>6, ServerFormEdited
<1>7. CASE ConfirmRule \/ ConfirmServer \/ ConfirmGroup \/ Cancel \/ Escape \/ Settled
           \/ CommandCopied
  BY <1>7, Closes
<1>8. CASE ConfirmCommand \/ CommandFails \/ RowsDrawnAgain
  BY <1>8, CommandSteps
<1>9. CASE \E methods \in SUBSET Method : ChannelsChange(methods)
  BY <1>9, ChannelsChanged
<1>10. CASE UNCHANGED dialogVars
  BY <1>10 DEF dialogVars, dialogHistory, DInv, Shape, Picker, RuleKept, ListKept, BillKept,
               ButtonOff, RuleOpen, ServerOpen, GroupOpen
<1> QED
  BY <1>1, <1>2, <1>3, <1>4, <1>5, <1>6, <1>7, <1>8, <1>9, <1>10, Zenon DEF DialogNext

----------------------------------------------------------------------------
(* The theorems.                                                           *)

\* The invariant holds in every state of the dialog.
THEOREM DialogInvariant == DialogSpec => []DInv
BY DialogInitially, DialogInductive, PTL DEF DialogSpec

\* An open editor can be confirmed unless a command is being fetched, whatever
\* order editors open and commands are answered in (openDialog, closeDialog and
\* the finally of applyAccessCommandEditor).
THEOREM ConfirmStaysAvailable == DialogSpec => []ConfirmAvailable
<1>1. DInv => ConfirmAvailable
  BY DEF DInv, ButtonOff, ConfirmAvailable
<1> QED
  BY <1>1, DialogInvariant, PTL

\* The boxes of an open rule say what confirming it delivers through.
LEMMA BoxesTell ==
    ASSUME DInv, ConfirmRule
    PROVE  /\ \A m \in inputs.shown : Allowed(item'.methods, m) <=> m \in inputs.boxes
           /\ item.methods # {} => \A m \in Method : Allowed(item'.methods, m) <=> m \in chosen
<1>1. /\ RuleOpen /\ inputs.shown = config /\ inputs.boxes = Ticked(editor, config)
      /\ item.methods # {} => editor.mode = "explicit" /\ editor.values = chosen
      /\ editor.mode \in {"all", "explicit"}
  BY DEF ConfirmRule, Confirming, RuleOpen, DInv, Shape, Picker
<1>2. /\ item'.methods = IF editor.mode = "all" THEN {} ELSE editor.values
      /\ editor.mode = "explicit" => editor.values # {}
  BY DEF ConfirmRule, Confirmed, RuleAccepted
<1> QED
  BY <1>1, <1>2 DEF Allowed, Ticked

\* A confirmed rule alerts through the channels whose boxes were ticked and, if
\* it named its channels, through the others as before or as last clicked,
\* however the configured channels changed meanwhile
\* (updateAlertRuleNotificationSelection, refreshAlertRuleNotificationMethods).
THEOREM RuleDeliversAsTicked == DialogSpec => DeliversAsTicked
<1>1. DInv /\ [DialogNext]_dialogVars =>
        [ConfirmRule =>
           /\ \A m \in inputs.shown : Allowed(item'.methods, m) <=> m \in inputs.boxes
           /\ item.methods # {} =>
                \A m \in Method : Allowed(item'.methods, m) <=> m \in chosen]_dialogVars
  BY BoxesTell
<1> QED
  BY <1>1, DialogInvariant, PTL DEF DialogSpec, DeliversAsTicked

\* An untouched part of a rule or a group is confirmed as the entry had it.
LEMMA RuleUntouched ==
    ASSUME DInv, ConfirmRule
    PROVE  /\ "methods" \notin touched => item'.methods = item.methods
           /\ "threshold" \notin touched /\ item.metric \in {item'.metric} \ {"offline"} =>
                  item'.threshold = item.threshold
           /\ "servers" \notin touched /\ item.servers \subseteq listed =>
                  item'.servers = item.servers
<1>1. RuleOpen /\ RuleKept /\ ListKept /\ item \in RuleItem /\ editor \in Editors
  BY DEF ConfirmRule, Confirming, RuleOpen, DInv, Shape
<1>2. /\ item'.methods = (IF editor.mode = "all" THEN {} ELSE editor.values)
      /\ item'.servers = inputs.servers /\ item'.metric = inputs.metric
      /\ inputs.metric # "offline" => item'.threshold = inputs.threshold
  BY DEF ConfirmRule, Confirmed
<1> QED
  BY <1>1, <1>2 DEF RuleKept, ListKept

\* The same of a server: what an untouched input shows is what is read from it.
LEMMA ServerUntouched ==
    ASSUME DInv, ConfirmServer
    PROVE  /\ "end" \notin touched => item'.end = item.end
           /\ {"end", "auto"} \cap touched = {} /\ item.end = "date" => item'.auto = item.auto
           /\ "cycle" \notin touched /\ item.end = "date" /\ item'.end = "date" =>
                  item'.cycle = item.cycle
           /\ "amount" \notin touched /\ item.amount \notin {"bare", "odd"} =>
                  item'.amount = item.amount
           /\ "groups" \notin touched /\ item.groups # {} =>
                  \A g \in Group : (\A o \in Group \ {g} : Label[o] # Label[g]) =>
                      (g \in item'.groups <=> g \in item.groups)
<1>1. ServerOpen /\ BillKept /\ item \in Server /\ inputs \in ServerForm
  BY DEF ConfirmServer, Confirming, ServerOpen, DInv, Shape
<1>2. /\ item'.end = inputs.mode /\ item'.auto = (inputs.mode = "date" /\ inputs.auto)
      /\ item'.cycle = (inputs.mode = "date" /\ inputs.cycle)
      /\ item'.amount = AmountRead /\ item'.groups = inputs.groups
      /\ inputs.mode = "date" => inputs.date
  BY DEF ConfirmServer, Confirmed, ServerAccepted
<1>3. "end" \notin touched => item'.end = item.end
  BY <1>1, <1>2 DEF BillKept, Server
<1>4. {"end", "auto"} \cap touched = {} /\ item.end = "date" => item'.auto = item.auto
  BY <1>1, <1>2 DEF BillKept, Server, ServerForm
<1>5. "cycle" \notin touched /\ item.end = "date" /\ item'.end = "date" =>
          item'.cycle = item.cycle
  BY <1>1, <1>2 DEF BillKept, Server, ServerForm
<1>6. "amount" \notin touched /\ item.amount \notin {"bare", "odd"} =>
          item'.amount = item.amount
  BY <1>1, <1>2 DEF BillKept, Server, ServerForm, AmountRead
<1>7. "groups" \notin touched /\ item.groups # {} =>
          \A g \in Group : (\A o \in Group \ {g} : Label[o] # Label[g]) =>
              (g \in item'.groups <=> g \in item.groups)
  BY <1>1, <1>2 DEF BillKept, Server
<1> QED
  BY <1>3, <1>4, <1>5, <1>6, <1>7

\* The same of a group's members.
LEMMA GroupUntouched ==
    ASSUME DInv, ConfirmGroup
    PROVE  "servers" \notin touched /\ item.servers \subseteq listed =>
               item'.servers = item.servers
BY DEF ConfirmGroup, Confirming, Confirmed, DInv, ListKept, GroupOpen

\* What each kind of confirmation leaves as it was.
SameRule ==
    /\ "methods" \notin touched => item'.methods = item.methods
    /\ "threshold" \notin touched /\ item.metric \in {item'.metric} \ {"offline"} =>
           item'.threshold = item.threshold
SameServers ==
    "servers" \notin touched /\ item.servers \subseteq listed => item'.servers = item.servers
SameServer ==
    /\ "end" \notin touched => item'.end = item.end
    /\ {"end", "auto"} \cap touched = {} /\ item.end = "date" => item'.auto = item.auto
    /\ "cycle" \notin touched /\ item.end = "date" /\ item'.end = "date" =>
           item'.cycle = item.cycle
    /\ "amount" \notin touched /\ item.amount \notin {"bare", "odd"} => item'.amount = item.amount
    /\ "groups" \notin touched /\ item.groups # {} =>
           \A g \in Group : (\A o \in Group \ {g} : Label[o] # Label[g]) =>
               (g \in item'.groups <=> g \in item.groups)
Same ==
    /\ ConfirmRule => SameRule
    /\ ConfirmRule \/ ConfirmGroup => SameServers
    /\ ConfirmServer => SameServer

LEMMA ConfirmedSame == ASSUME DInv PROVE Same
<1>1. ASSUME ConfirmRule PROVE SameRule /\ SameServers
  BY <1>1, RuleUntouched DEF SameRule, SameServers
<1>2. ASSUME ConfirmGroup PROVE SameServers
  BY <1>2, GroupUntouched DEF SameServers
<1>3. ASSUME ConfirmServer PROVE SameServer
  BY <1>3, ServerUntouched, Zenon DEF SameServer
<1> QED
  BY <1>1, <1>2, <1>3 DEF Same

\* What the user did not touch is confirmed as it was, through every input that
\* clears or restores another (syncRuleEditorControls, syncServerEditorControls)
\* and every redraw of the picker.
THEOREM UntouchedInputsKept == DialogSpec => UntouchedKeeps
<1>1. DInv /\ [DialogNext]_dialogVars => [Same]_dialogVars
  BY ConfirmedSame
<1>2. DialogSpec => [][DialogNext]_dialogVars
  BY DEF DialogSpec
<1>3. DialogSpec => [][Same]_dialogVars
  BY <1>1, <1>2, DialogInvariant, PTL
<1> QED
  BY <1>3 DEF UntouchedKeeps, Same, SameRule, SameServers, SameServer

----------------------------------------------------------------------------
(* The types.                                                              *)

NewRule == [methods : SUBSET Method, servers : {{}}, metric : {"offline"}, threshold : {"low"}]
Entries == Rule \cup Server \cup [servers : SUBSET Node] \cup {NoEntry} \cup NewRule
Touchable == {"methods", "metric", "threshold", "servers", "end", "auto", "cycle", "amount",
              "groups"}

\* What the page remembers of the dialog, and what its settings hold.
Remembered ==
    /\ item \in Entries
    /\ chosen \subseteq Method /\ listed \subseteq Node
    /\ touched \subseteq Touchable
    /\ asking \in 0..MaxAsking /\ edits \in 0..MaxEdits
    /\ RuleOpen /\ editor.mode = "explicit" /\ editor.values = {} => "methods" \in touched
    /\ editor.mode = "explicit" => editor.type = "rule"

\* A dialog that closes, in whatever way, remembers nothing.
LEMMA ClosedRemembers ==
    ASSUME Emptied, window'.open = FALSE, item' \in Entries, asking' \in 0..MaxAsking,
           \E type : editor' = Plain(type)
    PROVE  Remembered'
<1>1. editor'.mode = "none"
  BY DEF Plain
<1> QED
  BY <1>1, DialogAssumption DEF Emptied, Remembered, RuleOpen

\* Closing it closes it.
LEMMA ClosedWindowShut ==
    ASSUME DInv
    PROVE  ClosedWindow.open = FALSE
BY DEF ClosedWindow, DInv, Shape

\* Opening an editor forgets what was touched.
LEMMA OpenRemembers ==
    ASSUME Remembered, NEW ed, NEW entry \in Entries, NEW in, NEW allowed \in SUBSET Method,
           Open(ed, entry, in, allowed), listed' \subseteq Node,
           ed.mode = "explicit" => ed.type = "rule" /\ ed.values # {}
    PROVE  Remembered'
BY DialogAssumption DEF Open, Remembered

\* A change of an input is counted and remembered.
LEMMA ChangeRemembers ==
    ASSUME Remembered, NEW type, NEW name \in Touchable, NEW in, Change(type, name, in),
           chosen' \subseteq Method, editor' = editor \/ (type = "rule" /\ name = "methods"),
           editor'.type = editor.type
    PROVE  Remembered'
<1>1. /\ item' = item /\ listed' = listed /\ asking' = asking /\ window' = window
      /\ touched' = touched \cup {name} /\ edits' = edits + 1 /\ edits < MaxEdits
      /\ editor.type = type
  BY DEF Change
<1>2. edits' \in 0..MaxEdits
  BY <1>1, DialogAssumption DEF Remembered
<1> QED
  BY <1>1, <1>2 DEF Remembered, RuleOpen

\* A confirmed rule is one the settings can hold.
LEMMA ConfirmedRule ==
    ASSUME DInv, ConfirmRule
    PROVE  item' \in Rule
<1>1. RuleOpen /\ inputs \in RuleInputs /\ editor \in Editors
  BY DEF ConfirmRule, Confirming, DInv, Shape, RuleOpen
<1> DEFINE methods == IF editor.mode = "all" THEN {} ELSE editor.values
           threshold == IF inputs.metric = "offline" THEN "none" ELSE inputs.threshold
<1>2. item' = [methods |-> methods, servers |-> inputs.servers, metric |-> inputs.metric,
               threshold |-> threshold]
  BY DEF ConfirmRule, Confirmed
<1>3. /\ methods \in SUBSET Method /\ inputs.servers \in SUBSET Node
      /\ inputs.metric \in {"offline", "cpu", "load"} /\ threshold \in {"none", "low", "high"}
      /\ inputs.metric = "offline" => threshold = "none"
      /\ inputs.metric = "cpu" => threshold # "high"
  BY <1>1 DEF RuleInputs, Editors, ConfirmRule, RuleAccepted
<1> HIDE DEF methods, threshold
<1> QED
  BY <1>2, <1>3 DEF Rule

\* A confirmed server has a bill the settings can hold.
LEMMA ConfirmedServer ==
    ASSUME DInv, ConfirmServer
    PROVE  item' \in Server
<1>1. inputs \in ServerForm
  BY DEF ConfirmServer, Confirming, DInv, Shape, ServerOpen
<1> DEFINE auto == inputs.mode = "date" /\ inputs.auto
           cycle == inputs.mode = "date" /\ inputs.cycle
<1>2. item' = [end |-> inputs.mode, auto |-> auto, cycle |-> cycle, amount |-> AmountRead,
               groups |-> inputs.groups]
  BY DEF ConfirmServer, Confirmed
<1>3. /\ inputs.mode \in {"none", "date", "permanent", "odd"}
      /\ auto \in BOOLEAN /\ cycle \in BOOLEAN /\ inputs.groups \in SUBSET Group
      /\ AmountRead \in {"none", "free", "listed", "custom", "bare", "odd"}
  BY <1>1 DEF ServerForm, AmountRead
<1> HIDE DEF auto, cycle
<1> QED
  BY <1>2, <1>3 DEF Server

\* Every editor opens with an entry of the settings.
LEMMA OpensRemember ==
    ASSUME DInv, Remembered, Opens
    PROVE  Remembered'
<1>1. ASSUME NEW r \in Rule \cup NewRule, NEW nodes \in SUBSET Node, OpenRuleWith(r, nodes)
      PROVE  Remembered'
  <2>1. r.methods \subseteq Method /\ r \in Entries
    BY DEF Rule, NewRule, Entries
  <2>2. AllowedBy(r.methods) \subseteq Method
    BY DEF AllowedBy
  <2>3. /\ SelectionOf(r).type = "rule" /\ SelectionOf(r).values = r.methods
        /\ SelectionOf(r).mode = "explicit" => r.methods # {}
    BY DEF SelectionOf
  <2> QED
    BY <1>1, <2>1, <2>2, <2>3, OpenRemembers DEF OpenRuleWith
<1>2. ASSUME NEW nodes \in SUBSET Node, OpenNewRule(nodes)
      PROVE  Remembered'
  <2>1. [methods |-> config, servers |-> {}, metric |-> "offline", threshold |-> "low"]
            \in NewRule
    BY DEF DInv, Shape, NewRule
  <2> QED
    BY <1>1, <1>2, <2>1 DEF OpenNewRule
<1>3. ASSUME NEW type, type # "rule", NEW entry \in Entries, NEW in, listed' \subseteq Node,
             Open(Plain(type), entry, in, {})
      PROVE  Remembered'
  BY <1>3, OpenRemembers DEF Plain
<1>4. ASSUME NEW nodes \in SUBSET Node, NEW members \in SUBSET Node, OpenGroup(members, nodes)
      PROVE  Remembered'
  BY <1>3, <1>4 DEF OpenGroup, Entries
<1>5. ASSUME NEW s \in Server, NEW default, OpenServer(s, default)
      PROVE  Remembered'
  BY <1>3, <1>5 DEF OpenServer, Entries, Remembered
<1>6. ASSUME NEW row, OpenCommand(row)
      PROVE  Remembered'
  BY <1>3, <1>6 DEF OpenCommand, Entries, Remembered
<1> QED
  BY <1>1, <1>2, <1>4, <1>5, <1>6, Zenon DEF Opens, OpenRule

\* Every step keeps what is remembered in its type.
LEMMA RememberedKept ==
    ASSUME DInv, Remembered, [DialogNext]_dialogVars
    PROVE  Remembered'
<1>1. ASSUME NEW m \in Method, ClickMethod(m)
      PROVE  Remembered'
  <2>1. editor.type = "rule" /\ editor' = [editor EXCEPT !.mode = "explicit",
                                                         !.values = Selected(Flip(inputs.boxes, m))]
    BY <1>1 DEF ClickMethod
  <2>2. editor'.type = editor.type
    BY <2>1
  <2>3. chosen' \subseteq Method
    BY <1>1 DEF ClickMethod, Flip, Remembered
  <2> QED
    BY <1>1, <2>1, <2>2, <2>3, ChangeRemembers DEF ClickMethod, Touchable
<1>2. ASSUME NEW name \in Touchable, NEW type, NEW in, Change(type, name, in),
             UNCHANGED <<editor, chosen>>
      PROVE  Remembered'
  BY <1>2, ChangeRemembers DEF Remembered
<1>3. CASE \/ \E metric \in {"offline", "cpu", "load"} : ChooseMetric(metric)
           \/ \E value \in {"none", "low", "high"} : TypeThreshold(value)
           \/ \E n \in Node : ClickNode(n)
  BY <1>2, <1>3 DEF ChooseMetric, TypeThreshold, ClickNode, Touchable
<1>4. ASSUME NEW name \in Touchable, NEW in, ChangeServer(name, in)
      PROVE  Remembered'
  BY <1>2, <1>4 DEF ChangeServer
<1>5. CASE EditServerForm
  BY <1>4, <1>5, Zenon DEF EditServerForm, Touchable
<1>6. asking \in 0..MaxAsking /\ NoEntry \in Entries /\ item \in Entries
  BY DEF Remembered, Entries
<1>7. CASE ConfirmRule \/ ConfirmServer \/ ConfirmGroup
  <2>1. item' \in Entries
    <3>1. CASE ConfirmGroup
      BY <3>1 DEF ConfirmGroup, Confirming, Confirmed, DInv, Shape, GroupOpen, Entries
    <3> QED
      BY <1>7, <3>1, ConfirmedRule, ConfirmedServer DEF Entries
  <2>2. Close /\ asking' = asking
    BY <1>7 DEF ConfirmRule, ConfirmServer, ConfirmGroup, Confirmed
  <2> QED
    BY <1>6, <2>1, <2>2, ClosedRemembers, ClosedWindowShut DEF Close, NoEditor
<1>8. CASE Cancel \/ CommandCopied
  <2>1. Close /\ item' = NoEntry /\ asking' \in 0..MaxAsking
    BY <1>6, <1>8, DialogAssumption DEF Cancel, CommandCopied
  <2> QED
    BY <1>6, <2>1, ClosedRemembers, ClosedWindowShut DEF Close, NoEditor
<1>9. CASE Escape
  BY <1>6, <1>9, ClosedRemembers, ClosedWindowShut DEF Escape
<1>10. CASE Settled
  BY <1>6, <1>10 DEF Settled, dialogHistory, Remembered, RuleOpen
<1>11. CASE ConfirmCommand \/ CommandFails \/ RowsDrawnAgain
  <2>1. /\ UNCHANGED <<item, editor, listed, chosen, touched, edits>>
        /\ asking' \in 0..MaxAsking /\ window'.open = window.open
    BY <1>6, <1>11, DialogAssumption
    DEF ConfirmCommand, CommandFails, RowsDrawnAgain, dialogHistory, DInv, Shape
  <2> QED
    BY <2>1 DEF Remembered, RuleOpen
<1>12. CASE \E methods \in SUBSET Method : ChannelsChange(methods)
  BY <1>12 DEF ChannelsChange, dialogHistory, Remembered, RuleOpen
<1>13. CASE UNCHANGED dialogVars
  BY <1>13 DEF dialogVars, dialogHistory, Remembered, RuleOpen
<1> QED
  BY <1>1, <1>3, <1>5, <1>7, <1>8, <1>9, <1>10, <1>11, <1>12, <1>13, OpensRemember, Zenon
  DEF DialogNext

\* Types of the dialog's variables; an open rule shows the channels configured
\* now, and its choice is only empty when it means all or was just emptied
\* (openDialog, closeDialog, refreshAlertRuleNotificationMethods).
THEOREM DialogKeepsTypes == DialogSpec => []DialogTypeOK
<1>1. DialogInit => Remembered
  BY DialogAssumption DEF DialogInit, Remembered, Entries, RuleOpen, NoEditor, Plain
<1>2. DInv /\ Remembered /\ [DialogNext]_dialogVars => Remembered'
  BY RememberedKept
<1>3. DInv /\ Remembered => DialogTypeOK
  BY DEF DInv, Shape, Picker, RuleOpen, Editors, Remembered, Entries, NewRule, Touchable,
         DialogTypeOK
<1> QED
  BY <1>1, <1>2, <1>3, DialogInvariant, PTL DEF DialogSpec
=============================================================================
