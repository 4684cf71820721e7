---------------------------- MODULE EditorDialog ----------------------------
(***************************************************************************)
(* web/static/js/admin.js: the one dialog in which the admin page edits a  *)
(* server, a server group and an alert rule, and makes up the command that *)
(* installs an agent.  It is filled from the page's settings when it opens *)
(* and read when it is confirmed; in between one input clears another, the *)
(* channels an alert may use come and go, and the answer to a command may  *)
(* arrive.  What was not touched must survive all of that.                 *)
(*                                                                         *)
(* Abstraction.  item is the settings' entry the last editor was opened    *)
(* for; the next one may be opened for any entry; an amount or a date is   *)
(* the form it is written in.  Plain inputs (names, notes, durations) are  *)
(* left out; so is the repeat interval, the threshold's mirror image.      *)
(***************************************************************************)
EXTENDS Naturals, FiniteSets

CONSTANTS
    Method,     \* notification channels
    Node,       \* servers a rule or a group may name
    Group,      \* server groups
    Label,      \* the name of each group
    Grouping,   \* bound: the sets of groups an edited server may come with
    MaxEdits,   \* bound: inputs changed in one editor
    MaxAsking   \* bound: commands asked for at the same time

ASSUME DialogAssumption ==
    /\ MaxEdits \in Nat /\ MaxAsking \in Nat
    /\ Label \in [Group -> STRING] /\ Grouping \subseteq SUBSET Group

VARIABLES
    config,     \* the channels state.config says are configured
    item,       \* the entry of the settings
    editor,     \* state.editor
    inputs,     \* what the dialog's inputs hold
    window,     \* the dialog element and its confirm button
    asking,     \* commands asked for and not answered
    listed,     \* history: the servers the page listed when the editor opened
    chosen,     \* history: the channels as the rule has them, or as last clicked
    touched,    \* history: inputs the user changed since the editor opened
    edits       \* how often

dialogHistory == <<listed, chosen, touched, edits>>
dialogVars == <<config, item, editor, inputs, window, asking, dialogHistory>>

\* A rule as normalize_alert_rule leaves it; no methods: every channel, no
\* servers: every server.  A threshold is low up to 100, and high above.
Rule == {r \in [methods : SUBSET Method, servers : SUBSET Node,
                metric : {"offline", "cpu", "load"}, threshold : {"none", "low", "high"}] :
           /\ r.metric = "offline" => r.threshold = "none"
           /\ r.metric = "cpu" => r.threshold # "high"}

\* A server's bill, from the settings, the configuration or the agent, and its
\* groups.  bare: an amount without a currency, odd: text that is neither.
Server == [end : {"none", "date", "permanent", "odd"}, auto : BOOLEAN, cycle : BOOLEAN,
           amount : {"none", "free", "listed", "custom", "bare", "odd"},
           groups : SUBSET Group]

NoEntry == [none |-> TRUE]
Plain(type) == [type |-> type, mode |-> "none", values |-> {}]
NoEditor == Plain("none")
NoInputs == [none |-> TRUE]

----------------------------------------------------------------------------
(* The dialog.                                                             *)

\* Mutant of OpenedWindow: the button stays as the last editor left it.
OpenedWindowAsLeft == [window EXCEPT !.open = TRUE]

\* openDialog
OpenedWindow == [open |-> TRUE, enabled |-> TRUE]

ClosedWindow == [window EXCEPT !.open = FALSE]

Open(ed, entry, in, allowed) ==
    /\ window' = OpenedWindow
    /\ editor' = ed
    /\ item' = entry
    /\ inputs' = in
    /\ chosen' = allowed
    /\ touched' = {} /\ edits' = 0
    /\ UNCHANGED <<config, asking>>

\* What a closed dialog holds is never read: it is emptied when it opens.
Emptied == /\ inputs' = NoInputs
           /\ listed' = {} /\ chosen' = {} /\ touched' = {} /\ edits' = 0

\* closeDialog
Close == window' = ClosedWindow /\ editor' = NoEditor /\ Emptied

\* Also how a group or a rule is deleted (AdminPage has what it does).
Cancel ==
    /\ window.open /\ Close
    /\ item' = NoEntry
    /\ UNCHANGED <<config, asking>>

\* The browser closes the dialog: state.editor stays.
Escape ==
    /\ window.open
    /\ window' = ClosedWindow
    /\ editor' = Plain(editor.type)
    /\ Emptied
    /\ item' = NoEntry
    /\ UNCHANGED <<config, asking>>

\* An input of the open editor is changed.
Change(type, name, in) ==
    /\ window.open /\ editor.type = type /\ edits < MaxEdits
    /\ inputs' = in
    /\ touched' = touched \cup {name}
    /\ edits' = edits + 1
    /\ UNCHANGED <<config, item, window, asking, listed>>

Confirmed(entry) ==
    /\ item' = entry
    /\ Close
    /\ UNCHANGED <<config, asking>>

\* The confirmed entry is in the settings; another one may be edited.
Settled ==
    /\ ~window.open /\ item # NoEntry
    /\ item' = NoEntry
    /\ UNCHANGED <<config, editor, inputs, window, asking, dialogHistory>>

Confirming(type) == window.open /\ window.enabled /\ editor.type = type

Flip(set, x) == IF x \in set THEN set \ {x} ELSE set \cup {x}

----------------------------------------------------------------------------
(* Alert rules.                                                            *)

\* notification_methods_allow
Allowed(methods, m) == methods = {} \/ m \in methods
AllowedBy(methods) == {m \in Method : Allowed(methods, m)}

\* notificationSelectionForRule
SelectionOf(rule) ==
    [type |-> "rule", mode |-> IF rule.methods = {} THEN "all" ELSE "explicit",
     values |-> rule.methods]

\* notificationMethodPicker: which of the channels shown are ticked.
Ticked(ed, methods) == IF ed.mode = "all" THEN methods ELSE ed.values \cap methods

\* Mutant of Selected: only the channels shown are kept.
SelectedShown(boxes) == boxes

\* updateAlertRuleNotificationSelection: channels not configured now are kept.
Selected(boxes) == IF editor.mode = "all" THEN boxes ELSE (editor.values \ config) \cup boxes

\* syncRuleEditorControls: without a use the threshold is put aside.
Metered(in) ==
    IF in.metric = "offline"
    THEN [in EXCEPT !.kept = IF in.threshold = "none" THEN @ ELSE in.threshold,
                    !.threshold = "none"]
    ELSE [in EXCEPT !.threshold = IF @ = "none" THEN in.kept ELSE @]

\* openAlertRuleEditor
OpenRuleWith(rule, nodes) ==
    /\ listed' = nodes
    /\ Open(SelectionOf(rule), rule,
            Metered([shown |-> config, boxes |-> Ticked(SelectionOf(rule), config),
                     servers |-> rule.servers \cap nodes, metric |-> rule.metric,
                     threshold |-> rule.threshold, kept |-> "none"]),
            AllowedBy(rule.methods))

OpenRule(rule, nodes) == OpenRuleWith(rule, nodes)
OpenNewRule(nodes) ==
    OpenRuleWith([methods |-> config, servers |-> {}, metric |-> "offline", threshold |-> "low"],
                 nodes)

ClickMethod(m) ==
    /\ window.open /\ editor.type = "rule" /\ m \in inputs.shown
    /\ LET boxes == Flip(inputs.boxes, m) IN
       /\ Change("rule", "methods", [inputs EXCEPT !.boxes = boxes])
       /\ editor' = [editor EXCEPT !.mode = "explicit", !.values = Selected(boxes)]
    /\ chosen' = Flip(chosen, m)

\* Mutant of ChannelsChange: the picker of an open rule stays as it was drawn.
ChannelsChangeUnseen(methods) ==
    /\ methods # config /\ config' = methods
    /\ UNCHANGED <<item, editor, inputs, window, asking, dialogHistory>>

\* reloadNotificationState, refreshAlertRuleNotificationMethods: the picker of an
\* open rule is drawn again, the other inputs stay.
ChannelsChange(methods) ==
    /\ methods # config /\ config' = methods
    /\ inputs' = IF window.open /\ editor.type = "rule"
                 THEN [inputs EXCEPT !.shown = methods, !.boxes = Ticked(editor, methods)]
                 ELSE inputs
    /\ UNCHANGED <<item, editor, window, asking, dialogHistory>>

ChooseMetric(metric) ==
    /\ window.open /\ editor.type = "rule" /\ metric # inputs.metric
    /\ Change("rule", "metric", Metered([inputs EXCEPT !.metric = metric]))
    /\ UNCHANGED <<editor, chosen>>

TypeThreshold(value) ==
    /\ window.open /\ editor.type = "rule" /\ inputs.metric # "offline" /\ value # inputs.threshold
    /\ Change("rule", "threshold", [inputs EXCEPT !.threshold = value])
    /\ UNCHANGED <<editor, chosen>>

ClickNode(n) ==
    /\ window.open /\ editor.type \in {"rule", "group"} /\ n \in listed
    /\ Change(editor.type, "servers", [inputs EXCEPT !.servers = Flip(@, n)])
    /\ UNCHANGED <<editor, chosen>>

\* The input's own limits, and alertRuleNotificationsForApply: a choice the user
\* emptied is not taken, the dialog stays open.
RuleAccepted ==
    /\ inputs.metric # "offline" => inputs.threshold # "none"
    /\ inputs.metric = "cpu" => inputs.threshold # "high"
    /\ editor.mode = "explicit" => editor.values # {}

\* applyAlertRuleEditor
ConfirmRule ==
    /\ Confirming("rule") /\ RuleAccepted
    /\ Confirmed([methods |-> IF editor.mode = "all" THEN {} ELSE editor.values,
                  servers |-> inputs.servers, metric |-> inputs.metric,
                  threshold |-> IF inputs.metric = "offline" THEN "none" ELSE inputs.threshold])

----------------------------------------------------------------------------
(* Servers and groups.                                                     *)

\* Mutant of Synced: the cycle is cleared with the automatic renewal.
SyncedCycle(in) ==
    [in EXCEPT !.auto = @ /\ in.mode = "date", !.cycle = @ /\ in.mode = "date",
               !.amount = IF in.fee = "free" THEN "none" ELSE @,
               !.code = @ /\ in.fee # "free"]

\* syncServerEditorControls
Synced(in) ==
    [in EXCEPT !.auto = @ /\ in.mode = "date",
               !.amount = IF in.fee = "free" THEN "none" ELSE @,
               !.code = @ /\ in.fee # "free"]

\* parsedAmount in moneyControl: a number input does not take what is not one.
\* code: the input for another currency is filled.
ServerInputs(s) ==
    [mode |-> IF s.end = "odd" THEN "date" ELSE s.end,
     date |-> s.end = "date", auto |-> s.auto, cycle |-> s.cycle,
     fee |-> IF s.amount = "free" THEN "free" ELSE "paid",
     amount |-> IF s.amount \in {"listed", "custom", "bare"} THEN "number" ELSE "none",
     currency |-> IF s.amount \in {"custom", "odd"} THEN "custom" ELSE "listed",
     code |-> s.amount = "custom",
     groups |-> {g \in Group : \E o \in s.groups : Label[o] = Label[g]}]

\* openServerEditor; the groups come by name, so groups of one name are ticked
\* together, and a server of the gid "default" may come with that group.
OpenServer(s, default) ==
    /\ UNCHANGED listed
    /\ Open(Plain("server"), s,
            Synced(ServerInputs([s EXCEPT !.groups = IF @ = {} THEN default ELSE @])), {})

ChangeServer(name, in) == Change("server", name, Synced(in)) /\ UNCHANGED <<editor, chosen>>

EditServerForm ==
    /\ window.open /\ editor.type = "server"
    /\ \/ \E m \in {"date", "permanent", "none"} : ChangeServer("end", [inputs EXCEPT !.mode = m])
       \/ inputs.mode = "date" /\ ChangeServer("end", [inputs EXCEPT !.date = ~@])
       \/ inputs.mode = "date" /\ ChangeServer("auto", [inputs EXCEPT !.auto = ~@])
       \/ inputs.mode = "date" /\ ChangeServer("cycle", [inputs EXCEPT !.cycle = ~@])
       \/ \E f \in {"paid", "free"} : ChangeServer("amount", [inputs EXCEPT !.fee = f])
       \/ /\ inputs.fee = "paid"
          /\ \/ \E a \in {"none", "number"} : ChangeServer("amount", [inputs EXCEPT !.amount = a])
             \/ \E c \in {"listed", "custom"} :
                  ChangeServer("amount", [inputs EXCEPT !.currency = c])
             \/ inputs.currency = "custom" /\ ChangeServer("amount", [inputs EXCEPT !.code = ~@])
       \/ \E g \in Group : ChangeServer("groups", [inputs EXCEPT !.groups = Flip(@, g)])

\* readServerExpireDate, readServerAmount
ServerAccepted ==
    /\ inputs.mode = "date" => inputs.date
    /\ inputs.fee = "paid" /\ inputs.amount = "number" /\ inputs.currency = "custom" => inputs.code

AmountRead ==
    CASE inputs.fee = "free" -> "free"
      [] inputs.fee = "paid" /\ inputs.amount = "none" -> "none"
      [] OTHER -> inputs.currency

\* applyServerEditor
ConfirmServer ==
    /\ Confirming("server") /\ ServerAccepted
    /\ Confirmed([end |-> inputs.mode, auto |-> inputs.mode = "date" /\ inputs.auto,
                  cycle |-> inputs.mode = "date" /\ inputs.cycle, amount |-> AmountRead,
                  groups |-> inputs.groups])

\* openServerGroupEditor, applyServerGroupEditor
OpenGroup(members, nodes) ==
    /\ listed' = nodes
    /\ Open(Plain("group"), [servers |-> members],
            [servers |-> members \cap nodes], {})

ConfirmGroup == Confirming("group") /\ Confirmed([servers |-> inputs.servers])

----------------------------------------------------------------------------
(* Commands.                                                               *)

\* openServerAccessCommandEditor, for a new server or from a server's row.
OpenCommand(row) ==
    /\ UNCHANGED listed
    /\ Open(Plain("command"), NoEntry, [row |-> row], {})

\* renderTables: the row the command was opened from is no longer on the page.
RowsDrawnAgain ==
    /\ window.open /\ editor.type = "command" /\ inputs.row = "there"
    /\ inputs' = [row |-> "gone"]
    /\ UNCHANGED <<config, item, editor, window, asking, dialogHistory>>

\* applyAccessCommandEditor, up to its request.
ConfirmCommand ==
    /\ Confirming("command") /\ inputs.row # "gone" /\ asking < MaxAsking
    /\ window' = [window EXCEPT !.enabled = FALSE]
    /\ asking' = asking + 1
    /\ UNCHANGED <<config, item, editor, inputs, dialogHistory>>

\* The answer closes the dialog, whichever editor is open by then.
CommandCopied ==
    /\ asking > 0 /\ asking' = asking - 1
    /\ Close
    /\ item' = NoEntry
    /\ UNCHANGED config

CommandFails ==
    /\ asking > 0 /\ asking' = asking - 1
    /\ window' = [window EXCEPT !.enabled = @ \/ editor.type = "command"]
    /\ UNCHANGED <<config, item, editor, inputs, dialogHistory>>

----------------------------------------------------------------------------
DialogInit ==
    /\ config \in SUBSET Method
    /\ item = NoEntry /\ editor = NoEditor /\ inputs = NoInputs
    /\ window = [open |-> FALSE, enabled |-> TRUE]
    /\ asking = 0
    /\ listed = {} /\ chosen = {} /\ touched = {} /\ edits = 0

\* The dialog is modal: nothing opens another editor while one is open.
Opens ==
    /\ ~window.open /\ item = NoEntry
    /\ \/ \E r \in Rule, nodes \in SUBSET Node : OpenRule(r, nodes)
       \/ \E nodes \in SUBSET Node :
            OpenNewRule(nodes) \/ \E members \in SUBSET Node : OpenGroup(members, nodes)
       \/ \E s \in {s \in Server : s.groups \in Grouping}, default \in SUBSET Group :
            Cardinality(default) <= 1 /\ OpenServer(s, default)
       \/ \E row \in {"none", "there"} : OpenCommand(row)

DialogNext ==
    \/ Opens
    \/ \E m \in Method : ClickMethod(m)
    \/ \E metric \in {"offline", "cpu", "load"} : ChooseMetric(metric)
    \/ \E value \in {"none", "low", "high"} : TypeThreshold(value)
    \/ \E n \in Node : ClickNode(n)
    \/ EditServerForm
    \/ ConfirmRule \/ ConfirmServer \/ ConfirmGroup \/ ConfirmCommand
    \/ Cancel \/ Escape \/ Settled
    \/ CommandCopied \/ CommandFails \/ RowsDrawnAgain
    \/ \E methods \in SUBSET Method : ChannelsChange(methods)

DialogSpec == DialogInit /\ [][DialogNext]_dialogVars

----------------------------------------------------------------------------
\* Types of the variables; a rule's choice is only empty when it means all, or
\* when the user has just emptied it.
DialogTypeOK ==
    /\ config \subseteq Method /\ chosen \subseteq Method /\ listed \subseteq Node
    /\ item \in Rule \cup Server \cup [servers : SUBSET Node] \cup {NoEntry}
           \cup [methods : SUBSET Method, servers : {{}}, metric : {"offline"}, threshold : {"low"}]
    /\ editor \in [type : {"none", "rule", "server", "group", "command"},
                   mode : {"none", "all", "explicit"}, values : SUBSET Method]
    /\ window.open /\ editor.mode = "explicit" /\ editor.values = {} => "methods" \in touched
    /\ window.open /\ editor.type = "rule" => inputs.shown = config
    /\ window \in [open : BOOLEAN, enabled : BOOLEAN]
    /\ asking \in 0..MaxAsking /\ edits \in 0..MaxEdits
    /\ touched \subseteq {"methods", "metric", "threshold", "servers", "end", "auto", "cycle",
                          "amount", "groups"}

\* A confirmed rule alerts through exactly the channels whose boxes were ticked,
\* and through a channel that is not configured as before, or as last clicked -
\* whatever channels came and went while the editor was open.  (A rule for every
\* channel stops being one with the first click: it then forgets the others.)
DeliversAsTicked ==
    [][ConfirmRule =>
         /\ \A m \in inputs.shown : Allowed(item'.methods, m) <=> m \in inputs.boxes
         /\ item.methods # {} =>
              \A m \in Method : Allowed(item'.methods, m) <=> m \in chosen]_dialogVars

\* What the user did not touch is confirmed as it was, though other inputs clear
\* and restore it: a threshold while the type goes to offline and back, a cycle
\* while the server is made permanent and back.  Promised of what the editor can
\* show: servers it lists, groups whose name no other has, amounts and dates it
\* reads.
UntouchedKeeps ==
    [][/\ ConfirmRule =>
            /\ "methods" \notin touched => item'.methods = item.methods
            /\ "threshold" \notin touched /\ item.metric \in {item'.metric} \ {"offline"} =>
                   item'.threshold = item.threshold
       /\ ConfirmRule \/ ConfirmGroup =>
            ("servers" \notin touched /\ item.servers \subseteq listed =>
                 item'.servers = item.servers)
       /\ ConfirmServer =>
            /\ "end" \notin touched => item'.end = item.end
            /\ {"end", "auto"} \cap touched = {} /\ item.end = "date" => item'.auto = item.auto
            /\ "cycle" \notin touched /\ item.end = "date" /\ item'.end = "date" =>
                   item'.cycle = item.cycle
            /\ "amount" \notin touched /\ item.amount \notin {"bare", "odd"} =>
                   item'.amount = item.amount
            /\ "groups" \notin touched /\ item.groups # {} =>
                   \A g \in Group : (\A o \in Group \ {g} : Label[o] # Label[g]) =>
                       (g \in item'.groups <=> g \in item.groups)]_dialogVars

\* An open editor can be confirmed, unless a command is being fetched: the button
\* that one command disabled does not stay so for the next editor.
ConfirmAvailable == window.open /\ ~window.enabled => asking > 0
=============================================================================
