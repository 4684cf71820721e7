---------------------------- MODULE MCAdminForms ----------------------------
(* The inputs of the admin page, that nothing but their own code relates: a  *)
(* behaviour is one of a channel's form or one of the dialog, chosen at its  *)
(* start, and the other stays as it is.                                      *)
(*                                                                           *)
(* ChannelForm with two secrets to tell a typed one from the file's, and two *)
(* texts: Bark's default and one that is not.  EditorDialog with two         *)
(* channels, one server and three groups, two of them of one name; the       *)
(* edited server is in none, in one of those two, or in the other of them    *)
(* and in the third.                                                         *)
EXTENDS ChannelForm, EditorDialog, TLC

VARIABLE part       \* "form" or "dialog"

formsVars == <<formVars, dialogVars, part>>

\* The one that stays as it is starts in one state only.
FormsInit ==
    /\ FormInit /\ DialogInit
    /\ \/ part = "form" /\ config = {}
       \/ part = "dialog" /\ traits = {"required"} /\ {base.text, base.secret} = {Blank}

FormsNext ==
    \/ part = "form" /\ FormNext /\ UNCHANGED <<dialogVars, part>>
    \/ part = "dialog" /\ DialogNext /\ UNCHANGED <<formVars, part>>

FormsSpec == FormsInit /\ [][FormsNext]_formsVars

\* Types of the variables of both: a masked field is the mask of a configured
\* secret, and an open rule shows the channels there are.
FormsTypeOK == FormTypeOK /\ DialogTypeOK

\* A corporation's id of WeChat, the server of Email, the server of Bark.
TraitsDef == {{"required"}, {"required", "destination"},
              {"required", "destination", "default"}}

LabelDef == [g1 |-> "n1", g2 |-> "n1", g3 |-> "n2"]
GroupingDef == {{}, {"g1"}, {"g2", "g3"}}

Symmetry == Permutations(Secret)
=============================================================================
