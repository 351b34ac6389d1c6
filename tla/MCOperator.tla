----------------------------- MODULE MCOperator -----------------------------
(* The two tables operators decide with.  They share nothing, so that a    *)
(* behaviour uses one of them, whichever it touches first.                 *)
(*                                                                         *)
(* Of the policy editor: two built-in rules and one of an operator's; a    *)
(* low order and an order that another rule may have.  Of the inbox: two   *)
(* requests, and three calls, two at the gateway and one from the CLI.     *)
EXTENDS PolicyEditor, Approvals

CONSTANTS builtin1, builtin2, custom, b1, b2

MCIds == {builtin1, builtin2, custom}
MCBodies == {b1, b2}
MCDefaultRules ==
  <<[id |-> builtin1, body |-> b1], [id |-> builtin2, body |-> b1]>>
MCOrders == {5}

(* A bundle with an id twice, and one that orders its rules itself.        *)
MCBundles ==
  {<<Row(custom, b1, NoOrder), Row(builtin1, b1, NoOrder), Row(custom, b2, NoOrder)>>,
   <<Row(builtin2, b2, 100), Row(builtin1, b2, 5), Row(custom, b2, 100)>>}

OperatorInit == Init /\ InboxInit
OperatorNext ==
  \/ InboxInit /\ Next /\ UNCHANGED inboxVars
  \/ Init /\ InboxNext /\ UNCHANGED vars
OperatorSpec == OperatorInit /\ [][OperatorNext]_<<vars, inboxVars>>
=============================================================================
