---------------------------- MODULE MCConditions ----------------------------
(***************************************************************************)
(* One user condition type besides ControlError; two user restart names,   *)
(* one of which is also the name of a protocol's restart; a `with          *)
(* handlers` of user code and a resignal, each clause matching, and one of *)
(* user code alone; a call stack deep enough for handlers, a cerror, its   *)
(* handler, and one more construct.                                        *)
(***************************************************************************)
EXTENDS Conditions

NoMapping == [c \in Conds |-> <<>>]
OnC == [types |-> {"C"}, resignals |-> FALSE, mapping |-> NoMapping]
OnAny == [types |-> Conds, resignals |-> FALSE, mapping |-> NoMapping]
Convert == [types |-> Conds, resignals |-> TRUE,
            mapping |-> [NoMapping EXCEPT !["C"] = <<ControlError>>]]
MCRestartSets == {{"r", "proceed"}}
MCClauseLists == {<<OnC, Convert>>, <<OnAny>>}
==============================================================================
