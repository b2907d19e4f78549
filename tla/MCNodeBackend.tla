------------------------- MODULE MCNodeBackend ---------------------------
(* Three model nodes: a goal gate on a declared thread, a full node whose   *)
(* thread is that of the node before it, and a compact node with a schema.  *)
EXTENDS NodeBackend

CONSTANTS gate, full, plain, thread

MCAttributes ==
    gate  :> [full |-> TRUE,  thread |-> thread,   gate |-> TRUE,  schema |-> FALSE] @@
    full  :> [full |-> TRUE,  thread |-> NoThread, gate |-> FALSE, schema |-> FALSE] @@
    plain :> [full |-> FALSE, thread |-> NoThread, gate |-> TRUE,  schema |-> TRUE]

Text(form, status, nested) == [form |-> form, status |-> status, nested |-> nested]
Texts == {Text("empty", "none", FALSE), Text("prose", "none", FALSE), Text("json", "success", FALSE),
          Text("embedded", "fail", FALSE), Text("embedded", "fail", TRUE)}
MCModelAnswers ==
    {[failed |-> FALSE, reports |-> r, text |-> t, ended |-> "success"] :
        r \in {<<>>, <<"fail">>, <<"success", "bogus">>}, t \in Texts}
    \cup {[failed |-> FALSE, reports |-> <<>>, text |-> Text("empty", "none", FALSE), ended |-> "incomplete"],
          [failed |-> TRUE, reports |-> <<>>, text |-> Text("empty", "none", FALSE), ended |-> "incomplete"]}

MCGateChoices == <<[label |-> "Approve", key |-> "Y"], [label |-> "Reject", key |-> "Reject"]>>
=============================================================================
