--------------------------- MODULE MCWorkflowDraft ---------------------------
EXTENDS WorkflowDraft
Two == [nodes |-> [n \in Nodes |-> IF n = "c" THEN Nothing ELSE Default], edges |-> {<<"a", "b">>}]
One == [Two EXCEPT !.nodes["b"] = Nothing, !.edges = {}]
NoneOrTwo == {<<>>, <<One, Two>>}
Add(n) == [op |-> "add_node", id |-> n]
Update(n) == [op |-> "update_node", id |-> n, text |-> 1]
Take(n) == [op |-> "delete_node", id |-> n]
Join(s, t) == [op |-> "add_edge", edge |-> <<s, t>>]
Cut(s, t) == [op |-> "delete_edge", edge |-> <<s, t>>]
SomePlans == {<<Add("c"), Join("b", "c"), Update("b")>>, <<Join("b", "a")>>,
              <<Cut("a", "b"), Take("a")>>, <<Take("b"), Join("a", "b")>>}
=============================================================================
