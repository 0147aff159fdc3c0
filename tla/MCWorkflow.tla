---------------------------- MODULE MCWorkflow ----------------------------
(* Workflow with three small graphs: branches that meet again, a decision   *)
(* and a way back to the beginning.                                        *)
EXTENDS Workflow, TLC

CONSTANTS ns, nd, na, nb

PlaceSet == {ns, nd, na, nb}

Kinds(k) == [p \in PlaceSet |-> CASE p = ns -> "Start" [] p = nd -> k [] OTHER -> "Action"]
Meeting(p1, c1, c2) == [p \in PlaceSet |-> IF p = ns THEN c1 ELSE IF p = p1 THEN c2 ELSE {}]

\* s to d and b; d to a if the record is "hot", else to b; b back to d.
Deciding == [event |-> "update_records", kind |-> Kinds("Decision"),
             when |-> Meeting(nd, {"hot", "cold"}, {"hot"}),
             edges |-> {<<ns, "plain", nd>>, <<ns, "plain", nb>>, <<nd, "plain", na>>, <<nd, "no", nb>>, <<nb, "plain", nd>>}]

\* Two ways to b, for hot records only.
Diamond == [event |-> "update_records", kind |-> Kinds("Action"),
            when |-> Meeting(nd, {"hot"}, {}),
            edges |-> {<<ns, "plain", na>>, <<ns, "plain", nd>>, <<na, "plain", nb>>, <<nd, "plain", nb>>}]

\* A short one for new records.
Short == [event |-> "create_records",
          kind |-> [p \in PlaceSet |-> CASE p = ns -> "Start" [] p = na -> "Action" [] OTHER -> "unused"],
          when |-> Meeting(nd, {"hot", "cold"}, {}), edges |-> {<<ns, "plain", na>>}]

Designs == {Deciding, Diamond, Short}
===========================================================================
