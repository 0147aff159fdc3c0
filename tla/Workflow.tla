------------------------------ MODULE Workflow ------------------------------
(***************************************************************************)
(* Workflows: graphs of nodes an administrator saves                       *)
(* (api/ORM/setup/workflows/create_workflow.py, update_workflow.py), run   *)
(* when records are created, updated or deleted                            *)
(* (api/workflows/workflow_executor.py, called by permissions.py).  A run  *)
(* reads the graph piece by piece, so that a workflow may be saved anew or *)
(* deleted in the middle of it.  A version is what one saving has stored;  *)
(* the row of a node is known by its version and its place in the graph.   *)
(***************************************************************************)
EXTENDS Naturals, Sequences, FiniteSets

CONSTANTS
  Request,     \* requests that change records
  WorkflowId,
  Place,       \* places of nodes in a graph
  Snapshot,    \* what a condition can tell of a record
  Design,      \* graphs that may be saved
  MaxRecords,  \* bound: records of a request
  MaxSaves,    \* bound: savings
  MaxDepth,    \* max_depth, 200 in the code
  OrmPath,     \* USE_ORM_FOR_BL is set
  NoNode, NoWorkflow

Event == {"create_records", "update_records", "delete_records"}
Handle == {"plain", "no"}   \* source_handle: NULL or 'no'

ASSUME WorkflowAssumption ==
  /\ MaxRecords \in Nat /\ MaxSaves \in Nat /\ MaxDepth \in Nat /\ OrmPath \in BOOLEAN
  /\ NoWorkflow \notin WorkflowId
  /\ NoNode \notin Nat \X Place
  /\ \A d \in Design :
       /\ d.event \in Event   \* trigger_type and module_name of the header
       /\ d.kind \in [Place -> {"Start", "Action", "Decision", "unused"}]
       /\ d.when \in [Place -> SUBSET Snapshot]   \* the snapshots that meet the conditions
       /\ d.edges \subseteq Place \X Handle \X Place
       /\ \A e \in d.edges : "unused" \notin {d.kind[e[1]], d.kind[e[3]]}

VARIABLES
  current,   \* version of each workflow now stored, 0 if there is none
  saved,     \* the designs ever stored, by version
  run

vars == <<current, saved, run>>

-----------------------------------------------------------------------------
Node == (1..MaxSaves) \X Place

DesignOf(n) == saved[n[1]]
KindOf(n)   == DesignOf(n).kind[n[2]]
Exists(n)   == \E w \in WorkflowId : current[w] = n[1]
Meets(obj, n) == obj \in DesignOf(n).when[n[2]]

\* Faulty: edges found by the place of their source in the graph now stored.
TargetsNow(n, handles) ==
  UNION {{<<current[w], e[3]>> : e \in {f \in saved[current[w]].edges : f[1] = n[2] /\ f[2] \in handles}} :
           w \in {v \in WorkflowId : current[v] # 0}}

\* _fetch_edges and _fetch_edge_by_handle: the targets of a node's edges.
Targets(n, handles) ==
  IF Exists(n)
  THEN {<<n[1], e[3]>> : e \in {f \in DesignOf(n).edges : f[1] = n[2] /\ f[2] \in handles}}
  ELSE {}

\* The handle a decision leaves by.
Branch(obj, n) == IF Meets(obj, n) THEN {"plain"} ELSE {"no"}

Obj(r) == Head(run[r].queue)
Path(r) == run[r].stack

\* Where a run starts.
StartNodes(w) == {p \in Place : current[w] # 0 /\ saved[current[w]].kind[p] = "Start"}

Idle == [pc |-> "idle", event |-> "create_records", queue |-> <<>>, todo |-> {}, workflow |-> NoWorkflow,
         next |-> NoNode, stack |-> <<>>, visited |-> {}, acted |-> <<>>]

Init ==
  /\ current = [w \in WorkflowId |-> 0]
  /\ saved = <<>>
  /\ run = [r \in Request |-> Idle]

-----------------------------------------------------------------------------
\* create_workflow and update_workflow: one transaction replaces header, nodes
\* and edges; every node gets a new id.
Save(w, d) ==
  /\ Len(saved) < MaxSaves
  /\ saved' = Append(saved, d)
  /\ current' = [current EXCEPT ![w] = Len(saved) + 1]
  /\ UNCHANGED run

\* delete_permission on the table workflow; nodes and edges go by cascade.
Remove(w) ==
  /\ current[w] # 0
  /\ current' = [current EXCEPT ![w] = 0]
  /\ UNCHANGED <<saved, run>>

\* The calls of execute_workflows: for every updated record, but only for the
\* first one created or deleted.
Trigger(r) ==
  /\ run[r].pc = "idle"
  /\ \E event \in Event, n \in 1..MaxRecords : \E objs \in [1..n -> Snapshot] :
       /\ event # "update_records" => n = 1
       /\ run' = [run EXCEPT ![r] = [Idle EXCEPT !.pc = "list", !.event = event, !.queue = objs]]
  /\ UNCHANGED <<current, saved>>

ListWorkflows(r) ==
  /\ run[r].pc = "list"
  /\ run' = [run EXCEPT ![r].pc = "pick",
                        ![r].todo = {w \in WorkflowId : current[w] # 0 /\ saved[current[w]].event = run[r].event}]
  /\ UNCHANGED <<current, saved>>

\* The Start node is read and its conditions are tried.  With the ORM its data
\* comes decoded, json.loads refuses it and the workflow is skipped.
Skips(r, w) ==
  \/ StartNodes(w) = {}
  \/ OrmPath
  \/ \E p \in StartNodes(w) : ~Meets(Obj(r), <<current[w], p>>)

PickWorkflow(r, w) ==
  /\ run[r].pc = "pick" /\ w \in run[r].todo
  /\ \/ /\ Skips(r, w)
        /\ run' = [run EXCEPT ![r].todo = @ \ {w}]
     \/ /\ ~OrmPath
        /\ \E p \in StartNodes(w) :
             /\ Meets(Obj(r), <<current[w], p>>)
             /\ run' = [run EXCEPT ![r] = [run[r] EXCEPT !.pc = "visit", !.todo = @ \ {w}, !.workflow = w,
                                             !.next = <<current[w], p>>, !.visited = {}, !.acted = <<>>]]
  /\ UNCHANGED <<current, saved>>

\* No more workflows for this record: go on to the next one.
NextRecord(r) ==
  /\ run[r].pc = "pick" /\ run[r].todo = {}
  /\ run' = [run EXCEPT ![r] = [run[r] EXCEPT !.queue = Tail(@), !.workflow = NoWorkflow,
                                  !.visited = {}, !.acted = <<>>,
                                  !.pc = IF Len(run[r].queue) > 1 THEN "list" ELSE "done"]]
  /\ UNCHANGED <<current, saved>>

\* An exception ends all that was left to run; the request itself goes on.
Abandoned(s) == [s EXCEPT !.pc = "done", !.todo = {}, !.next = NoNode, !.stack = <<>>]

\* Faulty: the path is left as it was.
DeferredOnPath(s) == [s EXCEPT !.pc = "pick", !.todo = {}, !.next = NoNode]

\* Faulty: the record is tried again at once.
DeferredRetrying(s) == [s EXCEPT !.pc = "list", !.next = NoNode, !.stack = <<>>]

\* A mail account must be authorised first: execute_workflows returns at once
\* and the loop over the records goes on.
Deferred(s) == [s EXCEPT !.pc = "pick", !.todo = {}, !.next = NoNode, !.stack = <<>>]

\* The head of traverse_node, and execute_action at an Action node.
Visit(r) ==
  LET n == run[r].next
      s == [run[r] EXCEPT !.visited = @ \cup {n}, !.pc = "edges"] IN
  /\ run[r].pc = "visit"
  /\ \E s1 \in
       IF Len(Path(r)) > MaxDepth THEN {Abandoned(run[r])}
       ELSE IF n \in run[r].visited THEN {[run[r] EXCEPT !.pc = "next", !.next = NoNode]}
       ELSE IF KindOf(n) = "Action"
            THEN LET acted == [s EXCEPT !.acted = Append(@, n)] IN {acted, Abandoned(acted), Deferred(acted)}
            ELSE {s} :
       run' = [run EXCEPT ![r] = s1]
  /\ UNCHANGED <<current, saved>>

\* A decision follows one edge of its branch, the other nodes follow all.
FetchEdges(r) ==
  LET n == run[r].next
      found == IF KindOf(n) = "Decision" THEN Targets(n, Branch(Obj(r), n)) ELSE Targets(n, Handle) IN
  /\ run[r].pc = "edges"
  /\ \E to \in IF KindOf(n) = "Decision" /\ found # {} THEN {{t} : t \in found} ELSE {found} :
       run' = [run EXCEPT ![r] = [run[r] EXCEPT !.pc = "next", !.next = NoNode,
                                    !.stack = Append(@, [node |-> n, to |-> to])]]
  /\ UNCHANGED <<current, saved>>

Top(r) == Path(r)[Len(Path(r))]

\* The path with these targets left at its end.
With(st, to) == [st EXCEPT ![Len(st)] = [node |-> st[Len(st)].node, to |-> to]]

\* Faulty: the first edge followed is the last.
FollowOne(r, t) ==
  /\ run[r].pc = "next" /\ Path(r) # <<>> /\ t \in Top(r).to
  /\ LET s == [run[r] EXCEPT !.stack = With(@, {})] IN
     run' = [run EXCEPT ![r] = IF Exists(t) THEN [s EXCEPT !.pc = "visit", !.next = t] ELSE s]
  /\ UNCHANGED <<current, saved>>

\* _fetch_node for one of the edges left; a missing target is passed over.
Follow(r, t) ==
  /\ run[r].pc = "next" /\ Path(r) # <<>> /\ t \in Top(r).to
  /\ LET s == [run[r] EXCEPT !.stack = With(@, Top(r).to \ {t})] IN
     run' = [run EXCEPT ![r] = IF Exists(t) THEN [s EXCEPT !.pc = "visit", !.next = t] ELSE s]
  /\ UNCHANGED <<current, saved>>

Pop(s) == SubSeq(s, 1, Len(s) - 1)

\* Faulty: a node is forgotten once its branch is done (BUG-05).
ReturnAndForget(r) ==
  /\ run[r].pc = "next" /\ Path(r) # <<>> /\ Top(r).to = {}
  /\ run' = [run EXCEPT ![r] = [run[r] EXCEPT !.stack = Pop(@), !.visited = @ \ {Top(r).node},
                                  !.pc = IF Len(Path(r)) = 1 THEN "pick" ELSE "next"]]
  /\ UNCHANGED <<current, saved>>

\* traverse_node returns; at the Start node the workflow is finished.
Return(r) ==
  /\ run[r].pc = "next" /\ Path(r) # <<>> /\ Top(r).to = {}
  /\ run' = [run EXCEPT ![r] = [run[r] EXCEPT !.stack = Pop(@), !.pc = IF Len(Path(r)) = 1 THEN "pick" ELSE "next"]]
  /\ UNCHANGED <<current, saved>>

Execute(r) ==
  \/ ListWorkflows(r) \/ NextRecord(r) \/ Visit(r) \/ FetchEdges(r) \/ Return(r)
  \/ \E w \in WorkflowId : PickWorkflow(r, w)
  \/ \E t \in Node : Follow(r, t)

Next ==
  \/ \E w \in WorkflowId, d \in Design : Save(w, d)
  \/ \E w \in WorkflowId : Remove(w)
  \/ \E r \in Request : Trigger(r) \/ Execute(r)

\* A worker goes on with its request.
Fairness == \A r \in Request : WF_vars(Execute(r))

Spec == Init /\ [][Next]_vars /\ Fairness

-----------------------------------------------------------------------------
\* Types, and: the path, the nodes seen and the actions done belong together.
RunType(s) ==
  /\ s.pc \in {"idle", "list", "pick", "visit", "edges", "next", "done"}
  /\ s.event \in Event /\ s.queue \in Seq(Snapshot) /\ s.todo \subseteq WorkflowId
  /\ s.workflow \in WorkflowId \cup {NoWorkflow}
  /\ s.next \in Node \cup {NoNode} /\ s.visited \subseteq Node
  /\ s.stack \in Seq([node : Node, to : SUBSET Node]) /\ s.acted \in Seq(Node)

\* Every variable has its type; a run is at a node exactly when it visits one.
TypeOK ==
  /\ current \in [WorkflowId -> 0..Len(saved)]
  /\ saved \in Seq(Design) /\ Len(saved) <= MaxSaves
  /\ DOMAIN run = Request
  /\ \A r \in Request :
       /\ RunType(run[r])
       /\ run[r].pc \in {"visit", "edges"} <=> run[r].next # NoNode
       /\ run[r].pc \in {"list", "pick", "visit", "edges", "next"} => run[r].queue # <<>>
       /\ run[r].pc \notin {"visit", "edges", "next"} => run[r].stack = <<>>

\* BUG-05 of workflow_executor.py: however branches of a graph meet again or
\* turn back, a workflow does each of its actions at most once for a record.
NoActionTwice ==
  \A r \in Request : \A i, j \in DOMAIN run[r].acted :
    run[r].acted[i] = run[r].acted[j] => i = j

\* An edge leads from a visited node to n that the record may take.
Justified(s, n) ==
  \E m \in s.visited : \E e \in DesignOf(m).edges :
    /\ <<m[1], e[1]>> = m /\ <<m[1], e[3]>> = n
    /\ KindOf(m) = "Decision" => e[2] = (IF Head(s.queue) \in DesignOf(m).when[m[2]] THEN "plain" ELSE "no")

\* A run never mixes two savings of a workflow, though it reads node by node.
\* And it does only what the decisions allow: each node it visits, but for the
\* start, is the target of an edge of a visited node, which for a decision
\* carries the handle the record calls for.
RunsOneDesign ==
  \A r \in Request :
    /\ \A m, n \in run[r].visited : m[1] = n[1]
    /\ \A n \in run[r].visited : KindOf(n) = "Start" \/ Justified(run[r], n)

\* What the run has visited is closed under the edges the record may take.
Complete(s) ==
  \A m \in s.visited :
    LET out == {e \in DesignOf(m).edges : e[1] = m[2]}
        yes == Head(s.queue) \in DesignOf(m).when[m[2]]
        due == IF KindOf(m) = "Decision" THEN {e \in out : e[2] = (IF yes THEN "plain" ELSE "no")} ELSE out
    IN IF KindOf(m) = "Decision"
       THEN due = {} \/ \E e \in due : <<m[1], e[3]>> \in s.visited
       ELSE \A e \in due : <<m[1], e[3]>> \in s.visited

EndOfRun(r) == run[r].pc = "next" /\ run'[r].pc = "pick"

\* When a workflow has run to its end for a record, and has neither been saved
\* anew nor deleted since its start was read, no node it should have reached is
\* left out, however its branches meet (traverse_node and its set of visited nodes).
UndisturbedRunsAreComplete ==
  [][\A r \in Request :
       EndOfRun(r) => \/ \E n \in run[r].visited : current[run[r].workflow] # n[1]
                      \/ Complete(run[r])]_vars

\* Cycles in a graph never keep a request from being answered.
EveryRequestIsAnswered == \A r \in Request : run[r].pc = "list" ~> run[r].pc = "done"
=============================================================================
