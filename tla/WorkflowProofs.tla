--------------------------- MODULE WorkflowProofs ---------------------------
(* Theorems about Workflow, for any graphs, requests and savings.          *)
EXTENDS Workflow, TLAPS

Frame == [node : Node, to : SUBSET Node]

RunRecord == [pc : {"idle", "list", "pick", "visit", "edges", "next", "done"}, event : Event,
              queue : Seq(Snapshot), todo : SUBSET WorkflowId, workflow : WorkflowId \cup {NoWorkflow},
              next : Node \cup {NoNode}, stack : Seq(Frame), visited : SUBSET Node, acted : Seq(Node)]

\* Versions are numbered in the order of the savings.
StoreOK ==
  /\ saved \in Seq(Design) /\ Len(saved) <= MaxSaves
  /\ current \in [WorkflowId -> 0..Len(saved)]

\* An edge of m leads to n, and a record at the head of q may take it.
Edge(q, m, n) ==
  \E e \in DesignOf(m).edges :
    /\ <<m[1], e[1]>> = m /\ <<m[1], e[3]>> = n
    /\ KindOf(m) = "Decision" => e[2] = (IF Head(q) \in DesignOf(m).when[m[2]] THEN "plain" ELSE "no")

Entitled(s, n) == KindOf(n) = "Start" \/ \E m \in s.visited : Edge(s.queue, m, n)

\* Where a run is: at a node only when it visits one, on a path only then and between.
Placed(s) ==
  /\ s.pc \in {"visit", "edges"} <=> s.next # NoNode
  /\ s.pc \in {"list", "pick", "visit", "edges", "next"} => s.queue # <<>>
  /\ s.pc \notin {"visit", "edges", "next"} => s.stack = <<>>
  /\ s.pc = "edges" => s.next \in s.visited

\* What has been visited is of one saving, and so is what is visited next.
OneSaving(s) ==
  /\ \A m \in s.visited : m[1] <= Len(saved)
  /\ \A m, n \in s.visited : m[1] = n[1]
  /\ s.pc = "visit" => s.next[1] <= Len(saved) /\ \A m \in s.visited : m[1] = s.next[1]

\* The path goes along edges the record may take.
AlongEdges(s) ==
  /\ \A n \in s.visited : Entitled(s, n)
  /\ s.pc = "visit" => Entitled(s, s.next)
  /\ \A i \in DOMAIN s.stack : s.stack[i].node \in s.visited
                               /\ \A t \in s.stack[i].to : Edge(s.queue, s.stack[i].node, t)

\* The actions done are of visited nodes, each once.
ActedOnce(s) ==
  /\ \A i \in DOMAIN s.acted : s.acted[i] \in s.visited
  /\ \A i, j \in DOMAIN s.acted : s.acted[i] = s.acted[j] => i = j

RunInv(s) == Placed(s) /\ OneSaving(s) /\ AlongEdges(s) /\ ActedOnce(s)

\* NoActionTwice and RunsOneDesign say nothing of the path still to be gone.
IInv == StoreOK /\ run \in [Request -> RunRecord] /\ \A r \in Request : RunInv(run[r])

-----------------------------------------------------------------------------
\* What the inductive invariant amounts to.
LEMMA InvSuffices == IInv => TypeOK /\ NoActionTwice /\ RunsOneDesign
<1> SUFFICES ASSUME IInv PROVE TypeOK /\ NoActionTwice /\ RunsOneDesign
  OBVIOUS
<1>1. \A r \in Request : RunType(run[r])
  BY DEF IInv, RunType, RunRecord, Frame
<1>2. TypeOK
  BY <1>1 DEF IInv, TypeOK, StoreOK, RunInv, Placed
<1>3. NoActionTwice
  BY DEF IInv, NoActionTwice, RunInv, ActedOnce
<1>4. ASSUME NEW r \in Request, NEW n \in run[r].visited PROVE KindOf(n) = "Start" \/ Justified(run[r], n)
  BY DEF IInv, RunInv, AlongEdges, Entitled, Edge, Justified
<1>5. RunsOneDesign
  BY <1>4 DEF IInv, RunsOneDesign, RunInv, OneSaving
<1> QED
  BY <1>2, <1>3, <1>5

\* A run that is about to begin has nothing behind it.
LEMMA FreshRun ==
  ASSUME NEW s \in RunRecord, s.visited = {}, s.acted = <<>>, s.stack = <<>>, s.pc \in {"idle", "list", "pick", "done"},
         s.next = NoNode, s.pc \in {"list", "pick"} => s.queue # <<>>
  PROVE  RunInv(s)
BY DEF RunInv, Placed, OneSaving, AlongEdges, ActedOnce

\* At first nothing is stored and nothing runs.
LEMMA InvInit == Init => IInv
<1> SUFFICES ASSUME Init PROVE IInv
  OBVIOUS
<1>1. Idle \in RunRecord
  BY DEF Idle, RunRecord, Event
<1>2. RunInv(Idle)
  BY <1>1, FreshRun DEF Idle
<1>3. StoreOK
  BY WorkflowAssumption DEF Init, StoreOK
<1> QED
  BY <1>1, <1>2, <1>3 DEF Init, IInv

\* A step of one request gives only its own run another state.
LEMMA OneRun ==
  ASSUME IInv, NEW r \in Request, NEW s, run' = [run EXCEPT ![r] = s], UNCHANGED <<current, saved>>,
         s \in RunRecord, RunInv(s)
  PROVE  IInv'
<1>1. \A q \in Request : run'[q] = IF q = r THEN s ELSE run[q]
  BY DEF IInv
<1>2. \A q \in Request : RunInv(run'[q])
  BY <1>1 DEF IInv
<1>3. \A m : DesignOf(m)' = DesignOf(m) /\ KindOf(m)' = KindOf(m)
  BY DEF DesignOf, KindOf
<1>4. ASSUME NEW q \in Request PROVE RunInv(run[q])'
  <2>1. Placed(run[q])' /\ OneSaving(run[q])' /\ ActedOnce(run[q])'
    BY <1>2 DEF RunInv, Placed, OneSaving, ActedOnce
  <2>2. AlongEdges(run'[q])
    BY <1>2 DEF RunInv
  <2>3. \A m, n : Edge(run[q].queue, m, n)' = Edge(run'[q].queue, m, n)
    BY <1>3 DEF Edge
  <2>4. AlongEdges(run[q])'
    BY <2>2, <2>3, <1>3 DEF AlongEdges, Entitled
  <2> QED
    BY <2>1, <2>4 DEF RunInv
<1>5. run' \in [Request -> RunRecord]
  BY DEF IInv
<1> QED
  BY <1>4, <1>5 DEF IInv, StoreOK

\* A saving adds a version and leaves the others as they are.
LEMMA SaveKeeps == ASSUME IInv, NEW w \in WorkflowId, NEW d \in Design, Save(w, d) PROVE IInv'
<1>2. /\ Len(saved') = Len(saved) + 1 /\ \A k \in 1..Len(saved) : saved'[k] = saved[k]
      /\ saved' \in Seq(Design) /\ Len(saved) \in Nat
  BY DEF IInv, StoreOK, Save
<1>1. StoreOK'
  <2> DEFINE k == Len(saved)
  <2>1. k \in Nat /\ Len(saved') = k + 1 /\ k + 1 \in 0..(k + 1) /\ 0..k \subseteq 0..(k + 1) /\ k < MaxSaves
    BY <1>2 DEF Save
  <2>2. current' = [current EXCEPT ![w] = k + 1] /\ current \in [WorkflowId -> 0..k]
    BY DEF Save, IInv, StoreOK
  <2> HIDE DEF k
  <2>3. current' \in [WorkflowId -> 0..(k + 1)]
    BY <2>1, <2>2
  <2>4. k + 1 <= MaxSaves
    BY <2>1, WorkflowAssumption
  <2> QED
    BY <1>2, <2>1, <2>3, <2>4 DEF StoreOK
<1>3. ASSUME NEW r \in Request PROVE RunInv(run[r])'
  <2> DEFINE s == run[r]
  <2>1. s \in RunRecord /\ UNCHANGED run /\ RunInv(s)
    BY DEF IInv, Save
  <2>2. \A n \in Node : n[1] \in 1..MaxSaves
    BY DEF Node
  <2>3. \A n \in Node : n[1] <= Len(saved) => DesignOf(n)' = DesignOf(n) /\ KindOf(n)' = KindOf(n)
    BY <1>2, <2>2, WorkflowAssumption DEF DesignOf, KindOf, IInv, StoreOK
  <2>4. ASSUME NEW q, NEW m \in Node, m[1] <= Len(saved), NEW n PROVE Edge(q, m, n)' <=> Edge(q, m, n)
    BY <2>3, <2>4 DEF Edge
  <2>5. s.visited \subseteq Node /\ s.next \in Node \cup {NoNode}
    BY <2>1 DEF RunRecord
  <2>6. Placed(s)' /\ ActedOnce(s)'
    BY <2>1 DEF RunInv, Placed, ActedOnce
  <2>7. OneSaving(s)'
    <3>1. s.pc = "visit" => s.next \in Node
      BY <2>1, <2>5 DEF RunInv, Placed
    <3>2. \A n \in Node : n[1] <= Len(saved) => n[1] <= Len(saved')
      BY <1>2, <2>2, WorkflowAssumption
    <3> QED
      BY <2>1, <2>5, <3>1, <3>2 DEF RunInv, OneSaving
  <2>8. AlongEdges(s)'
    <3>1. \A n \in s.visited : Entitled(s, n)'
      BY <2>1, <2>3, <2>4, <2>5 DEF RunInv, AlongEdges, OneSaving, Entitled
    <3>2. s.pc = "visit" => Entitled(s, s.next)'
      <4>1. s.pc = "visit" => s.next \in Node /\ s.next[1] <= Len(saved)
        BY <2>1, <2>5 DEF RunInv, OneSaving, Placed
      <4> QED
        BY <2>1, <2>3, <2>4, <2>5, <4>1 DEF RunInv, AlongEdges, OneSaving, Entitled
    <3>3. \A i \in DOMAIN s.stack : s.stack[i].node \in s.visited
                               /\ \A t \in s.stack[i].to : Edge(s.queue, s.stack[i].node, t)'
      BY <2>1, <2>4, <2>5 DEF RunInv, AlongEdges, OneSaving
    <3> QED
      BY <2>1, <3>1, <3>2, <3>3 DEF AlongEdges
  <2> QED
    BY <2>6, <2>7, <2>8 DEF RunInv
<1>4. run' \in [Request -> RunRecord]
  BY DEF IInv, Save
<1> QED
  BY <1>1, <1>3, <1>4 DEF IInv

-----------------------------------------------------------------------------
\* Steps that go nowhere new: the path gets shorter, or less is left to follow.
LEMMA Stays ==
  ASSUME NEW s \in RunRecord, RunInv(s), NEW s1 \in RunRecord, Placed(s1), s1.pc # "visit",
         s1.visited = s.visited, s1.queue = s.queue, s1.acted = s.acted,
         \A i \in DOMAIN s1.stack : i \in DOMAIN s.stack /\ s1.stack[i].node = s.stack[i].node
                                    /\ s1.stack[i].to \subseteq s.stack[i].to
  PROVE  RunInv(s1)
<1>1. OneSaving(s1) /\ ActedOnce(s1)
  BY DEF RunInv, OneSaving, ActedOnce
<1>2. AlongEdges(s1)
  BY DEF RunInv, AlongEdges, Entitled
<1> QED
  BY <1>1, <1>2 DEF RunInv

\* Before the first action.
LEMMA NoActions == <<>> \in Seq(Node)
OBVIOUS

\* A request triggers its workflows.
LEMMA TriggerKeeps == ASSUME IInv, NEW r \in Request, Trigger(r) PROVE IInv'
<1>1. PICK event \in Event, n \in 1..MaxRecords : \E objs \in [1..n -> Snapshot] :
        run' = [run EXCEPT ![r] = [Idle EXCEPT !.pc = "list", !.event = event, !.queue = objs]]
  BY DEF Trigger
<1>2. PICK objs \in [1..n -> Snapshot] :
        run' = [run EXCEPT ![r] = [Idle EXCEPT !.pc = "list", !.event = event, !.queue = objs]]
  BY <1>1
<1>3. n \in Nat /\ n >= 1 /\ objs \in Seq(Snapshot) /\ objs # <<>>
  <2>1. n \in Nat /\ n >= 1
    BY WorkflowAssumption
  <2>2. objs \in Seq(Snapshot) /\ Len(objs) = n
    BY <2>1
  <2> QED
    BY <2>1, <2>2
<1> DEFINE s1 == [Idle EXCEPT !.pc = "list", !.event = event, !.queue = objs]
<1>4. Idle \in RunRecord /\ Idle.visited = {} /\ Idle.acted = <<>> /\ Idle.stack = <<>> /\ Idle.next = NoNode
  BY DEF Idle, RunRecord, Event
<1>5. s1 \in RunRecord
  BY <1>3, <1>4 DEF RunRecord
<1>6. RunInv(s1)
  <2>1. s1.pc = "list" /\ s1.queue = objs /\ s1.visited = {} /\ s1.acted = <<>> /\ s1.stack = <<>> /\ s1.next = NoNode
    BY <1>4 DEF RunRecord
  <2> HIDE DEF s1
  <2> QED
    BY <1>3, <1>5, <2>1, FreshRun
<1> HIDE DEF s1
<1>7. run' = [run EXCEPT ![r] = s1] /\ UNCHANGED <<current, saved>>
  BY <1>2 DEF Trigger, s1
<1> QED
  BY <1>5, <1>6, <1>7, OneRun

\* The workflows of a record are listed.
LEMMA ListKeeps == ASSUME IInv, NEW r \in Request, ListWorkflows(r) PROVE IInv'
<1> DEFINE s == run[r]
           todo == {w \in WorkflowId : current[w] # 0 /\ saved[current[w]].event = s.event}
           s1 == [s EXCEPT !.pc = "pick", !.todo = todo]
<1>1. s \in RunRecord /\ RunInv(s) /\ s.pc = "list"
  BY DEF IInv, ListWorkflows
<1>2. todo \in SUBSET WorkflowId
  OBVIOUS
<1>3. run' = [run EXCEPT ![r] = s1] /\ UNCHANGED <<current, saved>>
  BY DEF ListWorkflows, IInv
<1> HIDE DEF todo
<1>4. s1 \in RunRecord
  BY <1>1, <1>2 DEF RunRecord
<1>5. /\ s1.pc = "pick" /\ s1.next = s.next /\ s1.stack = s.stack /\ s1.queue = s.queue
      /\ s1.visited = s.visited /\ s1.acted = s.acted
  BY <1>1 DEF RunRecord
<1>6. Placed(s1)
  BY <1>1, <1>5 DEF RunInv, Placed
<1>7. RunInv(s1)
  <2>1. \A i \in DOMAIN s1.stack : s1.stack[i] = s.stack[i]
    BY <1>5
  <2> HIDE DEF s1, s
  <2> QED
    BY <1>1, <1>4, <1>5, <1>6, <2>1, Stays
<1> HIDE DEF s1
<1> QED
  BY <1>3, <1>4, <1>7, OneRun

\* A workflow is skipped, or its start is visited first.
LEMMA PickKeeps == ASSUME IInv, NEW r \in Request, NEW w \in WorkflowId, PickWorkflow(r, w) PROVE IInv'
<1> DEFINE s == run[r]
<1>1. s \in RunRecord /\ RunInv(s) /\ s.pc = "pick" /\ UNCHANGED <<current, saved>>
  BY DEF IInv, PickWorkflow
<1>2. CASE run' = [run EXCEPT ![r].todo = @ \ {w}]
  <2> DEFINE todo == s.todo \ {w}
             s1 == [s EXCEPT !.todo = todo]
  <2>1. todo \in SUBSET WorkflowId
    BY <1>1 DEF RunRecord
  <2>2. run' = [run EXCEPT ![r] = s1]
    BY <1>2 DEF IInv
  <2> HIDE DEF todo
  <2>3. s1 \in RunRecord
    BY <1>1, <2>1 DEF RunRecord
  <2>4. /\ s1.pc = "pick" /\ s1.next = s.next /\ s1.stack = s.stack /\ s1.queue = s.queue
        /\ s1.visited = s.visited /\ s1.acted = s.acted
    BY <1>1 DEF RunRecord
  <2>5. Placed(s1)
    BY <1>1, <2>4 DEF RunInv, Placed
  <2>6. RunInv(s1)
    <3>1. \A i \in DOMAIN s1.stack : s1.stack[i] = s.stack[i]
      BY <2>4
    <3> HIDE DEF s1, s
    <3> QED
      BY <1>1, <2>3, <2>4, <2>5, <3>1, Stays
  <2> HIDE DEF s1
  <2> QED
    BY <1>1, <2>2, <2>3, <2>6, OneRun
<1>3. ASSUME NEW p \in StartNodes(w),
             run' = [run EXCEPT ![r] = [run[r] EXCEPT !.pc = "visit", !.todo = @ \ {w}, !.workflow = w,
                                             !.next = <<current[w], p>>, !.visited = {}, !.acted = <<>>]]
      PROVE  IInv'
  <2> DEFINE todo == s.todo \ {w}
             n == <<current[w], p>>
             s1 == [s EXCEPT !.pc = "visit", !.todo = todo, !.workflow = w, !.next = n, !.visited = {}, !.acted = <<>>]
  <2>1. todo \in SUBSET WorkflowId
    BY <1>1 DEF RunRecord
  <2>2. run' = [run EXCEPT ![r] = s1]
    BY <1>3
  <2>3. p \in Place /\ current[w] \in 1..Len(saved) /\ saved[current[w]].kind[p] = "Start" /\ Len(saved) <= MaxSaves
        /\ Len(saved) \in Nat
    BY <1>3 DEF StartNodes, IInv, StoreOK
  <2>4. n \in Node /\ n[1] = current[w] /\ n[1] <= Len(saved) /\ KindOf(n) = "Start" /\ n # NoNode
    BY <2>3, WorkflowAssumption DEF Node, KindOf, DesignOf
  <2> HIDE DEF todo, n
  <2>5. s1 \in RunRecord
    BY <1>1, <2>1, <2>4, NoActions DEF RunRecord
  <2>6. /\ s1.pc = "visit" /\ s1.next = n /\ s1.stack = s.stack /\ s1.queue = s.queue
        /\ s1.visited = {} /\ s1.acted = <<>>
    BY <1>1 DEF RunRecord
  <2>7. s.stack = <<>> /\ s.queue # <<>>
    BY <1>1 DEF RunInv, Placed
  <2> HIDE DEF s1, s
  <2>8. Placed(s1) /\ OneSaving(s1) /\ AlongEdges(s1) /\ ActedOnce(s1)
    BY <2>4, <2>6, <2>7 DEF Placed, OneSaving, AlongEdges, Entitled, ActedOnce
  <2> QED
    BY <1>1, <2>2, <2>5, <2>8, OneRun DEF RunInv
<1> QED
  BY <1>2, <1>3 DEF PickWorkflow

\* On to the next record.
LEMMA NextRecordKeeps == ASSUME IInv, NEW r \in Request, NextRecord(r) PROVE IInv'
<1> DEFINE s == run[r]
           queue == Tail(s.queue)
           pc == IF Len(s.queue) > 1 THEN "list" ELSE "done"
           s1 == [s EXCEPT !.queue = queue, !.workflow = NoWorkflow, !.visited = {}, !.acted = <<>>, !.pc = pc]
<1>1. s \in RunRecord /\ RunInv(s) /\ s.pc = "pick" /\ UNCHANGED <<current, saved>>
  BY DEF IInv, NextRecord
<1>2. run' = [run EXCEPT ![r] = s1]
  BY DEF NextRecord
<1>3. s.queue \in Seq(Snapshot) /\ s.queue # <<>> /\ s.next = NoNode /\ s.stack = <<>>
  BY <1>1 DEF RunRecord, RunInv, Placed
<1>4. queue \in Seq(Snapshot) /\ (pc = "list" => queue # <<>>) /\ pc \in {"list", "done"}
  <2>1. queue \in Seq(Snapshot) /\ Len(queue) = Len(s.queue) - 1 /\ Len(s.queue) \in Nat
    BY <1>3
  <2> HIDE DEF queue
  <2>2. queue = <<>> => Len(queue) = 0
    OBVIOUS
  <2> QED
    BY <2>1, <2>2
<1> HIDE DEF queue, pc
<1>5. s1 \in RunRecord
  BY <1>1, <1>4, NoActions DEF RunRecord
<1>6. s1.visited = {} /\ s1.acted = <<>> /\ s1.stack = <<>> /\ s1.pc = pc /\ s1.next = NoNode /\ s1.queue = queue
  BY <1>1, <1>3 DEF RunRecord
<1> HIDE DEF s1
<1>7. RunInv(s1)
  BY <1>4, <1>5, <1>6, FreshRun
<1> QED
  BY <1>1, <1>2, <1>5, <1>7, OneRun

-----------------------------------------------------------------------------
\* The first conditions of a step of traverse_node: what is left when a run is
\* ended, or goes on with the next record or workflow.
LEMMA EndedKeeps ==
  ASSUME IInv, NEW r \in Request, NEW s \in RunRecord, RunInv(s), UNCHANGED <<current, saved>>,
         run' \in {[run EXCEPT ![r] = x] : x \in {Abandoned(s), Deferred(s), [s EXCEPT !.pc = "next", !.next = NoNode]}},
         s.queue # <<>>
  PROVE  IInv'
<1>1. PICK x \in {Abandoned(s), Deferred(s), [s EXCEPT !.pc = "next", !.next = NoNode]} : run' = [run EXCEPT ![r] = x]
  OBVIOUS
<1>2. /\ x \in RunRecord /\ x.visited = s.visited /\ x.acted = s.acted /\ x.queue = s.queue /\ x.next = NoNode
      /\ x.pc \in {"done", "pick", "next"} /\ (x.stack = <<>> \/ (x.stack = s.stack /\ x.pc = "next"))
  <2>1. <<>> \in Seq(Frame)
    OBVIOUS
  <2>2. ASSUME NEW l \in {"done", "pick"}, x = [s EXCEPT !.pc = l, !.todo = {}, !.next = NoNode, !.stack = <<>>]
        PROVE  /\ x \in RunRecord /\ x.visited = s.visited /\ x.acted = s.acted /\ x.queue = s.queue
               /\ x.next = NoNode /\ x.pc = l /\ x.stack = <<>>
    <3>1. x \in RunRecord
      BY <2>1, <2>2 DEF RunRecord
    <3> QED
      BY <2>2, <3>1 DEF RunRecord
  <2>3. CASE x = Abandoned(s)
    <3>1. x = [s EXCEPT !.pc = "done", !.todo = {}, !.next = NoNode, !.stack = <<>>]
      BY <2>3 DEF Abandoned
    <3> QED
      BY <2>2, <3>1
  <2>5. CASE x = Deferred(s)
    <3>1. x = [s EXCEPT !.pc = "pick", !.todo = {}, !.next = NoNode, !.stack = <<>>]
      BY <2>5 DEF Deferred
    <3> QED
      BY <2>2, <3>1
  <2>4. CASE x = [s EXCEPT !.pc = "next", !.next = NoNode]
    BY <2>4 DEF RunRecord
  <2> QED
    BY <2>3, <2>4, <2>5
<1>3. Placed(x)
  BY <1>2 DEF Placed
<1>4. \A i \in DOMAIN x.stack : i \in DOMAIN s.stack /\ x.stack[i] = s.stack[i]
  BY <1>2
<1>5. RunInv(x)
  BY <1>2, <1>3, <1>4, Stays
<1> QED
  BY <1>1, <1>2, <1>5, OneRun

\* A node that has not been visited is, and its action is done unless it was.
LEMMA VisitedInv ==
  ASSUME NEW s \in RunRecord, RunInv(s), s.pc = "visit", s.next \notin s.visited, NEW s1 \in RunRecord,
         s1.visited = s.visited \cup {s.next}, s1.pc = "edges", s1.next = s.next, s1.stack = s.stack,
         s1.queue = s.queue, s1.acted = s.acted \/ s1.acted = Append(s.acted, s.next)
  PROVE  RunInv(s1)
<1>1. s.next \in Node /\ s.next # NoNode /\ s.queue # <<>>
  BY DEF RunRecord, RunInv, Placed
<1>2. Placed(s1)
  BY <1>1 DEF Placed
<1>3. OneSaving(s1)
  BY DEF RunInv, OneSaving
<1>4. AlongEdges(s1)
  BY DEF RunInv, AlongEdges, Entitled
<1>5. ActedOnce(s1)
  <2>1. CASE s1.acted = s.acted
    BY <2>1 DEF RunInv, ActedOnce
  <2>2. CASE s1.acted = Append(s.acted, s.next)
    <3> DEFINE k == Len(s.acted)
    <3>1. s.acted \in Seq(Node) /\ k \in Nat /\ DOMAIN s.acted = 1..k
      BY DEF RunRecord
    <3>2. DOMAIN s1.acted = 1..(k + 1) /\ s1.acted[k + 1] = s.next /\ \A i \in 1..k : s1.acted[i] = s.acted[i]
      BY <1>1, <2>2, <3>1
    <3>3. \A i \in 1..k : s.acted[i] \in s.visited /\ s.acted[i] # s.next
      BY <3>1 DEF RunInv, ActedOnce
    <3>4. \A i, j \in 1..k : s.acted[i] = s.acted[j] => i = j
      BY <3>1 DEF RunInv, ActedOnce
    <3>5. \A i \in 1..(k + 1) : i \in 1..k \/ i = k + 1
      BY <3>1
    <3> HIDE DEF k
    <3> QED
      BY <3>2, <3>3, <3>4, <3>5 DEF ActedOnce
  <2> QED
    BY <2>1, <2>2
<1> QED
  BY <1>2, <1>3, <1>4, <1>5 DEF RunInv

\* The head of traverse_node.
LEMMA VisitKeeps == ASSUME IInv, NEW r \in Request, Visit(r) PROVE IInv'
<1> DEFINE s == run[r]
           n == s.next
           v == s.visited \cup {n}
           seen == [s EXCEPT !.visited = v, !.pc = "edges"]
           did == Append(s.acted, n)
           acted == [seen EXCEPT !.acted = did]
<1>1. s \in RunRecord /\ RunInv(s) /\ s.pc = "visit" /\ UNCHANGED <<current, saved>>
  BY DEF IInv, Visit
<1>2. s.queue # <<>> /\ n \in Node /\ s.acted \in Seq(Node)
  BY <1>1 DEF RunInv, Placed, RunRecord
<1>3. \/ run' = [run EXCEPT ![r] = Abandoned(s)]
      \/ n \in s.visited /\ run' = [run EXCEPT ![r] = [s EXCEPT !.pc = "next", !.next = NoNode]]
      \/ n \notin s.visited /\ \E x \in {acted, Abandoned(acted), Deferred(acted)} : run' = [run EXCEPT ![r] = x]
      \/ n \notin s.visited /\ run' = [run EXCEPT ![r] = seen]
  <2>1. acted = [[s EXCEPT !.visited = @ \cup {n}, !.pc = "edges"] EXCEPT !.acted = Append(@, n)]
    BY <1>1 DEF RunRecord
  <2> QED
    BY <2>1 DEF Visit, Path
<1>4. v \in SUBSET Node /\ did \in Seq(Node)
  BY <1>1, <1>2 DEF RunRecord
<1> HIDE DEF v, did
<1>5. seen \in RunRecord /\ acted \in RunRecord
  <2>1. seen \in RunRecord
    BY <1>1, <1>4 DEF RunRecord
  <2> HIDE DEF seen
  <2> QED
    BY <1>4, <2>1 DEF RunRecord
<1>6. /\ seen.visited = v /\ seen.pc = "edges" /\ seen.next = n /\ seen.stack = s.stack /\ seen.queue = s.queue
      /\ seen.acted = s.acted
  BY <1>1 DEF RunRecord
<1>7. /\ acted.visited = v /\ acted.pc = "edges" /\ acted.next = n /\ acted.stack = s.stack /\ acted.queue = s.queue
      /\ acted.acted = did
  <2> HIDE DEF seen
  <2> QED
    BY <1>5, <1>6 DEF RunRecord
<1> HIDE DEF seen, acted
<1>8. n \notin s.visited => RunInv(seen) /\ RunInv(acted)
  BY <1>1, <1>5, <1>6, <1>7, VisitedInv DEF v, did
<1>9. CASE run' = [run EXCEPT ![r] = Abandoned(s)]
  BY <1>1, <1>2, <1>9, EndedKeeps
<1>10. CASE run' = [run EXCEPT ![r] = [s EXCEPT !.pc = "next", !.next = NoNode]]
  BY <1>1, <1>2, <1>10, EndedKeeps
<1>11. CASE n \notin s.visited /\ run' = [run EXCEPT ![r] = seen]
  BY <1>1, <1>5, <1>8, <1>11, OneRun
<1>12. CASE n \notin s.visited /\ run' = [run EXCEPT ![r] = acted]
  BY <1>1, <1>5, <1>8, <1>12, OneRun
<1>13. ASSUME n \notin s.visited, NEW x \in {Abandoned(acted), Deferred(acted)}, run' = [run EXCEPT ![r] = x]
       PROVE  IInv'
  BY <1>1, <1>2, <1>5, <1>7, <1>8, <1>13, EndedKeeps
<1> QED
  BY <1>3, <1>9, <1>10, <1>11, <1>12, <1>13

\* The edges of a node lead to nodes of its saving that the record may take.
LEMMA TargetsAreEdges ==
  ASSUME IInv, NEW n \in Node, n[1] <= Len(saved), NEW q, NEW handles \in SUBSET Handle,
         KindOf(n) = "Decision" => handles = Branch(Head(q), n), NEW t \in Targets(n, handles)
  PROVE  t \in Node /\ Edge(q, n, t)
<1>1. PICK e \in {f \in DesignOf(n).edges : f[1] = n[2] /\ f[2] \in handles} : t = <<n[1], e[3]>>
  BY DEF Targets
<1>2. n[1] \in 1..MaxSaves /\ n = <<n[1], n[2]>>
  BY DEF Node
<1>3. DesignOf(n) \in Design
  BY <1>2, WorkflowAssumption DEF DesignOf, IInv, StoreOK
<1>4. e \in Place \X Handle \X Place
  BY <1>1, <1>3, WorkflowAssumption
<1>5. t \in Node /\ <<n[1], e[3]>> = t
  BY <1>1, <1>2, <1>4 DEF Node
<1>6. KindOf(n) = "Decision" => e[2] = (IF Head(q) \in DesignOf(n).when[n[2]] THEN "plain" ELSE "no")
  BY <1>1 DEF Branch, Meets
<1>7. Edge(q, n, t)
  BY <1>1, <1>2, <1>5, <1>6 DEF Edge
<1> QED
  BY <1>5, <1>7

\* A node's edges are read and put on the path.
LEMMA FetchEdgesKeeps == ASSUME IInv, NEW r \in Request, FetchEdges(r) PROVE IInv'
<1> DEFINE s == run[r]
           n == s.next
           found == IF KindOf(n) = "Decision" THEN Targets(n, Branch(Obj(r), n)) ELSE Targets(n, Handle)
<1>1. s \in RunRecord /\ RunInv(s) /\ s.pc = "edges" /\ UNCHANGED <<current, saved>>
  BY DEF IInv, FetchEdges
<1>2. n \in Node /\ n \in s.visited /\ n[1] <= Len(saved) /\ s.queue # <<>>
  BY <1>1 DEF RunInv, Placed, RunRecord, OneSaving
<1>3. PICK to \in IF KindOf(n) = "Decision" /\ found # {} THEN {{t} : t \in found} ELSE {found} :
        run' = [run EXCEPT ![r] = [run[r] EXCEPT !.pc = "next", !.next = NoNode,
                                    !.stack = Append(@, [node |-> n, to |-> to])]]
  BY DEF FetchEdges
<1>4. \A t \in found : t \in Node /\ Edge(s.queue, n, t)
  <2>1. Obj(r) = Head(s.queue)
    BY DEF Obj
  <2>2. Branch(Obj(r), n) \in SUBSET Handle
    BY DEF Branch, Handle
  <2>3. CASE KindOf(n) = "Decision"
    BY <1>2, <2>1, <2>2, <2>3, TargetsAreEdges
  <2>4. CASE KindOf(n) # "Decision"
    BY <1>2, <2>4, TargetsAreEdges
  <2> QED
    BY <2>3, <2>4
<1>5. to \subseteq found
  BY <1>3
<1> HIDE DEF found
<1> DEFINE f == [node |-> n, to |-> to]
           st == Append(s.stack, f)
           s1 == [s EXCEPT !.pc = "next", !.next = NoNode, !.stack = st]
<1>6. f \in Frame /\ f.node = n /\ f.to = to
  BY <1>2, <1>4, <1>5 DEF Frame
<1>7. run' = [run EXCEPT ![r] = s1]
  BY <1>1, <1>3 DEF RunRecord
<1> HIDE DEF f
<1>8. /\ st \in Seq(Frame)
      /\ \A i \in DOMAIN st : (i \in DOMAIN s.stack /\ st[i] = s.stack[i]) \/ st[i] = f
  BY <1>1, <1>6 DEF RunRecord
<1> HIDE DEF st
<1>9. s1 \in RunRecord
  BY <1>1, <1>8 DEF RunRecord
<1>10. /\ s1.pc = "next" /\ s1.next = NoNode /\ s1.stack = st /\ s1.queue = s.queue
       /\ s1.visited = s.visited /\ s1.acted = s.acted
  BY <1>1 DEF RunRecord
<1> HIDE DEF s1
<1>11. Placed(s1) /\ OneSaving(s1) /\ ActedOnce(s1)
  BY <1>1, <1>2, <1>10 DEF RunInv, Placed, OneSaving, ActedOnce
<1>12. AlongEdges(s1)
  <2>1. \A t \in f.to : Edge(s.queue, f.node, t)
    BY <1>4, <1>5, <1>6
  <2>2. \A m \in s1.visited : Entitled(s1, m)
    BY <1>1, <1>10 DEF RunInv, AlongEdges, Entitled
  <2>3. \A i \in DOMAIN s1.stack : s1.stack[i].node \in s.visited
                                  /\ \A t \in s1.stack[i].to : Edge(s.queue, s1.stack[i].node, t)
    BY <1>1, <1>2, <1>6, <1>8, <1>10, <2>1 DEF RunInv, AlongEdges
  <2> QED
    BY <1>10, <2>2, <2>3 DEF AlongEdges
<1> QED
  BY <1>1, <1>7, <1>9, <1>11, <1>12, OneRun DEF RunInv

\* One of the edges left is followed.
LEMMA FollowKeeps == ASSUME IInv, NEW r \in Request, NEW t \in Node, Follow(r, t) PROVE IInv'
<1> DEFINE s == run[r]
           k == Len(s.stack)
           f == [node |-> s.stack[k].node, to |-> s.stack[k].to \ {t}]
           st == [s.stack EXCEPT ![k] = f]
           s0 == [s EXCEPT !.stack = st]
           s1 == [s0 EXCEPT !.pc = "visit", !.next = t]
<1>1. s \in RunRecord /\ RunInv(s) /\ s.pc = "next" /\ UNCHANGED <<current, saved>>
      /\ s.stack # <<>> /\ t \in s.stack[k].to
  BY DEF IInv, Follow, Path, Top
<1>2. s.stack \in Seq(Frame) /\ k \in DOMAIN s.stack /\ s.stack[k] \in Frame
  BY <1>1 DEF RunRecord
<1>3. run' = [run EXCEPT ![r] = IF Exists(t) THEN s1 ELSE s0]
  <2>1. s0 = [s EXCEPT !.stack = With(@, Top(r).to \ {t})]
    BY <1>1 DEF With, Top, Path, RunRecord
  <2> HIDE DEF s0
  <2> QED
    BY <2>1 DEF Follow
<1>4. f \in Frame /\ f.node = s.stack[k].node /\ f.to \subseteq s.stack[k].to
  BY <1>2 DEF Frame
<1>5. s.stack[k].node \in s.visited /\ Edge(s.queue, s.stack[k].node, t)
  BY <1>1, <1>2 DEF RunInv, AlongEdges
<1>6. t # NoNode /\ s.stack[k].node[1] <= Len(saved) /\ t[1] = s.stack[k].node[1]
  <2>1. \E e : <<s.stack[k].node[1], e[3]>> = t
    BY <1>5 DEF Edge
  <2>2. t # NoNode
    BY WorkflowAssumption DEF Node
  <2> QED
    BY <1>1, <1>5, <2>1, <2>2 DEF RunInv, OneSaving
<1> HIDE DEF f
<1>7. st \in Seq(Frame) /\ DOMAIN st = DOMAIN s.stack
      /\ \A i \in DOMAIN st : st[i].node = s.stack[i].node /\ st[i].to \subseteq s.stack[i].to
  BY <1>2, <1>4
<1> HIDE DEF st, k
<1>8. s0 \in RunRecord
  BY <1>1, <1>7 DEF RunRecord
<1>9. /\ s0.pc = "next" /\ s0.next = s.next /\ s0.stack = st /\ s0.queue = s.queue
      /\ s0.visited = s.visited /\ s0.acted = s.acted
  BY <1>1 DEF RunRecord
<1> HIDE DEF s0
<1>10. s1 \in RunRecord
  BY <1>8 DEF RunRecord
<1>11. /\ s1.pc = "visit" /\ s1.next = t /\ s1.stack = st /\ s1.queue = s.queue
       /\ s1.visited = s.visited /\ s1.acted = s.acted
  BY <1>8, <1>9 DEF RunRecord
<1> HIDE DEF s1
<1>12. RunInv(s0)
  <2>1. Placed(s0)
    BY <1>1, <1>9 DEF RunInv, Placed
  <2> QED
    BY <1>1, <1>7, <1>8, <1>9, <2>1, Stays
<1>13. RunInv(s1)
  <2>1. Placed(s1)
    BY <1>1, <1>6, <1>11 DEF RunInv, Placed
  <2>2. OneSaving(s1)
    BY <1>1, <1>5, <1>6, <1>11 DEF RunInv, OneSaving
  <2>3. AlongEdges(s1)
    <3>1. Entitled(s1, t)
      BY <1>5, <1>11 DEF Entitled
    <3>2. \A m \in s.visited : Entitled(s1, m)
      BY <1>1, <1>11 DEF RunInv, AlongEdges, Entitled
    <3>3. \A i \in DOMAIN s1.stack : s1.stack[i].node \in s.visited
                                    /\ \A u \in s1.stack[i].to : Edge(s.queue, s1.stack[i].node, u)
      BY <1>1, <1>7, <1>11 DEF RunInv, AlongEdges
    <3> QED
      BY <1>11, <3>1, <3>2, <3>3 DEF AlongEdges
  <2>4. ActedOnce(s1)
    BY <1>1, <1>11 DEF RunInv, ActedOnce
  <2> QED
    BY <2>1, <2>2, <2>3, <2>4 DEF RunInv
<1>14. CASE Exists(t)
  BY <1>1, <1>3, <1>10, <1>13, <1>14, OneRun
<1>15. CASE ~Exists(t)
  BY <1>1, <1>3, <1>8, <1>12, <1>15, OneRun
<1> QED
  BY <1>14, <1>15

\* traverse_node returns.
LEMMA ReturnKeeps == ASSUME IInv, NEW r \in Request, Return(r) PROVE IInv'
<1> DEFINE s == run[r]
           st == Pop(s.stack)
           l == IF Len(s.stack) = 1 THEN "pick" ELSE "next"
           s1 == [s EXCEPT !.stack = st, !.pc = l]
<1>1. s \in RunRecord /\ RunInv(s) /\ s.pc = "next" /\ UNCHANGED <<current, saved>> /\ s.stack # <<>>
  BY DEF IInv, Return, Path
<1>2. run' = [run EXCEPT ![r] = s1]
  BY DEF Return, Path
<1>3. s.stack \in Seq(Frame)
  BY <1>1 DEF RunRecord
<1>4. /\ st \in Seq(Frame) /\ l \in {"pick", "next"} /\ (l = "pick" => st = <<>>)
      /\ \A i \in DOMAIN st : i \in DOMAIN s.stack /\ st[i] = s.stack[i]
  <2>1. Len(s.stack) \in Nat /\ Len(s.stack) >= 1
    BY <1>1, <1>3
  <2>2. /\ st \in Seq(Frame) /\ Len(st) = Len(s.stack) - 1
        /\ \A i \in 1..(Len(s.stack) - 1) : st[i] = s.stack[i]
    BY <1>3, <2>1 DEF Pop
  <2>3. Len(s.stack) = 1 => st = <<>>
    BY <2>1, <2>2
  <2> QED
    BY <1>3, <2>1, <2>2, <2>3
<1> HIDE DEF st, l
<1>5. s1 \in RunRecord
  BY <1>1, <1>4 DEF RunRecord
<1>6. /\ s1.pc = l /\ s1.next = s.next /\ s1.stack = st /\ s1.queue = s.queue
      /\ s1.visited = s.visited /\ s1.acted = s.acted
  BY <1>1 DEF RunRecord
<1> HIDE DEF s1
<1>7. Placed(s1)
  BY <1>1, <1>4, <1>6 DEF RunInv, Placed
<1>8. RunInv(s1)
  BY <1>1, <1>4, <1>5, <1>6, <1>7, Stays
<1> QED
  BY <1>1, <1>2, <1>5, <1>8, OneRun

\* Runs and versions that stay keep what holds of them.
LEMMA SameRuns == ASSUME IInv, UNCHANGED <<saved, run>> PROVE \A r \in Request : RunInv(run[r])'
<1>1. \A m : DesignOf(m)' = DesignOf(m) /\ KindOf(m)' = KindOf(m)
  BY DEF DesignOf, KindOf
<1>2. ASSUME NEW r \in Request PROVE RunInv(run[r])'
  <2>1. Placed(run[r])' /\ OneSaving(run[r])' /\ ActedOnce(run[r])'
    BY DEF IInv, RunInv, Placed, OneSaving, ActedOnce
  <2>2. AlongEdges(run[r]) /\ run'[r] = run[r]
    BY DEF IInv, RunInv
  <2>3. \A m, n : Edge(run[r].queue, m, n)' = Edge(run[r].queue, m, n)
    BY <1>1, <2>2 DEF Edge
  <2>4. AlongEdges(run[r])'
    BY <2>2, <2>3, <1>1 DEF AlongEdges, Entitled
  <2> QED
    BY <2>1, <2>4 DEF RunInv
<1> QED
  BY <1>2

\* A workflow is deleted; its versions remain known.
LEMMA RemoveKeeps == ASSUME IInv, NEW w \in WorkflowId, Remove(w) PROVE IInv'
<1>1. UNCHANGED <<saved, run>> /\ current' = [current EXCEPT ![w] = 0] /\ Len(saved) \in Nat
  BY DEF Remove, IInv, StoreOK
<1>2. StoreOK'
  <2> DEFINE k == Len(saved)
  <2>1. k \in Nat /\ current \in [WorkflowId -> 0..k]
    BY <1>1 DEF IInv, StoreOK
  <2> HIDE DEF k
  <2>2. current' \in [WorkflowId -> 0..k]
    BY <1>1, <2>1
  <2> QED
    BY <1>1, <2>2 DEF k, IInv, StoreOK
<1>3. \A r \in Request : RunInv(run[r])'
  BY <1>1, SameRuns
<1> QED
  BY <1>1, <1>2, <1>3 DEF IInv

-----------------------------------------------------------------------------

\* Every step keeps the inductive invariant.
LEMMA InvNext == IInv /\ [Next]_vars => IInv'
<1> SUFFICES ASSUME IInv, [Next]_vars PROVE IInv'
  OBVIOUS
<1>1. CASE UNCHANGED vars
  BY <1>1, SameRuns DEF vars, IInv, StoreOK
<1>2. CASE \E w \in WorkflowId, d \in Design : Save(w, d)
  BY <1>2, SaveKeeps
<1>3. CASE \E w \in WorkflowId : Remove(w)
  BY <1>3, RemoveKeeps
<1>4. ASSUME NEW r \in Request, Trigger(r) \/ Execute(r) PROVE IInv'
  BY <1>4, TriggerKeeps, ListKeeps, NextRecordKeeps, VisitKeeps, FetchEdgesKeeps, ReturnKeeps, PickKeeps, FollowKeeps
     DEF Execute
<1> QED
  BY <1>1, <1>2, <1>3, <1>4 DEF Next

\* The inductive invariant holds in every behaviour.
THEOREM Invariance == Spec => []IInv
  BY InvInit, InvNext, PTL DEF Spec

\* Every variable has its type; a run is at a node exactly when it visits one.
THEOREM TypeCorrect == Spec => []TypeOK
  BY Invariance, InvSuffices, PTL

\* Whatever the graphs, and whenever they are saved anew, no action of a
\* workflow is done twice for one record.
THEOREM NoActionIsDoneTwice == Spec => []NoActionTwice
  BY Invariance, InvSuffices, PTL

\* A run keeps to one saving of its workflow and to the edges that the record
\* may take.
THEOREM RunsKeepToOneDesign == Spec => []RunsOneDesign
  BY Invariance, InvSuffices, PTL

-----------------------------------------------------------------------------
\* What is still to come: a target the run has visited, visits next, or has on
\* its path.
Ahead(s, t) == t \in s.visited \/ (s.pc = "visit" /\ t = s.next) \/ \E i \in DOMAIN s.stack : t \in s.stack[i].to

\* Every edge of m that the record may take is ahead or behind, of a decision one is.
Followed(s, m) ==
  IF KindOf(m) = "Decision"
  THEN (\E n \in Node : Edge(s.queue, m, n)) => \E n \in Node : Edge(s.queue, m, n) /\ Ahead(s, n)
  ELSE \A n \in Node : Edge(s.queue, m, n) => Ahead(s, n)

Undisturbed(s) == \A m \in s.visited : current[s.workflow] = m[1]

Running == {"visit", "edges", "next"}

\* While its workflow stays as it is, a run forgets none of the edges it has read.
Walked(s) ==
  s.pc \in Running =>
    /\ s.workflow \in WorkflowId
    /\ Undisturbed(s) => \A m \in s.visited : (s.pc = "edges" /\ m = s.next) \/ Followed(s, m)

\* The property is of a step, and needs to know what the steps before have left on the path.
PathInv == \A r \in Request : Walked(run[r])

\* A step of one request leaves the other runs as they are.
LEMMA OneWalk ==
  ASSUME IInv, PathInv, NEW r \in Request, NEW s, run' = [run EXCEPT ![r] = s], UNCHANGED <<current, saved>>, Walked(s)
  PROVE  PathInv'
<1>1. \A q \in Request : run'[q] = IF q = r THEN s ELSE run[q]
  BY DEF IInv
<1>2. \A q \in Request : Walked(run'[q])
  BY <1>1 DEF PathInv
<1>3. \A m : DesignOf(m)' = DesignOf(m) /\ KindOf(m)' = KindOf(m)
  BY DEF DesignOf, KindOf
<1>4. ASSUME NEW q \in Request PROVE Walked(run[q])'
  <2>1. ASSUME NEW m PROVE Followed(run[q], m)' <=> Followed(run'[q], m)
    BY <1>3 DEF Followed, Edge, Ahead, Node
  <2>2. Undisturbed(run[q])' <=> Undisturbed(run'[q])
    BY DEF Undisturbed
  <2> QED
    BY <1>2, <2>1, <2>2 DEF Walked
<1> QED
  BY <1>4 DEF PathInv

\* A run that is not at work, or has visited nothing, has nothing to remember.
LEMMA NothingWalked ==
  ASSUME NEW s, s.pc \in Running => s.workflow \in WorkflowId /\ s.visited = {}
  PROVE  Walked(s)
BY DEF Walked

\* What was ahead stays ahead, and every node newly visited is at hand.
LEMMA WalksOn ==
  ASSUME NEW s, Walked(s), s.pc \in Running, NEW s1, s1.workflow = s.workflow, s1.queue = s.queue,
         s.visited \subseteq s1.visited,
         Undisturbed(s1) => \A n \in Node : Ahead(s, n) => Ahead(s1, n),
         Undisturbed(s1) => \A m \in s1.visited :
            \/ m \in s.visited /\ ~(s.pc = "edges" /\ m = s.next)
            \/ s1.pc = "edges" /\ m = s1.next
            \/ Followed(s1, m)
  PROVE  Walked(s1)
<1>1. Undisturbed(s1) => Undisturbed(s)
  BY DEF Undisturbed
<1>2. ASSUME Undisturbed(s1), NEW m \in s1.visited PROVE (s1.pc = "edges" /\ m = s1.next) \/ Followed(s1, m)
  <2>1. CASE m \in s.visited /\ ~(s.pc = "edges" /\ m = s.next)
    <3>1. Followed(s, m)
      BY <1>1, <1>2, <2>1 DEF Walked
    <3>2. \A n \in Node : Ahead(s, n) => Ahead(s1, n)
      BY <1>2
    <3> QED
      BY <3>1, <3>2 DEF Followed
  <2> QED
    BY <1>2, <2>1
<1> QED
  BY <1>2 DEF Walked

\* A workflow saved or deleted is disturbed, the runs of the others are not touched.
LEMMA StoredWalks ==
  ASSUME IInv, PathInv, NEW w \in WorkflowId, NEW v, current' = [current EXCEPT ![w] = v], UNCHANGED run,
         \A n \in Node : n[1] <= Len(saved) => n[1] # v /\ DesignOf(n)' = DesignOf(n) /\ KindOf(n)' = KindOf(n)
  PROVE  PathInv'
<1> SUFFICES ASSUME NEW r \in Request PROVE Walked(run[r])'
  BY DEF PathInv
<1> DEFINE s == run[r]
<1>1. s \in RunRecord /\ RunInv(s) /\ Walked(s) /\ s.visited \subseteq Node
  BY DEF IInv, PathInv, RunRecord
<1>2. \A m \in s.visited : m[1] # v /\ DesignOf(m)' = DesignOf(m) /\ KindOf(m)' = KindOf(m)
  BY <1>1 DEF RunInv, OneSaving
<1>3. \A m \in s.visited : Followed(s, m)' <=> Followed(s, m)
  BY <1>2 DEF Followed, Edge, Ahead, Node
<1>4. ASSUME s.pc \in Running, Undisturbed(s)' PROVE Undisturbed(s)
  <2>1. s.workflow \in WorkflowId
    BY <1>1, <1>4 DEF Walked
  <2>2. current'[s.workflow] = IF s.workflow = w THEN v ELSE current[s.workflow]
    BY <2>1 DEF IInv, StoreOK
  <2>3. \A m \in s.visited : current'[s.workflow] = m[1]
    BY <1>4 DEF Undisturbed
  <2>4. CASE s.workflow = w
    BY <1>2, <2>2, <2>3, <2>4 DEF Undisturbed
  <2>5. CASE s.workflow # w
    BY <2>2, <2>3, <2>5 DEF Undisturbed
  <2> QED
    BY <2>4, <2>5
<1> QED
  BY <1>1, <1>3, <1>4 DEF Walked

LEMMA SaveWalks == ASSUME IInv, PathInv, NEW w \in WorkflowId, NEW d \in Design, Save(w, d) PROVE PathInv'
<1>1. /\ \A k \in 1..Len(saved) : saved'[k] = saved[k]
      /\ Len(saved) \in Nat
  BY DEF IInv, StoreOK, Save
<1>2. ASSUME NEW n \in Node, n[1] <= Len(saved)
      PROVE  n[1] # Len(saved) + 1 /\ DesignOf(n)' = DesignOf(n) /\ KindOf(n)' = KindOf(n)
  <2>1. n[1] \in 1..Len(saved)
    BY <1>1, <1>2, WorkflowAssumption DEF Node
  <2> QED
    BY <1>1, <2>1 DEF DesignOf, KindOf
<1> QED
  BY <1>2, StoredWalks DEF Save

LEMMA RemoveWalks == ASSUME IInv, PathInv, NEW w \in WorkflowId, Remove(w) PROVE PathInv'
<1>1. ASSUME NEW n \in Node PROVE n[1] # 0 /\ DesignOf(n)' = DesignOf(n) /\ KindOf(n)' = KindOf(n)
  BY WorkflowAssumption DEF Node, DesignOf, KindOf, Remove
<1> QED
  BY <1>1, StoredWalks DEF Remove

\* Between workflows nothing is on the way.
LEMMA BetweenWalks ==
  ASSUME IInv, PathInv, NEW r \in Request, Trigger(r) \/ ListWorkflows(r) \/ NextRecord(r) PROVE PathInv'
<1> DEFINE s == run[r]
<1>1. s \in RunRecord /\ Idle \in RunRecord
  BY DEF IInv, Idle, RunRecord, Event
<1>2. \E s1 : run' = [run EXCEPT ![r] = s1] /\ s1.pc \notin Running
  <2>1. CASE Trigger(r)
    <3>1. PICK event, objs : run' = [run EXCEPT ![r] = [Idle EXCEPT !.pc = "list", !.event = event, !.queue = objs]]
      BY <2>1 DEF Trigger
    <3>2. [Idle EXCEPT !.pc = "list", !.event = event, !.queue = objs].pc = "list"
      BY <1>1 DEF RunRecord
    <3> QED
      BY <3>1, <3>2 DEF Running
  <2>2. CASE ListWorkflows(r)
    <3>1. PICK todo : run' = [run EXCEPT ![r].pc = "pick", ![r].todo = todo]
      BY <2>2 DEF ListWorkflows
    <3>2. run' = [run EXCEPT ![r] = [s EXCEPT !.pc = "pick", !.todo = todo]]
      BY <3>1 DEF IInv
    <3>3. [s EXCEPT !.pc = "pick", !.todo = todo].pc = "pick"
      BY <1>1 DEF RunRecord
    <3> QED
      BY <3>2, <3>3 DEF Running
  <2>3. CASE NextRecord(r)
    <3> DEFINE s1 == [s EXCEPT !.queue = Tail(s.queue), !.workflow = NoWorkflow, !.visited = {}, !.acted = <<>>,
                               !.pc = IF Len(s.queue) > 1 THEN "list" ELSE "done"]
    <3>1. run' = [run EXCEPT ![r] = s1]
      BY <2>3 DEF NextRecord
    <3>2. s1.pc \in {"list", "done"}
      BY <1>1 DEF RunRecord
    <3> QED
      BY <3>1, <3>2 DEF Running
  <2> QED
    BY <2>1, <2>2, <2>3
<1>3. UNCHANGED <<current, saved>>
  BY DEF Trigger, ListWorkflows, NextRecord
<1> QED
  BY <1>2, <1>3, NothingWalked, OneWalk

LEMMA PickWalks == ASSUME IInv, PathInv, NEW r \in Request, NEW w \in WorkflowId, PickWorkflow(r, w) PROVE PathInv'
<1> DEFINE s == run[r]
<1>1. s \in RunRecord /\ s.pc = "pick" /\ UNCHANGED <<current, saved>>
  BY DEF IInv, PickWorkflow
<1>2. CASE run' = [run EXCEPT ![r].todo = @ \ {w}]
  <2> DEFINE s1 == [s EXCEPT !.todo = s.todo \ {w}]
  <2>1. run' = [run EXCEPT ![r] = s1] /\ s1.pc = "pick"
    BY <1>1, <1>2 DEF IInv, RunRecord
  <2> HIDE DEF s1
  <2>2. Walked(s1)
    BY <2>1, NothingWalked DEF Running
  <2> QED
    BY <1>1, <2>1, <2>2, OneWalk
<1>3. ASSUME NEW p,
             run' = [run EXCEPT ![r] = [run[r] EXCEPT !.pc = "visit", !.todo = @ \ {w}, !.workflow = w,
                                             !.next = <<current[w], p>>, !.visited = {}, !.acted = <<>>]]
      PROVE  PathInv'
  <2> DEFINE s1 == [s EXCEPT !.pc = "visit", !.todo = @ \ {w}, !.workflow = w,
                                             !.next = <<current[w], p>>, !.visited = {}, !.acted = <<>>]
  <2>1. run' = [run EXCEPT ![r] = s1] /\ s1.workflow = w /\ s1.visited = {}
    BY <1>1, <1>3 DEF RunRecord
  <2> HIDE DEF s1
  <2>2. Walked(s1)
    BY <2>1, NothingWalked
  <2> QED
    BY <1>1, <2>1, <2>2, OneWalk
<1> QED
  BY <1>2, <1>3 DEF PickWorkflow

\* At a node: it was seen before, or is now and its edges are next, or the run ends here.
LEMMA VisitWalks == ASSUME IInv, PathInv, NEW r \in Request, Visit(r) PROVE PathInv'
<1> DEFINE s == run[r]
           n == s.next
           v == s.visited \cup {n}
           back == [s EXCEPT !.pc = "next", !.next = NoNode]
           seen == [s EXCEPT !.visited = v, !.pc = "edges"]
           acted == [seen EXCEPT !.acted = Append(s.acted, n)]
<1>1. s \in RunRecord /\ Walked(s) /\ s.pc = "visit" /\ UNCHANGED <<current, saved>>
  BY DEF IInv, PathInv, Visit
<1>2. \E x : /\ run' = [run EXCEPT ![r] = x]
             /\ \/ x \in {Abandoned(s), Abandoned(acted), Deferred(acted), seen, acted}
                \/ x = back /\ n \in s.visited
  <2>1. acted = [[s EXCEPT !.visited = @ \cup {n}, !.pc = "edges"] EXCEPT !.acted = Append(@, n)]
    BY <1>1 DEF RunRecord
  <2> QED
    BY <2>1 DEF Visit, Path
<1>3. \A x \in {Abandoned(s), Abandoned(acted), Deferred(acted)} : x.pc \notin Running
  BY <1>1 DEF RunRecord, Abandoned, Deferred, Running
<1>4. /\ back.pc = "next" /\ back.visited = s.visited /\ back.stack = s.stack
      /\ back.workflow = s.workflow /\ back.queue = s.queue
  BY <1>1 DEF RunRecord
<1>5. \A x \in {seen, acted} : /\ x.pc = "edges" /\ x.visited = v /\ x.stack = s.stack /\ x.next = n
                               /\ x.workflow = s.workflow /\ x.queue = s.queue
  BY <1>1 DEF RunRecord
<1> HIDE DEF back, seen, acted
<1>6. n \in s.visited => Walked(back)
  BY <1>1, <1>4, WalksOn DEF Running, Ahead
<1>7. ASSUME NEW x \in {seen, acted} PROVE Walked(x)
  <2>1. \A m \in Node : Ahead(s, m) => Ahead(x, m)
    BY <1>1, <1>5 DEF Ahead
  <2> QED
    BY <1>1, <1>5, <2>1, WalksOn DEF Running
<1>8. \A x \in {Abandoned(s), Abandoned(acted), Deferred(acted)} : Walked(x)
  BY <1>3, NothingWalked
<1> QED
  BY <1>1, <1>2, <1>6, <1>7, <1>8, OneWalk

\* The edges the record may take are those that are read, while the workflow is there.
LEMMA TargetsAreDue ==
  ASSUME IInv, NEW m \in Node, NEW n \in Node, NEW q, Exists(m), Edge(q, m, n),
         NEW handles, handles = IF KindOf(m) = "Decision" THEN Branch(Head(q), m) ELSE Handle,
         m[1] <= Len(saved)
  PROVE  n \in Targets(m, handles)
<1>1. PICK e \in DesignOf(m).edges :
        /\ <<m[1], e[1]>> = m /\ <<m[1], e[3]>> = n
        /\ KindOf(m) = "Decision" => e[2] = (IF Head(q) \in DesignOf(m).when[m[2]] THEN "plain" ELSE "no")
  BY DEF Edge
<1>2. DesignOf(m) \in Design
  <2>1. m[1] \in 1..Len(saved)
    BY WorkflowAssumption DEF Node, IInv, StoreOK
  <2> QED
    BY <2>1 DEF DesignOf, IInv, StoreOK
<1>3. e[2] \in Handle
  BY <1>1, <1>2, WorkflowAssumption
<1>4. e[1] = m[2]
  BY <1>1
<1>5. e[2] \in handles
  BY <1>1, <1>3 DEF Branch, Meets
<1> QED
  BY <1>1, <1>4, <1>5 DEF Targets

\* The edges of a node are put on the path.
LEMMA FetchEdgesWalks == ASSUME IInv, PathInv, NEW r \in Request, FetchEdges(r) PROVE PathInv'
<1> DEFINE s == run[r]
           n == s.next
           found == IF KindOf(n) = "Decision" THEN Targets(n, Branch(Obj(r), n)) ELSE Targets(n, Handle)
<1>1. s \in RunRecord /\ RunInv(s) /\ Walked(s) /\ s.pc = "edges" /\ UNCHANGED <<current, saved>>
  BY DEF IInv, PathInv, FetchEdges
<1>2. n \in Node /\ n \in s.visited /\ n[1] <= Len(saved)
  BY <1>1 DEF RunInv, Placed, RunRecord, OneSaving
<1>3. PICK to \in IF KindOf(n) = "Decision" /\ found # {} THEN {{t} : t \in found} ELSE {found} :
        run' = [run EXCEPT ![r] = [run[r] EXCEPT !.pc = "next", !.next = NoNode,
                                    !.stack = Append(@, [node |-> n, to |-> to])]]
  BY DEF FetchEdges
<1> DEFINE f == [node |-> n, to |-> to]
           st == Append(s.stack, f)
           s1 == [s EXCEPT !.pc = "next", !.next = NoNode, !.stack = st]
<1>4. run' = [run EXCEPT ![r] = s1]
  BY <1>1, <1>3 DEF RunRecord
<1>5. /\ s1.pc = "next" /\ s1.stack = st /\ s1.visited = s.visited
      /\ s1.workflow = s.workflow /\ s1.queue = s.queue
  BY <1>1 DEF RunRecord
<1>6. /\ \A i \in DOMAIN s.stack : i \in DOMAIN st /\ st[i] = s.stack[i]
      /\ \E i \in DOMAIN st : st[i] = f
  <2> DEFINE k == Len(s.stack)
  <2>1. s.stack \in Seq(Frame) /\ k \in Nat
    BY <1>1 DEF RunRecord
  <2> HIDE DEF f
  <2>2. DOMAIN st = 1..(k + 1) /\ DOMAIN s.stack = 1..k /\ st[k + 1] = f /\ \A i \in 1..k : st[i] = s.stack[i]
    BY <2>1
  <2> HIDE DEF k, st
  <2> QED
    BY <2>1, <2>2
<1>7. f.to = to
  OBVIOUS
<1> HIDE DEF s1, st, f
<1>8. ASSUME Undisturbed(s1) PROVE Followed(s1, n)
  <2>1. s.workflow \in WorkflowId /\ current[s.workflow] = n[1]
    BY <1>1, <1>2, <1>5, <1>8 DEF Walked, Running, Undisturbed
  <2>2. Exists(n)
    BY <2>1 DEF Exists
  <2>3. \A t \in to : Ahead(s1, t)
    BY <1>5, <1>6, <1>7 DEF Ahead
  <2>4. ASSUME NEW t \in Node, Edge(s.queue, n, t) PROVE t \in found
    BY <1>2, <2>2, <2>4, TargetsAreDue DEF Obj
  <2>5. CASE KindOf(n) = "Decision"
    <3>1. CASE found = {}
      BY <1>5, <2>4, <2>5, <3>1 DEF Followed
    <3>2. CASE found # {}
      <4>1. PICK t \in found : to = {t}
        BY <1>3, <2>5, <3>2
      <4>2. t \in Node /\ Edge(s.queue, n, t)
        <5>1. Branch(Obj(r), n) \in SUBSET Handle /\ Obj(r) = Head(s.queue)
          BY DEF Branch, Handle, Obj
        <5> QED
          BY <1>2, <2>5, <4>1, <5>1, TargetsAreEdges
      <4> QED
        BY <1>5, <2>3, <2>5, <4>1, <4>2 DEF Followed
    <3> QED
      BY <3>1, <3>2
  <2>6. CASE KindOf(n) # "Decision"
    BY <1>3, <1>5, <2>3, <2>4, <2>6 DEF Followed
  <2> QED
    BY <2>5, <2>6
<1>9. \A m \in Node : Ahead(s, m) => Ahead(s1, m)
  BY <1>1, <1>5, <1>6 DEF Ahead
<1>10. Walked(s1)
  BY <1>1, <1>5, <1>8, <1>9, WalksOn DEF Running
<1> QED
  BY <1>1, <1>4, <1>10, OneWalk

\* The edge followed leads to a node that is there, while the workflow is.
LEMMA FollowWalks == ASSUME IInv, PathInv, NEW r \in Request, NEW t \in Node, Follow(r, t) PROVE PathInv'
<1> DEFINE s == run[r]
           k == Len(s.stack)
           f == [node |-> s.stack[k].node, to |-> s.stack[k].to \ {t}]
           st == [s.stack EXCEPT ![k] = f]
           s0 == [s EXCEPT !.stack = st]
           s1 == [s0 EXCEPT !.pc = "visit", !.next = t]
<1>1. s \in RunRecord /\ RunInv(s) /\ Walked(s) /\ s.pc = "next" /\ UNCHANGED <<current, saved>>
      /\ s.stack # <<>> /\ t \in s.stack[k].to
  BY DEF IInv, PathInv, Follow, Path, Top
<1>2. s.stack \in Seq(Frame) /\ k \in DOMAIN s.stack /\ s.stack[k] \in Frame
  BY <1>1 DEF RunRecord
<1>3. run' = [run EXCEPT ![r] = IF Exists(t) THEN s1 ELSE s0]
  <2>1. s0 = [s EXCEPT !.stack = With(@, Top(r).to \ {t})]
    BY <1>1 DEF With, Top, Path, RunRecord
  <2> HIDE DEF s0
  <2> QED
    BY <2>1 DEF Follow
<1>4. \A i \in DOMAIN s.stack : \A u : u \in s.stack[i].to => u = t \/ (i \in DOMAIN st /\ u \in st[i].to)
  BY <1>2
<1>5. /\ s0.pc = "next" /\ s0.stack = st /\ s0.visited = s.visited
      /\ s0.workflow = s.workflow /\ s0.queue = s.queue
  BY <1>1 DEF RunRecord
<1> HIDE DEF st
<1>6. /\ s1.pc = "visit" /\ s1.next = t /\ s1.stack = st /\ s1.visited = s.visited
      /\ s1.workflow = s.workflow /\ s1.queue = s.queue
  BY <1>1 DEF RunRecord
<1> HIDE DEF s0, s1
<1>7. Walked(s1)
  <2>1. \A m \in Node : Ahead(s, m) => Ahead(s1, m)
    BY <1>1, <1>4, <1>6 DEF Ahead
  <2> QED
    BY <1>1, <1>6, <2>1, WalksOn DEF Running
<1>8. CASE ~Exists(t)
  <2>1. ~Undisturbed(s0)
    <3>1. s.stack[k].node \in s.visited /\ Edge(s.queue, s.stack[k].node, t)
      BY <1>1, <1>2 DEF RunInv, AlongEdges
    <3>2. t[1] = s.stack[k].node[1]
      BY <3>1 DEF Edge
    <3> QED
      BY <1>1, <1>5, <1>8, <3>1, <3>2 DEF Undisturbed, Exists, Walked, Running
  <2>2. Walked(s0)
    BY <1>1, <1>5, <2>1 DEF Walked, Running
  <2> QED
    BY <1>1, <1>3, <1>8, <2>2, OneWalk
<1>9. CASE Exists(t)
  BY <1>1, <1>3, <1>7, <1>9, OneWalk
<1> QED
  BY <1>8, <1>9

\* traverse_node returns when it has no edge left to follow.
LEMMA ReturnWalks == ASSUME IInv, PathInv, NEW r \in Request, Return(r) PROVE PathInv'
<1> DEFINE s == run[r]
           k == Len(s.stack)
           st == Pop(s.stack)
           l == IF k = 1 THEN "pick" ELSE "next"
           s1 == [s EXCEPT !.stack = st, !.pc = l]
<1>1. /\ s \in RunRecord /\ Walked(s) /\ s.pc = "next" /\ UNCHANGED <<current, saved>>
      /\ s.stack # <<>> /\ s.stack[k].to = {}
  BY DEF IInv, PathInv, Return, Path, Top
<1>2. run' = [run EXCEPT ![r] = s1]
  BY DEF Return, Path
<1>3. \A i \in DOMAIN s.stack : i = k \/ (i \in DOMAIN st /\ st[i] = s.stack[i])
  BY <1>1 DEF RunRecord, Pop
<1> HIDE DEF st
<1>4. s1.pc = l /\ s1.stack = st /\ s1.visited = s.visited /\ s1.workflow = s.workflow /\ s1.queue = s.queue
  BY <1>1 DEF RunRecord
<1> HIDE DEF s1
<1>5. Walked(s1)
  <2>1. \A m \in Node : Ahead(s, m) => Ahead(s1, m)
    BY <1>1, <1>3, <1>4 DEF Ahead
  <2> QED
    BY <1>1, <1>4, <2>1, WalksOn DEF Running
<1> QED
  BY <1>1, <1>2, <1>5, OneWalk

\* Every step keeps what the path has to remember.
LEMMA PathNext == IInv /\ PathInv /\ [Next]_vars => PathInv'
<1> SUFFICES ASSUME IInv, PathInv, [Next]_vars PROVE PathInv'
  OBVIOUS
<1>1. CASE UNCHANGED vars
  <2>1. \A m : DesignOf(m)' = DesignOf(m) /\ KindOf(m)' = KindOf(m)
    BY <1>1 DEF vars, DesignOf, KindOf
  <2>2. \A r \in Request : run[r]' = run[r] /\ (Undisturbed(run[r])' <=> Undisturbed(run[r]))
    BY <1>1 DEF vars, Undisturbed
  <2>3. \A r \in Request : \A m : Followed(run[r], m)' <=> Followed(run[r], m)
    BY <2>1, <2>2 DEF Followed, Edge, Ahead, Node
  <2> QED
    BY <2>2, <2>3 DEF PathInv, Walked
<1>2. CASE \E w \in WorkflowId, d \in Design : Save(w, d)
  BY <1>2, SaveWalks
<1>3. CASE \E w \in WorkflowId : Remove(w)
  BY <1>3, RemoveWalks
<1>4. ASSUME NEW r \in Request, Trigger(r) \/ Execute(r) PROVE PathInv'
  BY <1>4, BetweenWalks, VisitWalks, FetchEdgesWalks, ReturnWalks, PickWalks, FollowWalks DEF Execute
<1> QED
  BY <1>1, <1>2, <1>3, <1>4 DEF Next

\* A run ends with the return of its Start node, when nothing is on the path.
LEMMA EndIsComplete ==
  ASSUME IInv, PathInv, NEW r \in Request, Return(r), EndOfRun(r), Undisturbed(run[r])
  PROVE  Complete(run[r])
<1> DEFINE s == run[r]
           k == Len(s.stack)
<1>1. /\ s \in RunRecord /\ RunInv(s) /\ Walked(s) /\ s.pc = "next" /\ s.stack # <<>> /\ s.stack[k].to = {}
  BY DEF IInv, PathInv, Return, Path, Top
<1>2. k = 1
  <2>1. run' = [run EXCEPT ![r] = [s EXCEPT !.stack = Pop(@), !.pc = IF k = 1 THEN "pick" ELSE "next"]]
    BY DEF Return, Path
  <2>2. run'[r].pc = IF k = 1 THEN "pick" ELSE "next"
    BY <1>1, <2>1 DEF IInv, RunRecord
  <2> QED
    BY <2>2 DEF EndOfRun
<1>3. \A t \in Node : Ahead(s, t) => t \in s.visited
  <2>1. DOMAIN s.stack = {1}
    BY <1>1, <1>2 DEF RunRecord
  <2> QED
    BY <1>1, <1>2, <2>1 DEF Ahead
<1>4. ASSUME NEW m \in s.visited PROVE Followed(s, m)
  BY <1>1 DEF Walked, Running
<1>5. ASSUME NEW m \in s.visited PROVE m \in Node /\ m = <<m[1], m[2]>> /\ DesignOf(m) \in Design
  <2>1. m \in Node /\ m[1] <= Len(saved)
    BY <1>1 DEF RunRecord, RunInv, OneSaving
  <2>2. m[1] \in 1..Len(saved)
    BY <2>1, WorkflowAssumption DEF Node, IInv, StoreOK
  <2> QED
    BY <2>1, <2>2 DEF Node, DesignOf, IInv, StoreOK
<1>6. ASSUME NEW m \in s.visited, NEW e \in DesignOf(m).edges, e[1] = m[2],
             KindOf(m) = "Decision" => e[2] = (IF Head(s.queue) \in DesignOf(m).when[m[2]] THEN "plain" ELSE "no")
      PROVE  <<m[1], e[3]>> \in Node /\ Edge(s.queue, m, <<m[1], e[3]>>)
  <2>1. e[3] \in Place
    BY <1>5, WorkflowAssumption
  <2> QED
    BY <1>5, <1>6, <2>1 DEF Edge, Node
<1>7. ASSUME NEW m \in s.visited, KindOf(m) # "Decision", NEW e \in DesignOf(m).edges, e[1] = m[2]
      PROVE  <<m[1], e[3]>> \in s.visited
  BY <1>3, <1>4, <1>6, <1>7 DEF Followed
<1>8. ASSUME NEW m \in s.visited, KindOf(m) = "Decision", NEW e \in DesignOf(m).edges, e[1] = m[2],
             e[2] = (IF Head(s.queue) \in DesignOf(m).when[m[2]] THEN "plain" ELSE "no")
      PROVE  \E d \in DesignOf(m).edges : /\ d[1] = m[2] /\ <<m[1], d[3]>> \in s.visited
                                          /\ d[2] = (IF Head(s.queue) \in DesignOf(m).when[m[2]] THEN "plain" ELSE "no")
  <2>1. PICK t \in Node : Edge(s.queue, m, t) /\ t \in s.visited
    BY <1>3, <1>4, <1>6, <1>8 DEF Followed
  <2>2. PICK d \in DesignOf(m).edges :
          /\ <<m[1], d[1]>> = m /\ <<m[1], d[3]>> = t
          /\ d[2] = (IF Head(s.queue) \in DesignOf(m).when[m[2]] THEN "plain" ELSE "no")
    BY <1>8, <2>1 DEF Edge
  <2>3. d[1] = m[2]
    BY <2>2
  <2> QED
    BY <2>1, <2>2, <2>3
<1> QED
  BY <1>7, <1>8 DEF Complete

\* Only the return at the Start node ends a run in this way.
LEMMA EndStep == IInv /\ PathInv /\ [Next]_vars =>
  [\A r \in Request : EndOfRun(r) => \/ \E n \in run[r].visited : current[run[r].workflow] # n[1]
                                     \/ Complete(run[r])]_vars
<1> SUFFICES ASSUME IInv, PathInv, [Next]_vars, NEW r \in Request, EndOfRun(r), Undisturbed(run[r])
             PROVE  Complete(run[r])
  BY DEF Undisturbed
<1>1. run[r].pc = "next" /\ run'[r].pc = "pick"
  BY DEF EndOfRun
<1>2. Next
  BY <1>1 DEF vars
<1>3. PICK q \in Request : Trigger(q) \/ Execute(q)
  BY <1>1, <1>2 DEF Next, Save, Remove
<1>4. q = r
  <2>1. ASSUME q # r PROVE run'[r] = run[r]
    BY <1>3, <2>1 DEF IInv, Execute, Trigger, ListWorkflows, NextRecord, Visit, FetchEdges, Return, PickWorkflow, Follow
  <2> QED
    BY <1>1, <2>1
<1>5. ASSUME NEW t \in Node PROVE ~Follow(r, t)
  <2> SUFFICES ASSUME Follow(r, t) PROVE FALSE
    OBVIOUS
  <2>1. PICK st : LET s == [run[r] EXCEPT !.stack = st] IN
           run' = [run EXCEPT ![r] = IF Exists(t) THEN [s EXCEPT !.pc = "visit", !.next = t] ELSE s]
    BY DEF Follow
  <2>2. run[r] \in RunRecord
    BY DEF IInv
  <2> QED
    BY <1>1, <2>1, <2>2 DEF IInv, RunRecord
<1>6. Return(r)
  BY <1>1, <1>3, <1>4, <1>5 DEF Execute, Trigger, ListWorkflows, NextRecord, Visit, FetchEdges, PickWorkflow
<1> QED
  BY <1>6, EndIsComplete

LEMMA PathInit == Init => PathInv
BY NothingWalked DEF Init, PathInv, Idle, Running

\* When a workflow has run to its end for a record, undisturbed since its start was
\* read, it has visited every node that the edges the record may take lead to.
THEOREM UndisturbedRunsComplete == Spec => UndisturbedRunsAreComplete
<1>1. Spec => []PathInv
  BY PathInit, PathNext, Invariance, PTL DEF Spec
<1> QED
  BY <1>1, EndStep, Invariance, PTL DEF Spec, UndisturbedRunsAreComplete
=============================================================================
