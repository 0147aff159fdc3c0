------------------------------ MODULE DeskProofs ------------------------------
(* Theorems about the parts of MCDesk, for any values of their constants.   *)
EXTENDS MCDesk, FiniteSetTheorems, SequenceTheorems, TLAPS

\* A step is one of the part that behaves, which stays the same.
LEMMA OnePart ==
  ASSUME [Next]_vars
  PROVE  /\ service' = service
         /\ service = "page" => [Page!Next]_pageVars
         /\ service = "group" => [Groups!Next]_groupVars
         /\ service = "lead" => [Leads!Next]_leadVars
         /\ service = "field" => [Fields!Next]_fieldVars
         /\ service = "object" => [Objects!Next]_objectVars
         /\ service = "report" => [Answer!Next]_reportVars
         /\ service = "export" => [Export!Next]_exportVars
         /\ service = "name" => [Names!Next]_nameVars
BY DEF Next, vars

LEMMA OnePartAtFirst ==
  ASSUME Init
  PROVE  /\ service = "page" => Page!Init
         /\ service = "group" => Groups!Init
         /\ service = "lead" => Leads!Init
         /\ service = "field" => Fields!Init
         /\ service = "object" => Objects!Init
         /\ service = "report" => Answer!Init
         /\ service = "export" => Export!Init
         /\ service = "name" => Names!Init
BY DEF Init

-----------------------------------------------------------------------------
\* Objects

Working(r) == objectRequest[r].step # "idle" /\ objectRequest[r].op # "profile"
Making(r) == objectRequest[r].step = "commit" /\ objectRequest[r].op = "create"
Deleting(r) == objectRequest[r].step = "commit" /\ objectRequest[r].op = "delete"
Copying(r) == objectRequest[r].step = "commit" /\ objectRequest[r].op = "profile"

\* The ids of objects, of those that are being made and of those that are being deleted.
IdsApart ==
  /\ \A o \in DOMAIN objects : objects[o] \in 1..objectMade
  /\ \A o, p \in DOMAIN objects : objects[o] = objects[p] => o = p
  /\ \A r \in Request : Making(r) =>
       objectRequest[r].id \in 1..objectMade /\ \A o \in DOMAIN objects : objects[o] # objectRequest[r].id
  /\ \A r \in Request : Deleting(r) =>
       /\ objectRequest[r].id \in 1..objectMade
       /\ \A o \in DOMAIN objects : objects[o] = objectRequest[r].id => o = objectRequest[r].name
  /\ \A q, r \in Request : q # r /\ Making(q) /\ (Making(r) \/ Deleting(r)) =>
       objectRequest[q].id # objectRequest[r].id

\* A name that one request at a time works on: what is deleted is what is there.
NamesCrossed ==
  /\ \A q, r \in Request : q # r /\ Working(q) /\ Working(r) /\ objectRequest[q].name = objectRequest[r].name
       => objectRequest[q].name \in objectCrossed
  /\ \A r \in Request : Deleting(r) /\ objectRequest[r].name \notin objectCrossed =>
       objectRequest[r].name \in DOMAIN objects /\ objects[objectRequest[r].name] = objectRequest[r].id
  /\ \A r \in Request : objectRequest[r].step = "insert" => objectRequest[r].op = "create"

\* What objects and profiles that are being made will lack was noted.
MissedNoted ==
  /\ \A r \in Request : Making(r) =>
       \A p \in profiles : p \in objectRequest[r].seen \/ <<objectRequest[r].id, p>> \in missed
  /\ \A q, r \in Request : Copying(q) /\ Making(r) => <<objectRequest[r].id, objectRequest[q].profile>> \in missed
  /\ \A q \in Request : Copying(q) =>
       \A o \in DOMAIN objects : \/ objects[o] \in objectRequest[q].copied
                                 \/ <<objects[o], objectRequest[q].profile>> \in missed

GrantsNoted == \A o \in DOMAIN objects, p \in profiles : <<objects[o], p>> \in grants \cup missed

ObjectsInv ==
  Objects!TypeOK /\ IdsApart /\ NamesCrossed /\ MissedNoted /\ GrantsNoted /\ Objects!ObjectsAreWhole

LEMMA ObjectIdle == Objects!Idle \in Objects!ObjectChange /\ Objects!Idle.step = "idle"
<1>1. (CHOOSE o \in Object : TRUE) \in Object /\ (CHOOSE p \in Profile : TRUE) \in Profile /\ 0 \in 0..MaxIds
  BY DeskAssumption DEF Objects!ObjectsAssumption
<1> QED
  BY <1>1 DEF Objects!Idle, Objects!ObjectChange

LEMMA ObjectsAtFirst == Objects!Init => ObjectsInv
<1> SUFFICES ASSUME Objects!Init PROVE ObjectsInv
  OBVIOUS
<1>1. /\ objects = <<>> /\ tables = {} /\ profiles \subseteq Profile /\ grants = {}
      /\ tabs = [app \in {sales} |-> {}] /\ objectRequest = [r \in Request |-> Objects!Idle] /\ objectMade = 0
      /\ objectCrossed = {} /\ missed = {} /\ late = {} /\ DOMAIN objects = {}
  BY DEF Objects!Init
<1>2. objectRequest \in [Request -> Objects!ObjectChange] /\ \A r \in Request : objectRequest[r].step = "idle"
  BY <1>1, ObjectIdle
<1>3. Objects!TypeOK
  <2>1. 0 \in 0..MaxIds
    BY DeskAssumption DEF Objects!ObjectsAssumption
  <2> QED
    BY <1>1, <1>2, <2>1 DEF Objects!TypeOK
<1>4. IdsApart /\ NamesCrossed /\ MissedNoted /\ GrantsNoted
  BY <1>1, <1>2 DEF IdsApart, NamesCrossed, MissedNoted, GrantsNoted, Making, Deleting, Copying, Working
<1> QED
  BY <1>1, <1>3, <1>4 DEF ObjectsInv, Objects!ObjectsAreWhole

LEMMA ObjectKnown ==
  ASSUME ObjectsInv
  PROVE  /\ objectMade \in Nat /\ objectMade <= MaxIds /\ MaxIds \in Nat
         /\ objectRequest \in [Request -> Objects!ObjectChange]
         /\ \A r \in Request :
              /\ objectRequest[r].step \in {"idle", "insert", "commit"}
              /\ objectRequest[r].op \in {"create", "delete", "profile"}
              /\ objectRequest[r].name \in Object /\ objectRequest[r].id \in 0..MaxIds
              /\ objectRequest[r].seen \subseteq Profile /\ objectRequest[r].profile \in Profile
              /\ objectRequest[r].copied \subseteq Objects!Ids
BY DeskAssumption DEF ObjectsInv, Objects!TypeOK, Objects!ObjectsAssumption, Objects!ObjectChange

\* One request moves on.
LEMMA ObjectMoves ==
  ASSUME ObjectsInv, NEW r \in Request, NEW x \in Objects!ObjectChange, objectRequest' = [objectRequest EXCEPT ![r] = x]
  PROVE  /\ objectRequest' \in [Request -> Objects!ObjectChange] /\ objectRequest'[r] = x
         /\ \A q \in Request : q # r => objectRequest'[q] = objectRequest[q]
BY ObjectKnown

\* A request ends that changed nothing.
LEMMA ObjectEnds ==
  ASSUME ObjectsInv, NEW r \in Request, Objects!Done(r),
         UNCHANGED <<objects, tables, profiles, grants, tabs, objectMade, objectCrossed, missed, late>>
  PROVE  ObjectsInv'
<1>1. /\ objectRequest' \in [Request -> Objects!ObjectChange] /\ objectRequest'[r].step = "idle"
      /\ \A q \in Request : q # r => objectRequest'[q] = objectRequest[q]
  BY ObjectIdle, ObjectMoves DEF Objects!Done
<1>2. Objects!TypeOK' /\ Objects!ObjectsAreWhole' /\ GrantsNoted'
  BY <1>1 DEF ObjectsInv, Objects!TypeOK, Objects!ObjectsAreWhole, GrantsNoted
<1>3. IdsApart'
  BY <1>1 DEF ObjectsInv, IdsApart, Making, Deleting
<1>4. NamesCrossed'
  BY <1>1 DEF ObjectsInv, NamesCrossed, Working, Deleting
<1>5. MissedNoted'
  BY <1>1 DEF ObjectsInv, MissedNoted, Making, Copying
<1> QED
  BY <1>2, <1>3, <1>4, <1>5 DEF ObjectsInv

\* A name is asked for, or an object is about to be deleted: another request for it is noted.
LEMMA AskObjectKept == ASSUME ObjectsInv, NEW r \in Request, NEW o \in Object, Objects!AskObject(r, o) PROVE ObjectsInv'
<1> DEFINE x == [Objects!Idle EXCEPT !.step = "insert", !.name = o]
<1>1. /\ objectRequest' = [objectRequest EXCEPT ![r] = x] /\ Objects!Crosses(o)
      /\ UNCHANGED <<objects, tables, profiles, grants, tabs, objectMade, missed, late>>
  BY DEF Objects!AskObject, Objects!store
<1>2. x \in Objects!ObjectChange /\ x.step = "insert" /\ x.name = o /\ x.op = "create"
  BY ObjectIdle DEF Objects!ObjectChange, Objects!Idle
<1> HIDE DEF x
<1>3. /\ objectRequest' \in [Request -> Objects!ObjectChange] /\ objectRequest'[r] = x
      /\ \A q \in Request : q # r => objectRequest'[q] = objectRequest[q]
  BY <1>1, <1>2, ObjectMoves
<1>4. /\ objectCrossed \subseteq objectCrossed' /\ objectCrossed' \subseteq objectCrossed \cup {o}
      /\ \A q \in Request : Working(q) /\ objectRequest[q].name = o => o \in objectCrossed'
  BY <1>1 DEF Objects!Crosses, Objects!OpenOn, Objects!at, Working
<1>5. Objects!TypeOK' /\ GrantsNoted'
  BY <1>1, <1>3, <1>4 DEF ObjectsInv, Objects!TypeOK, GrantsNoted
<1>6. IdsApart'
  BY <1>1, <1>2, <1>3 DEF ObjectsInv, IdsApart, Making, Deleting
<1>7. NamesCrossed'
  BY <1>1, <1>2, <1>3, <1>4 DEF ObjectsInv, NamesCrossed, Working, Deleting
<1>8. MissedNoted'
  BY <1>1, <1>2, <1>3 DEF ObjectsInv, MissedNoted, Making, Copying
<1>9. Objects!ObjectsAreWhole'
  BY <1>1, <1>4 DEF ObjectsInv, Objects!ObjectsAreWhole
<1> QED
  BY <1>5, <1>6, <1>7, <1>8, <1>9 DEF ObjectsInv

LEMMA BeginDeleteKept == ASSUME ObjectsInv, NEW r \in Request, NEW o \in Object, Objects!BeginDelete(r, o) PROVE ObjectsInv'
<1> DEFINE x == [Objects!Idle EXCEPT !.step = "commit", !.op = "delete", !.name = o, !.id = objects[o]]
<1>1. /\ objectRequest' = [objectRequest EXCEPT ![r] = x] /\ Objects!Crosses(o) /\ o \in DOMAIN objects
      /\ UNCHANGED <<objects, tables, profiles, grants, tabs, objectMade, missed, late>>
  BY DEF Objects!BeginDelete, Objects!store
<1>2. objects[o] \in 1..objectMade /\ objects[o] \in 0..MaxIds
  BY <1>1, ObjectKnown DEF ObjectsInv, IdsApart
<1>3. x \in Objects!ObjectChange /\ x.step = "commit" /\ x.name = o /\ x.op = "delete" /\ x.id = objects[o]
  BY <1>2, ObjectIdle DEF Objects!ObjectChange
<1> HIDE DEF x
<1>4. /\ objectRequest' \in [Request -> Objects!ObjectChange] /\ objectRequest'[r] = x
      /\ \A q \in Request : q # r => objectRequest'[q] = objectRequest[q]
  BY <1>1, <1>3, ObjectMoves
<1>5. /\ objectCrossed \subseteq objectCrossed' /\ objectCrossed' \subseteq objectCrossed \cup {o}
      /\ \A q \in Request : Working(q) /\ objectRequest[q].name = o => o \in objectCrossed'
  BY <1>1 DEF Objects!Crosses, Objects!OpenOn, Objects!at, Working
<1>6. Objects!TypeOK' /\ GrantsNoted'
  BY <1>1, <1>4, <1>5 DEF ObjectsInv, Objects!TypeOK, GrantsNoted
<1>7. IdsApart'
  BY <1>1, <1>2, <1>3, <1>4 DEF ObjectsInv, IdsApart, Making, Deleting
<1>8. NamesCrossed'
  BY <1>1, <1>3, <1>4, <1>5 DEF ObjectsInv, NamesCrossed, Working, Deleting
<1>9. MissedNoted'
  BY <1>1, <1>3, <1>4 DEF ObjectsInv, MissedNoted, Making, Copying
<1>10. Objects!ObjectsAreWhole'
  BY <1>1, <1>5 DEF ObjectsInv, Objects!ObjectsAreWhole
<1> QED
  BY <1>6, <1>7, <1>8, <1>9, <1>10 DEF ObjectsInv

\* The row is inserted, with an id of its own, and the profiles were read.
LEMMA InsertObjectKept == ASSUME ObjectsInv, NEW r \in Request, Objects!InsertObject(r) PROVE ObjectsInv'
<1> DEFINE x == [objectRequest[r] EXCEPT !.step = "commit", !.id = objectMade + 1, !.seen = profiles]
           k == objectMade + 1
<1>1. /\ objectRequest' = [objectRequest EXCEPT ![r] = x] /\ objectRequest[r].step = "insert"
      /\ objectMade < MaxIds /\ objectMade' = k
      /\ missed' = missed \cup {<<k, objectRequest[q].profile>> : q \in Objects!Copying}
      /\ UNCHANGED <<objects, tables, profiles, grants, tabs, objectCrossed, late>>
  BY DEF Objects!InsertObject, Objects!store, Objects!at, Objects!Snapshot
<1>2. k \in 1..MaxIds /\ k \in 0..MaxIds /\ k \in Nat /\ k = objectMade + 1
  BY <1>1, ObjectKnown
<1>3. /\ x \in Objects!ObjectChange /\ x.step = "commit" /\ x.op = "create" /\ x.id = k /\ x.seen = profiles
      /\ x.name = objectRequest[r].name
  <2>1. profiles \subseteq Profile /\ objectRequest[r] \in Objects!ObjectChange /\ objectRequest[r].op = "create"
    BY <1>1 DEF ObjectsInv, Objects!TypeOK, NamesCrossed
  <2> QED
    BY <1>2, <2>1 DEF Objects!ObjectChange
<1> HIDE DEF x
<1>4. /\ objectRequest' \in [Request -> Objects!ObjectChange] /\ objectRequest'[r] = x
      /\ \A q \in Request : q # r => objectRequest'[q] = objectRequest[q]
  BY <1>1, <1>3, ObjectMoves
<1>5. missed \subseteq missed' /\ missed' \subseteq Objects!Ids \X Profile
      /\ \A q \in Request : Copying(q) => <<k, objectRequest[q].profile>> \in missed'
  BY <1>1, <1>2, ObjectKnown DEF ObjectsInv, Objects!TypeOK, Objects!Ids, Objects!Copying, Objects!at, Copying
<1>6. \A i \in 1..objectMade : i \in 1..k /\ i # k
  BY <1>2, ObjectKnown
<1> HIDE DEF k
<1>7. Objects!TypeOK'
  <2>1. objectMade' \in 0..MaxIds
    BY <1>1, <1>2
  <2> QED
    BY <1>1, <1>4, <1>5, <2>1 DEF ObjectsInv, Objects!TypeOK
<1>8. IdsApart'
  <2>1. k \in 1..k
    BY <1>2
  <2> QED
    BY <1>1, <1>3, <1>4, <1>6, <2>1 DEF ObjectsInv, IdsApart, Making, Deleting
<1>9. NamesCrossed'
  BY <1>1, <1>3, <1>4 DEF ObjectsInv, NamesCrossed, Working, Deleting
<1>10. MissedNoted' /\ GrantsNoted'
  BY <1>1, <1>3, <1>4, <1>5 DEF ObjectsInv, MissedNoted, GrantsNoted, Making, Copying
<1>11. Objects!ObjectsAreWhole'
  BY <1>1 DEF ObjectsInv, Objects!ObjectsAreWhole
<1> QED
  BY <1>7, <1>8, <1>9, <1>10, <1>11 DEF ObjectsInv

\* The object appears, with its table, its permissions and its tab.
LEMMA CreateObjectKept == ASSUME ObjectsInv, NEW r \in Request, Objects!CreateObject(r) PROVE ObjectsInv'
<1> DEFINE o == objectRequest[r].name
           k == objectRequest[r].id
           S == objectRequest[r].seen
<1>1. /\ Making(r) /\ Objects!Done(r)
      /\ objects' = [n \in DOMAIN objects \cup {o} |-> IF n = o THEN k ELSE objects[n]]
      /\ tables' = tables \cup {o} /\ grants' = grants \cup {k} \X S
      /\ tabs' = [tabs EXCEPT ![sales] = @ \cup {o}] /\ late' = late \ {o}
      /\ UNCHANGED <<profiles, objectMade, objectCrossed, missed>>
  BY DEF Objects!CreateObject, Objects!at, Making
<1>2. /\ o \in Object /\ k \in 1..objectMade /\ k \in Objects!Ids /\ S \subseteq Profile
      /\ \A n \in DOMAIN objects : objects[n] # k
  <2>1. k \in 1..objectMade /\ \A n \in DOMAIN objects : objects[n] # k
    BY <1>1 DEF ObjectsInv, IdsApart
  <2> QED
    BY <2>1, ObjectKnown DEF Objects!Ids
<1>3. /\ objectRequest' \in [Request -> Objects!ObjectChange] /\ objectRequest'[r].step = "idle"
      /\ \A q \in Request : q # r => objectRequest'[q] = objectRequest[q]
  BY <1>1, ObjectIdle, ObjectMoves DEF Objects!Done
<1>4. Working(r)
  BY <1>1 DEF Working, Making
<1>5. \A q \in Request : q # r /\ Working(q) /\ objectRequest[q].name = o => o \in objectCrossed
  BY <1>4 DEF ObjectsInv, NamesCrossed
<1>6. \A q \in Request : q # r /\ (Making(q) \/ Deleting(q)) => objectRequest[q].id # k
  BY <1>1 DEF ObjectsInv, IdsApart
<1>7. \A p \in profiles : p \in S \/ <<k, p>> \in missed
  BY <1>1 DEF ObjectsInv, MissedNoted
<1>8. \A q \in Request : Copying(q) => <<k, objectRequest[q].profile>> \in missed
  BY <1>1 DEF ObjectsInv, MissedNoted
<1> HIDE DEF o, k, S
<1>9. /\ DOMAIN objects' = DOMAIN objects \cup {o} /\ objects'[o] = k
      /\ \A n \in DOMAIN objects : n # o => objects'[n] = objects[n]
  BY <1>1
<1>10. grants' \subseteq Objects!Ids \X Profile /\ grants \subseteq grants' /\ \A p \in S : <<k, p>> \in grants'
  BY <1>1, <1>2 DEF ObjectsInv, Objects!TypeOK
<1>11. DOMAIN tabs' = DOMAIN tabs /\ \A app \in DOMAIN tabs : tabs'[app] = tabs[app] \/ tabs'[app] = tabs[app] \cup {o}
  BY <1>1
<1>12. Objects!TypeOK'
  <2>1. DOMAIN objects' \subseteq Object /\ \A n \in DOMAIN objects' : objects'[n] \in Objects!Ids
    BY <1>2, <1>9 DEF ObjectsInv, Objects!TypeOK
  <2>2. DOMAIN tabs' \subseteq App \cup {sales} /\ \A app \in DOMAIN tabs' : tabs'[app] \subseteq Object
    BY <1>2, <1>11 DEF ObjectsInv, Objects!TypeOK
  <2>3. tables' \subseteq Object /\ (objectCrossed \cup late)' \subseteq Object
    BY <1>1, <1>2 DEF ObjectsInv, Objects!TypeOK
  <2> QED
    BY <1>1, <1>3, <1>10, <2>1, <2>2, <2>3 DEF ObjectsInv, Objects!TypeOK
<1>13. IdsApart'
  BY <1>1, <1>2, <1>3, <1>6, <1>9 DEF ObjectsInv, IdsApart, Making, Deleting
<1>14. NamesCrossed'
  <2>1. \A q \in Request : Deleting(q)' => q # r /\ Deleting(q) /\ Working(q)
    BY <1>3 DEF Deleting, Working
  <2>2. \A q \in Request : Deleting(q)' /\ objectRequest'[q].name \notin objectCrossed' =>
          objectRequest'[q].name \in DOMAIN objects' /\ objects'[objectRequest'[q].name] = objectRequest'[q].id
    BY <1>1, <1>3, <1>5, <1>9, <2>1 DEF ObjectsInv, NamesCrossed
  <2>3. \A q, s \in Request : q # s /\ Working(q)' /\ Working(s)' /\ objectRequest'[q].name = objectRequest'[s].name
          => objectRequest'[q].name \in objectCrossed'
    <3>1. \A q \in Request : Working(q)' => q # r /\ Working(q)
      BY <1>3 DEF Working
    <3> QED
      BY <1>1, <1>3, <3>1 DEF ObjectsInv, NamesCrossed
  <2>4. \A q \in Request : objectRequest'[q].step = "insert" => objectRequest'[q].op = "create"
    BY <1>3 DEF ObjectsInv, NamesCrossed
  <2> QED
    BY <2>2, <2>3, <2>4 DEF NamesCrossed
<1>15. MissedNoted'
  BY <1>1, <1>3, <1>8, <1>9 DEF ObjectsInv, MissedNoted, Making, Copying
<1>16. GrantsNoted'
  BY <1>1, <1>7, <1>9, <1>10 DEF ObjectsInv, GrantsNoted
<1>17. Objects!ObjectsAreWhole'
  <2>1. \A app \in DOMAIN tabs' : tabs'[app] \subseteq DOMAIN objects' \cup objectCrossed' \cup late'
    BY <1>1, <1>9, <1>11 DEF ObjectsInv, Objects!ObjectsAreWhole
  <2> QED
    BY <1>1, <1>9, <2>1 DEF ObjectsInv, Objects!ObjectsAreWhole
<1> QED
  BY <1>12, <1>13, <1>14, <1>15, <1>16, <1>17 DEF ObjectsInv

\* The object goes, by its id, and its table, its permissions and its tabs go, by its name.
LEMMA DeleteObjectKept == ASSUME ObjectsInv, NEW r \in Request, Objects!DeleteObject(r) PROVE ObjectsInv'
<1> DEFINE o == objectRequest[r].name
           k == objectRequest[r].id
<1>1. /\ Deleting(r) /\ Objects!Done(r)
      /\ objects' = [n \in {m \in DOMAIN objects : objects[m] # k} |-> objects[n]]
      /\ tables' = tables \ {o} /\ grants' = {g \in grants : g[1] # k}
      /\ tabs' = [app \in DOMAIN tabs |-> tabs[app] \ {o}]
      /\ UNCHANGED <<profiles, objectMade, objectCrossed, missed, late>>
  BY DEF Objects!DeleteObject, Objects!remove_tab_from_apps, Objects!at, Deleting
<1>2. \A n \in DOMAIN objects : objects[n] = k => n = o
  BY <1>1 DEF ObjectsInv, IdsApart
<1>3. /\ objectRequest' \in [Request -> Objects!ObjectChange] /\ objectRequest'[r].step = "idle"
      /\ \A q \in Request : q # r => objectRequest'[q] = objectRequest[q]
  BY <1>1, ObjectIdle, ObjectMoves DEF Objects!Done
<1>4. Working(r)
  BY <1>1 DEF Working, Deleting
<1>5. \A q \in Request : q # r /\ Working(q) /\ objectRequest[q].name = o => o \in objectCrossed
  BY <1>4 DEF ObjectsInv, NamesCrossed
<1>6. o \notin objectCrossed => o \in DOMAIN objects /\ objects[o] = k
  BY <1>1 DEF ObjectsInv, NamesCrossed
<1> HIDE DEF o, k
<1>7. /\ DOMAIN objects' \subseteq DOMAIN objects /\ (\A n \in DOMAIN objects' : objects'[n] = objects[n] /\ objects[n] # k)
      /\ (\A n \in DOMAIN objects : n # o => n \in DOMAIN objects') /\ (o \notin objectCrossed => o \notin DOMAIN objects')
  BY <1>1, <1>2, <1>6
<1>8. Objects!TypeOK'
  BY <1>1, <1>3, <1>7 DEF ObjectsInv, Objects!TypeOK
<1>9. IdsApart'
  BY <1>1, <1>3, <1>7 DEF ObjectsInv, IdsApart, Making, Deleting
<1>10. NamesCrossed'
  <2>1. \A q \in Request : Deleting(q)' => q # r /\ Deleting(q) /\ Working(q)
    BY <1>3 DEF Deleting, Working
  <2>2. \A q \in Request : Deleting(q)' /\ objectRequest'[q].name \notin objectCrossed' =>
          objectRequest'[q].name \in DOMAIN objects' /\ objects'[objectRequest'[q].name] = objectRequest'[q].id
    BY <1>1, <1>3, <1>5, <1>7, <2>1 DEF ObjectsInv, NamesCrossed
  <2> QED
    BY <1>1, <1>3, <2>2 DEF ObjectsInv, NamesCrossed, Working
<1>11. MissedNoted'
  BY <1>1, <1>3, <1>7 DEF ObjectsInv, MissedNoted, Making, Copying
<1>12. GrantsNoted'
  <2>1. ASSUME NEW n \in DOMAIN objects', NEW p \in profiles PROVE <<objects'[n], p>> \in grants' \cup missed
    <3>1. <<objects[n], p>> \in grants \cup missed /\ objects'[n] = objects[n] /\ objects[n] # k
      BY <1>7, <2>1 DEF ObjectsInv, GrantsNoted
    <3> QED
      BY <1>1, <3>1
  <2> QED
    BY <1>1, <2>1 DEF GrantsNoted
<1>13. Objects!ObjectsAreWhole'
  <2>1. \A n \in Object \ objectCrossed' : n \in DOMAIN objects' <=> n \in tables'
    BY <1>1, <1>7 DEF ObjectsInv, Objects!ObjectsAreWhole
  <2>2. \A app \in DOMAIN tabs' : tabs'[app] \subseteq DOMAIN objects' \cup objectCrossed' \cup late'
    BY <1>1, <1>7 DEF ObjectsInv, Objects!ObjectsAreWhole
  <2> QED
    BY <2>1, <2>2 DEF Objects!ObjectsAreWhole
<1> QED
  BY <1>8, <1>9, <1>10, <1>11, <1>12, <1>13 DEF ObjectsInv

\* A profile is copied from another: what that one lacks, and what is just being made, is noted.
LEMMA BeginProfileKept ==
  ASSUME ObjectsInv, NEW r \in Request, NEW base \in Profile, NEW p \in Profile, Objects!BeginProfile(r, base, p)
  PROVE  ObjectsInv'
<1> DEFINE C == {i \in Objects!Ids : <<i, base>> \in grants}
           x == [Objects!Idle EXCEPT !.step = "commit", !.op = "profile", !.profile = p, !.copied = C]
<1>1. /\ objectRequest' = [objectRequest EXCEPT ![r] = x] /\ objectRequest[r].step = "idle" /\ base \in profiles
      /\ missed' = missed \cup {<<i, p>> : i \in {j \in Objects!Ids : <<j, base>> \in missed}}
           \cup {<<objectRequest[q].id, p>> : q \in {s \in Request : Objects!at(s, "commit") /\ objectRequest[s].op = "create"}}
      /\ UNCHANGED <<objects, tables, profiles, grants, tabs, objectMade, objectCrossed, late>>
  BY DEF Objects!BeginProfile, Objects!store, Objects!at
<1>2. C \subseteq Objects!Ids
  OBVIOUS
<1>3. \A i \in Objects!Ids : <<i, base>> \in grants => i \in C
  OBVIOUS
<1> HIDE DEF C
<1>4. x \in Objects!ObjectChange /\ x.step = "commit" /\ x.op = "profile" /\ x.profile = p /\ x.copied = C
  BY <1>2, ObjectIdle DEF Objects!ObjectChange
<1> HIDE DEF x
<1>5. /\ objectRequest' \in [Request -> Objects!ObjectChange] /\ objectRequest'[r] = x
      /\ \A q \in Request : q # r => objectRequest'[q] = objectRequest[q]
  BY <1>1, <1>4, ObjectMoves
<1>6. \A q \in Request : Making(q) => objectRequest[q].id \in Objects!Ids
  BY ObjectKnown DEF ObjectsInv, IdsApart, Objects!Ids
<1>7. /\ missed \subseteq missed' /\ missed' \subseteq Objects!Ids \X Profile
      /\ \A i \in Objects!Ids : <<i, base>> \in missed => <<i, p>> \in missed'
      /\ \A q \in Request : Making(q) => <<objectRequest[q].id, p>> \in missed'
  <2>1. missed \subseteq Objects!Ids \X Profile
    BY DEF ObjectsInv, Objects!TypeOK
  <2>2. \A q \in Request : Making(q) => <<objectRequest[q].id, p>> \in missed'
    BY <1>1 DEF Making, Objects!at
  <2>3. \A i \in Objects!Ids : <<i, base>> \in missed => <<i, p>> \in missed'
    BY <1>1
  <2>4. \A g \in missed' : g \in missed \/ \E i \in Objects!Ids : g = <<i, p>>
    <3>1. \A s \in Request : Objects!at(s, "commit") /\ objectRequest[s].op = "create" => objectRequest[s].id \in Objects!Ids
      BY <1>6 DEF Making, Objects!at
    <3> QED
      BY <1>1, <3>1
  <2>5. missed' \subseteq Objects!Ids \X Profile
    BY <2>1, <2>4
  <2> QED
    BY <1>1, <2>2, <2>3, <2>5
<1>8. Objects!TypeOK'
  BY <1>1, <1>5, <1>7 DEF ObjectsInv, Objects!TypeOK
<1>9. IdsApart'
  BY <1>1, <1>4, <1>5 DEF ObjectsInv, IdsApart, Making, Deleting
<1>10. NamesCrossed'
  BY <1>1, <1>4, <1>5 DEF ObjectsInv, NamesCrossed, Working, Deleting
<1>11. GrantsNoted' /\ Objects!ObjectsAreWhole'
  BY <1>1, <1>7 DEF ObjectsInv, GrantsNoted, Objects!ObjectsAreWhole
<1>12. MissedNoted'
  <2>1. \A o \in DOMAIN objects : objects[o] \in Objects!Ids
    BY DEF ObjectsInv, Objects!TypeOK
  <2>2. \A o \in DOMAIN objects : objects[o] \in C \/ <<objects[o], p>> \in missed'
    BY <1>1, <1>3, <1>7, <2>1 DEF ObjectsInv, GrantsNoted
  <2> QED
    BY <1>1, <1>4, <1>5, <1>7, <2>2 DEF ObjectsInv, MissedNoted, Making, Copying
<1> QED
  BY <1>8, <1>9, <1>10, <1>11, <1>12 DEF ObjectsInv

\* The copy is written.
LEMMA NewProfileKept == ASSUME ObjectsInv, NEW r \in Request, Objects!NewProfile(r) PROVE ObjectsInv'
<1> DEFINE p == objectRequest[r].profile
           C == objectRequest[r].copied
<1>1. /\ Copying(r) /\ Objects!Done(r) /\ profiles' = profiles \cup {p} /\ grants' = grants \cup C \X {p}
      /\ UNCHANGED <<objects, tables, tabs, objectMade, objectCrossed, missed, late>>
  BY DEF Objects!NewProfile, Objects!at, Copying
<1>2. p \in Profile /\ C \subseteq Objects!Ids
  BY ObjectKnown
<1>3. /\ objectRequest' \in [Request -> Objects!ObjectChange] /\ objectRequest'[r].step = "idle"
      /\ \A q \in Request : q # r => objectRequest'[q] = objectRequest[q]
  BY <1>1, ObjectIdle, ObjectMoves DEF Objects!Done
<1>4. /\ \A q \in Request : Making(q) => <<objectRequest[q].id, p>> \in missed
      /\ \A o \in DOMAIN objects : objects[o] \in C \/ <<objects[o], p>> \in missed
  BY <1>1 DEF ObjectsInv, MissedNoted
<1> HIDE DEF p, C
<1>5. Objects!TypeOK'
  BY <1>1, <1>2, <1>3 DEF ObjectsInv, Objects!TypeOK
<1>6. IdsApart' /\ Objects!ObjectsAreWhole'
  BY <1>1, <1>3 DEF ObjectsInv, IdsApart, Making, Deleting, Objects!ObjectsAreWhole
<1>7. NamesCrossed'
  BY <1>1, <1>3 DEF ObjectsInv, NamesCrossed, Working, Deleting
<1>8. MissedNoted'
  BY <1>1, <1>3, <1>4 DEF ObjectsInv, MissedNoted, Making, Copying
<1>9. GrantsNoted'
  <2>1. \A o \in DOMAIN objects : objects[o] \in C => <<objects[o], p>> \in grants'
    BY <1>1
  <2> QED
    BY <1>1, <1>4, <2>1 DEF ObjectsInv, GrantsNoted
<1> QED
  BY <1>5, <1>6, <1>7, <1>8, <1>9 DEF ObjectsInv

LEMMA CreateAppKept ==
  ASSUME ObjectsInv, NEW app \in App, NEW S \in SUBSET Object, Objects!CreateApp(app, S) PROVE ObjectsInv'
<1>1. /\ tabs' = [other \in DOMAIN tabs \cup {app} |-> IF other = app THEN S ELSE tabs[other]] /\ late' = late \cup (S \ DOMAIN objects)
      /\ objectCrossed \subseteq objectCrossed' /\ objectCrossed' \subseteq objectCrossed \cup S
      /\ UNCHANGED <<objects, tables, profiles, grants, objectRequest, objectMade, missed>>
  BY DEF Objects!CreateApp
<1>2. Objects!TypeOK'
  BY <1>1 DEF ObjectsInv, Objects!TypeOK
<1>3. IdsApart' /\ MissedNoted' /\ GrantsNoted'
  BY <1>1 DEF ObjectsInv, IdsApart, MissedNoted, GrantsNoted, Making, Deleting, Copying
<1>4. NamesCrossed'
  BY <1>1 DEF ObjectsInv, NamesCrossed, Working, Deleting
<1>5. Objects!ObjectsAreWhole'
  BY <1>1 DEF ObjectsInv, Objects!ObjectsAreWhole
<1> QED
  BY <1>2, <1>3, <1>4, <1>5 DEF ObjectsInv

LEMMA ObjectsKept == ASSUME ObjectsInv, [Objects!Next]_objectVars PROVE ObjectsInv'
<1>1. CASE UNCHANGED objectVars
  BY <1>1 DEF objectVars, ObjectsInv, Objects!TypeOK, IdsApart, NamesCrossed, MissedNoted, GrantsNoted,
              Objects!ObjectsAreWhole, Making, Deleting, Copying, Working
<1>2. ASSUME NEW r \in Request, Objects!Fail(r) PROVE ObjectsInv'
  BY <1>2, ObjectEnds DEF Objects!Fail, Objects!RolledBack
<1> QED
  BY <1>1, <1>2, AskObjectKept, BeginDeleteKept, InsertObjectKept, CreateObjectKept, DeleteObjectKept,
     BeginProfileKept, NewProfileKept, CreateAppKept DEF Objects!Next

\* An object has its table and every profile's permissions, and no table or tab is without its
\* object, whatever fails, but for names and profiles that were made at a time.
THEOREM ObjectsTheorem == Spec => []ObjectsHold
<1> DEFINE Inv == service = "object" => ObjectsInv
<1>1. Init => Inv
  BY OnePartAtFirst, ObjectsAtFirst
<1>2. Inv /\ [Next]_vars => Inv'
  BY OnePart, ObjectsKept
<1>3. Inv => ObjectsHold
  <2>1. GrantsNoted => Objects!GrantsAreComplete
    BY DEF GrantsNoted, Objects!GrantsAreComplete, Objects!ids
  <2> QED
    BY <2>1 DEF ObjectsInv, ObjectsHold
<1> HIDE DEF Inv
<1> QED
  BY <1>1, <1>2, <1>3, PTL DEF Spec

-----------------------------------------------------------------------------
\* Fields

Tainted == fieldCrossed \cup torn
Busy(r) == fieldRequest[r].step # "idle"
NamesIn(r) == {fieldRequest[r].name, fieldRequest[r].to}
Created(r) == Busy(r) /\ fieldRequest[r].op = "create" /\ fieldRequest[r].step # "register"
Changes(r) == Busy(r) /\ fieldRequest[r].op # "create"

\* The steps of each kind of request.
FieldSteps == \A r \in Request : LET x == fieldRequest[r] IN
  /\ x.step = "patch" <=> x.step # "idle" /\ x.op = "change"
  /\ x.step \in {"register", "commit"} => x.op = "create"
  /\ x.step = "drop" => x.op = "delete"
  /\ x.op # "change" => x.name = x.to
  /\ x.step = "patch" => x.name # x.to
  /\ x.step = "idle" => x.sections = {} /\ x.hits = {}

\* A field that is being created has an id of its own, which no row has.
RowIds ==
  /\ \A i \in DOMAIN fields : i \in 1..fieldMade
  /\ \A r \in Request : Created(r) => fieldRequest[r].id \in 1..fieldMade /\ fieldRequest[r].id \notin DOMAIN fields
  /\ \A r \in Request : Changes(r) => fieldRequest[r].id \in 1..fieldMade
  /\ \A q, r \in Request : q # r /\ Created(q) /\ (Created(r) \/ Changes(r)) => fieldRequest[q].id # fieldRequest[r].id

\* What two requests at a time work on was noted.
NamesApart ==
  \A q, r \in Request : q # r /\ Busy(q) /\ Busy(r) =>
    /\ NamesIn(q) \cup NamesIn(r) \subseteq fieldOverlapped
    /\ NamesIn(q) \cap NamesIn(r) # {} => NamesIn(q) \cup NamesIn(r) \subseteq fieldCrossed
    /\ Changes(q) /\ Changes(r) /\ fieldRequest[q].id = fieldRequest[r].id
         => NamesIn(q) \cup NamesIn(r) \subseteq fieldCrossed

\* The row that a request works on has the name it had when the request began, and no row has the
\* name of a field that is being created, other requests for these names aside.
RowsNamed ==
  /\ \A i, j \in DOMAIN fields : i # j /\ fields[i].name = fields[j].name => fields[i].name \in fieldCrossed
  /\ \A r \in Request : Created(r) /\ fieldRequest[r].name \notin fieldCrossed =>
       \A i \in DOMAIN fields : fields[i].name # fieldRequest[r].name
  /\ \A r \in Request : Changes(r) =>
       \/ fieldRequest[r].id \in DOMAIN fields /\ fields[fieldRequest[r].id].name = fieldRequest[r].name
       \/ /\ NamesIn(r) \subseteq fieldCrossed /\ NamesIn(r) \subseteq fieldOverlapped
          /\ fieldRequest[r].id \in DOMAIN fields =>
               fields[fieldRequest[r].id].name \in Tainted /\ fields[fieldRequest[r].id].name \in fieldOverlapped

\* While a column has its new name and the row not yet.
Renaming == \A r \in Request : fieldRequest[r].step = "patch" =>
  /\ fieldRequest[r].name \in renamed \cup fieldOverlapped
  /\ fieldRequest[r].name \notin Tainted => fieldRequest[r].name \notin columns
  /\ fieldRequest[r].to \notin Tainted =>
       fieldRequest[r].to \in columns /\ fieldRequest[r].name \notin Tainted /\ fields[fieldRequest[r].id].kind = "stored"

\* A name that layouts may hold: of a field, or excused.
MayStand(n) == (\E i \in DOMAIN fields : fields[i].name = n) \/ n \in renamed \cup fieldOverlapped

LayoutCopies == \A r \in Request : LET x == fieldRequest[r] IN
  /\ \A n \in x.sections \cup x.hits : MayStand(n) \/ (x.op = "create" /\ n = x.name)
  /\ x.step # "idle" /\ x.op = "delete" /\ x.name \notin fieldOverlapped =>
       /\ ~x.placed => x.name \notin layout
       /\ x.placed /\ x.step # "page" => x.name \notin x.sections
       /\ x.step = "drop" => x.name \notin x.hits

LayoutsStand == \A n \in layout \cup search : MayStand(n)

ColumnsMatch ==
  \A n \in FieldName : n \notin Tainted /\ (\A r \in Request : fieldRequest[r].step = "patch" => n \notin NamesIn(r)) =>
    (n \in columns <=> \E i \in DOMAIN fields : fields[i].name = n /\ fields[i].kind = "stored")

FieldsInv ==
  /\ Fields!TypeOK /\ FieldSteps /\ RowIds /\ NamesApart /\ RowsNamed /\ Renaming
  /\ LayoutCopies /\ LayoutsStand /\ ColumnsMatch

LEMMA FieldIdle ==
  /\ Fields!Idle \in Fields!FieldChange /\ Fields!Idle.step = "idle" /\ Fields!Idle.op = "create" /\ Fields!Idle.id = 0
  /\ Fields!Idle.name = Fields!Idle.to /\ Fields!Idle.sections = {} /\ Fields!Idle.hits = {}
<1>1. (CHOOSE n \in FieldName : TRUE) \in FieldName /\ 0 \in 0..MaxFields
  BY DeskAssumption DEF Fields!FieldsAssumption
<1> QED
  BY <1>1 DEF Fields!Idle, Fields!FieldChange

LEMMA FieldsAtFirst == Fields!Init => FieldsInv
<1> SUFFICES ASSUME Fields!Init PROVE FieldsInv
  OBVIOUS
<1>1. /\ columns = {} /\ fields = <<>> /\ layout = {} /\ search = {}
      /\ fieldRequest = [r \in Request |-> Fields!Idle] /\ table = None /\ fieldPage = None /\ finder = None
      /\ fieldMade = 0 /\ renamed = {} /\ torn = {} /\ fieldCrossed = {} /\ fieldOverlapped = {} /\ DOMAIN fields = {}
  BY DEF Fields!Init
<1>2. fieldRequest \in [Request -> Fields!FieldChange]
      /\ \A r \in Request : fieldRequest[r].step = "idle" /\ fieldRequest[r].op = "create" /\ fieldRequest[r].sections = {}
                            /\ fieldRequest[r].hits = {} /\ fieldRequest[r].name = fieldRequest[r].to
  BY <1>1, FieldIdle
<1>3. Fields!TypeOK
  <2>1. 0 \in 0..MaxFields
    BY DeskAssumption DEF Fields!FieldsAssumption
  <2> QED
    BY <1>1, <1>2, <2>1 DEF Fields!TypeOK
<1>4. FieldSteps /\ RowIds /\ NamesApart /\ RowsNamed
  BY <1>1, <1>2 DEF FieldSteps, RowIds, NamesApart, RowsNamed, Created, Changes, Busy
<1>5. Renaming /\ LayoutCopies /\ LayoutsStand /\ ColumnsMatch
  BY <1>1, <1>2 DEF Renaming, LayoutCopies, LayoutsStand, ColumnsMatch
<1> QED
  BY <1>3, <1>4, <1>5 DEF FieldsInv

LEMMA FieldKnown ==
  ASSUME FieldsInv
  PROVE  /\ fieldMade \in Nat /\ fieldMade <= MaxFields /\ MaxFields \in Nat
         /\ fieldRequest \in [Request -> Fields!FieldChange]
         /\ \A r \in Request :
              /\ fieldRequest[r].step \in {"idle", "register", "page", "search", "commit", "drop", "patch"}
              /\ fieldRequest[r].op \in {"create", "delete", "change"}
              /\ fieldRequest[r].name \in FieldName /\ fieldRequest[r].to \in FieldName /\ fieldRequest[r].id \in 0..MaxFields
              /\ fieldRequest[r].kind \in {"stored", "computed"} /\ fieldRequest[r].placed \in BOOLEAN
              /\ fieldRequest[r].sections \subseteq FieldName /\ fieldRequest[r].hits \subseteq FieldName
         /\ columns \subseteq FieldName /\ layout \subseteq FieldName /\ search \subseteq FieldName
         /\ \A i \in DOMAIN fields : i \in Fields!Ids /\ fields[i] \in Fields!FieldRow
                                     /\ fields[i].name \in FieldName /\ fields[i].kind \in {"stored", "computed"}
         /\ renamed \subseteq FieldName /\ torn \subseteq FieldName /\ fieldCrossed \subseteq FieldName
         /\ fieldOverlapped \subseteq FieldName
         /\ table \in Request \cup {None} /\ fieldPage \in Request \cup {None} /\ finder \in Request \cup {None}
<1>1. fieldMade \in Nat /\ fieldMade <= MaxFields /\ MaxFields \in Nat
  BY DeskAssumption DEF FieldsInv, Fields!TypeOK, Fields!FieldsAssumption
<1>2. fieldRequest \in [Request -> Fields!FieldChange]
  BY DEF FieldsInv, Fields!TypeOK
<1>3. \A i \in DOMAIN fields : i \in Fields!Ids /\ fields[i] \in Fields!FieldRow
                               /\ fields[i].name \in FieldName /\ fields[i].kind \in {"stored", "computed"}
  BY DEF FieldsInv, Fields!TypeOK, Fields!FieldRow
<1>4. \A x \in Fields!FieldChange :
              /\ x.step \in {"idle", "register", "page", "search", "commit", "drop", "patch"}
              /\ x.op \in {"create", "delete", "change"}
              /\ x.name \in FieldName /\ x.to \in FieldName /\ x.id \in 0..MaxFields
              /\ x.kind \in {"stored", "computed"} /\ x.placed \in BOOLEAN
              /\ x.sections \subseteq FieldName /\ x.hits \subseteq FieldName
  BY DEF Fields!FieldChange
<1> QED
  BY <1>1, <1>2, <1>3, <1>4 DEF FieldsInv, Fields!TypeOK

LEMMA FieldMoves ==
  ASSUME FieldsInv, NEW r \in Request, NEW x \in Fields!FieldChange, fieldRequest' = [fieldRequest EXCEPT ![r] = x]
  PROVE  /\ fieldRequest' \in [Request -> Fields!FieldChange] /\ fieldRequest'[r] = x
         /\ \A q \in Request : q # r => fieldRequest'[q] = fieldRequest[q]
BY FieldKnown

\* What the names of all rows are.
LEMMA NamedAreRows ==
  ASSUME FieldsInv
  PROVE  /\ Fields!named = {fields[i].name : i \in DOMAIN fields}
         /\ Fields!NamesOf({"stored"}) = {fields[i].name : i \in {j \in DOMAIN fields : fields[j].kind = "stored"}}
BY FieldKnown DEF Fields!named, Fields!NamesOf

\* A request that starts notes what it shares with others.
LEMMA StartsNote ==
  ASSUME FieldsInv, NEW N \in SUBSET FieldName, NEW I, Fields!Starts(N, I)
  PROVE  /\ fieldCrossed \subseteq fieldCrossed' /\ fieldOverlapped \subseteq fieldOverlapped'
         /\ fieldCrossed' \subseteq FieldName /\ fieldOverlapped' \subseteq FieldName
         /\ \A q \in Request : Busy(q) =>
              /\ N \cup NamesIn(q) \subseteq fieldOverlapped'
              /\ N \cap NamesIn(q) # {} \/ fieldRequest[q].id \in I => N \cup NamesIn(q) \subseteq fieldCrossed'
              /\ NamesIn(q) \subseteq fieldCrossed' \/ NamesIn(q) \cap fieldCrossed' \subseteq fieldCrossed
         /\ N \subseteq fieldCrossed' \/ fieldCrossed' = fieldCrossed
<1>1. Fields!open = {q \in Request : Busy(q)} /\ \A q : Fields!Namely(q) = NamesIn(q)
  BY DEF Fields!open, Fields!at, Fields!Namely, Busy, NamesIn
<1>2. \A q \in Request : NamesIn(q) \subseteq FieldName
  BY FieldKnown DEF NamesIn
<1>3. fieldCrossed' = fieldCrossed \cup UNION {NamesIn(q) \cup N : q \in {p \in Fields!open : NamesIn(p) \cap N # {} \/ fieldRequest[p].id \in I}}
  BY <1>1 DEF Fields!Starts
<1>4. fieldOverlapped' = IF Fields!open = {} THEN fieldOverlapped ELSE fieldOverlapped \cup N \cup UNION {NamesIn(q) : q \in Fields!open}
  BY <1>1 DEF Fields!Starts
<1>5. fieldCrossed' \subseteq FieldName /\ fieldOverlapped' \subseteq FieldName
  BY <1>1, <1>2, <1>3, <1>4, FieldKnown
<1>6. ASSUME NEW q \in Request, Busy(q)
      PROVE  /\ N \cup NamesIn(q) \subseteq fieldOverlapped'
             /\ N \cap NamesIn(q) # {} \/ fieldRequest[q].id \in I => N \cup NamesIn(q) \subseteq fieldCrossed'
  BY <1>1, <1>3, <1>4, <1>6
<1>7. ASSUME NEW q \in Request, Busy(q), NEW n \in NamesIn(q), n \in fieldCrossed', n \notin fieldCrossed
      PROVE  NamesIn(q) \subseteq fieldCrossed'
  <2>1. CASE n \in N
    BY <1>6, <1>7, <2>1
  <2>2. CASE n \notin N
    <3>1. PICK p \in Request : Busy(p) /\ (NamesIn(p) \cap N # {} \/ fieldRequest[p].id \in I) /\ n \in NamesIn(p)
      BY <1>1, <1>3, <1>7, <2>2
    <3>2. CASE p = q
      BY <1>6, <1>7, <3>1, <3>2
    <3>3. CASE p # q
      BY <1>3, <1>7, <3>1, <3>3 DEF FieldsInv, NamesApart
    <3> QED
      BY <3>2, <3>3
  <2> QED
    BY <2>1, <2>2
<1>8. N \subseteq fieldCrossed' \/ fieldCrossed' = fieldCrossed
  BY <1>3
<1> QED
  BY <1>3, <1>4, <1>5, <1>6, <1>7, <1>8

\* A request ends that changed nothing, or stopped half-way and left its names torn.
LEMMA FieldEnds ==
  ASSUME FieldsInv, NEW r \in Request, Fields!Done(r),
         UNCHANGED <<columns, fields, layout, search, fieldMade, renamed, fieldCrossed, fieldOverlapped>>,
         torn' = IF fieldRequest[r].step = "patch" THEN torn \cup NamesIn(r) ELSE torn,
         {table', fieldPage', finder'} \subseteq Request \cup {None}
  PROVE  FieldsInv'
<1>1. /\ fieldRequest' \in [Request -> Fields!FieldChange] /\ fieldRequest'[r] = Fields!Idle
      /\ \A q \in Request : q # r => fieldRequest'[q] = fieldRequest[q]
  BY FieldIdle, FieldMoves DEF Fields!Done
<1>2. \A q \in Request : Busy(q)' => q # r /\ Busy(q)
  BY <1>1, FieldIdle DEF Busy
<1>3. Fields!TypeOK'
  BY <1>1, FieldKnown DEF FieldsInv, Fields!TypeOK, NamesIn
<1>4. FieldSteps'
  BY <1>1, FieldIdle DEF FieldsInv, FieldSteps
<1>5. RowIds' /\ NamesApart'
  BY <1>1, <1>2 DEF FieldsInv, RowIds, NamesApart, Created, Changes, NamesIn
<1>6. RowsNamed'
  BY <1>1, <1>2 DEF FieldsInv, RowsNamed, Created, Changes, NamesIn, Tainted
<1>7. Renaming'
  <2> SUFFICES ASSUME NEW q \in Request, fieldRequest'[q].step = "patch"
               PROVE  /\ fieldRequest'[q].name \in renamed \cup fieldOverlapped
                      /\ fieldRequest'[q].name \notin Tainted' => fieldRequest'[q].name \notin columns
                      /\ fieldRequest'[q].to \notin Tainted' => /\ fieldRequest'[q].to \in columns
                           /\ fieldRequest'[q].name \notin Tainted' /\ fields[fieldRequest'[q].id].kind = "stored"
    BY DEF Renaming
  <2>1. q # r /\ fieldRequest'[q] = fieldRequest[q]
    BY <1>1, FieldIdle
  <2>2. fieldRequest[r].step = "patch" /\ NamesIn(q) \cap NamesIn(r) # {} => NamesIn(q) \subseteq fieldCrossed
    BY <2>1 DEF FieldsInv, NamesApart, Busy
  <2>3. fieldRequest[q].to \notin fieldCrossed /\ fieldRequest[r].step = "patch" => fieldRequest[q].name \notin NamesIn(r)
    BY <2>2 DEF NamesIn
  <2> QED
    BY <2>1, <2>3 DEF FieldsInv, Renaming, Tainted
<1>8. LayoutCopies' /\ LayoutsStand'
  BY <1>1, FieldIdle DEF FieldsInv, LayoutCopies, LayoutsStand, MayStand
<1>9. ColumnsMatch'
  BY <1>1, <1>2 DEF FieldsInv, ColumnsMatch, Tainted, NamesIn, Busy
<1> QED
  BY <1>3, <1>4, <1>5, <1>6, <1>7, <1>8, <1>9 DEF FieldsInv

\* What a request that starts leaves true of itself and of the others.
LEMMA FieldStarts ==
  ASSUME FieldsInv, NEW r \in Request, ~Busy(r), NEW x \in Fields!FieldChange, x.step \in {"register", "page", "patch"},
         x.step = "register" <=> x.op = "create", fieldRequest' = [fieldRequest EXCEPT ![r] = x], NEW I,
         x.op # "create" => x.id \in I /\ x.id \in DOMAIN fields /\ fields[x.id].name = x.name,
         Fields!Starts({x.name, x.to}, I), UNCHANGED <<fields, fieldMade>>, torn \subseteq torn'
  PROVE  /\ fieldRequest' \in [Request -> Fields!FieldChange] /\ fieldRequest'[r] = x
         /\ \A q \in Request : q # r => fieldRequest'[q] = fieldRequest[q]
         /\ fieldCrossed \subseteq fieldCrossed' /\ fieldOverlapped \subseteq fieldOverlapped'
         /\ fieldCrossed' \subseteq FieldName /\ fieldOverlapped' \subseteq FieldName
         /\ RowIds' /\ NamesApart' /\ RowsNamed'
<1>1. /\ fieldRequest' \in [Request -> Fields!FieldChange] /\ fieldRequest'[r] = x
      /\ \A q \in Request : q # r => fieldRequest'[q] = fieldRequest[q]
  BY FieldMoves
<1>2. {x.name, x.to} \in SUBSET FieldName
  BY DEF Fields!FieldChange
<1>3. /\ fieldCrossed \subseteq fieldCrossed' /\ fieldOverlapped \subseteq fieldOverlapped'
      /\ fieldCrossed' \subseteq FieldName /\ fieldOverlapped' \subseteq FieldName
      /\ \A q \in Request : Busy(q) =>
           /\ {x.name, x.to} \cup NamesIn(q) \subseteq fieldOverlapped'
           /\ {x.name, x.to} \cap NamesIn(q) # {} \/ fieldRequest[q].id \in I => {x.name, x.to} \cup NamesIn(q) \subseteq fieldCrossed'
  BY <1>2, StartsNote
<1>4. \A q \in Request : q # r => /\ Busy(q)' <=> Busy(q)
                                  /\ Created(q)' <=> Created(q)
                                  /\ Changes(q)' <=> Changes(q)
                                  /\ NamesIn(q)' = NamesIn(q)
  BY <1>1 DEF Busy, Created, Changes, NamesIn
<1>5. /\ NamesIn(r)' = {x.name, x.to} /\ ~Created(r)'
      /\ Changes(r)' => /\ x.op # "create" /\ x.id \in I /\ x.id \in DOMAIN fields
                        /\ fields[x.id].name = x.name
  BY <1>1 DEF NamesIn, Created, Changes, Busy
<1>6. RowIds'
  BY <1>1, <1>4, <1>5 DEF FieldsInv, RowIds
<1>7. NamesApart'
  <2> SUFFICES ASSUME NEW q \in Request, NEW p \in Request, q # p, Busy(q)', Busy(p)'
               PROVE  /\ NamesIn(q)' \cup NamesIn(p)' \subseteq fieldOverlapped'
                      /\ NamesIn(q)' \cap NamesIn(p)' # {} => NamesIn(q)' \cup NamesIn(p)' \subseteq fieldCrossed'
                      /\ Changes(q)' /\ Changes(p)' /\ fieldRequest'[q].id = fieldRequest'[p].id
                           => NamesIn(q)' \cup NamesIn(p)' \subseteq fieldCrossed'
    BY DEF NamesApart
  <2>1. CASE q # r /\ p # r
    BY <1>1, <1>3, <1>4, <2>1 DEF FieldsInv, NamesApart
  <2>2. CASE q = r
    BY <1>1, <1>3, <1>4, <1>5, <2>2
  <2>3. CASE p = r
    BY <1>1, <1>3, <1>4, <1>5, <2>3
  <2> QED
    BY <2>1, <2>2, <2>3
<1>8. RowsNamed'
  <2>1. \A i, j \in DOMAIN fields : i # j /\ fields[i].name = fields[j].name => fields[i].name \in fieldCrossed'
    BY <1>3 DEF FieldsInv, RowsNamed
  <2>2. \A q \in Request : Created(q)' /\ fieldRequest'[q].name \notin fieldCrossed' =>
          \A i \in DOMAIN fields : fields[i].name # fieldRequest'[q].name
    BY <1>1, <1>3, <1>4, <1>5 DEF FieldsInv, RowsNamed
  <2>3. ASSUME NEW q \in Request, Changes(q)'
        PROVE  \/ fieldRequest'[q].id \in DOMAIN fields /\ fields[fieldRequest'[q].id].name = fieldRequest'[q].name
               \/ /\ NamesIn(q)' \subseteq fieldCrossed' /\ NamesIn(q)' \subseteq fieldOverlapped'
                  /\ fieldRequest'[q].id \in DOMAIN fields =>
                       /\ fields[fieldRequest'[q].id].name \in fieldCrossed' \cup torn'
                       /\ fields[fieldRequest'[q].id].name \in fieldOverlapped'
    <3>1. CASE q = r
      BY <1>1, <1>5, <2>3, <3>1
    <3>2. CASE q # r
      BY <1>1, <1>3, <1>4, <2>3, <3>2 DEF FieldsInv, RowsNamed, Tainted
    <3> QED
      BY <3>1, <3>2
  <2> QED
    BY <2>1, <2>2, <2>3 DEF RowsNamed, Tainted
<1> QED
  BY <1>1, <1>3, <1>6, <1>7, <1>8

\* What a renaming that goes on keeps while another request starts.
LEMMA RenamingStays ==
  ASSUME FieldsInv, NEW N \in SUBSET FieldName, NEW I, Fields!Starts(N, I), NEW q \in Request, fieldRequest[q].step = "patch",
         fieldRequest'[q] = fieldRequest[q], UNCHANGED fields, renamed \subseteq renamed',
         torn \subseteq torn', torn' \subseteq torn \cup N, columns \ N = columns' \ N
  PROVE  /\ fieldRequest'[q].name \in renamed' \cup fieldOverlapped'
         /\ fieldRequest'[q].name \notin Tainted' => fieldRequest'[q].name \notin columns'
         /\ fieldRequest'[q].to \notin Tainted' => /\ fieldRequest'[q].to \in columns'
              /\ fieldRequest'[q].name \notin Tainted' /\ fields'[fieldRequest'[q].id].kind = "stored"
<1>1. /\ fieldCrossed \subseteq fieldCrossed' /\ fieldOverlapped \subseteq fieldOverlapped'
      /\ N \cap NamesIn(q) # {} => NamesIn(q) \subseteq fieldCrossed'
      /\ NamesIn(q) \subseteq fieldCrossed' \/ NamesIn(q) \cap fieldCrossed' \subseteq fieldCrossed
  BY StartsNote DEF Busy
<1>2. CASE NamesIn(q) \subseteq fieldCrossed'
  BY <1>1, <1>2 DEF FieldsInv, Renaming, Tainted, NamesIn
<1>3. CASE NamesIn(q) \cap fieldCrossed' \subseteq fieldCrossed /\ N \cap NamesIn(q) = {}
  BY <1>1, <1>3 DEF FieldsInv, Renaming, Tainted, NamesIn
<1> QED
  BY <1>1, <1>2, <1>3

\* A column is asked for, which its transaction adds at its end.
LEMMA AddColumnKept ==
  ASSUME FieldsInv, NEW r \in Request, NEW n \in FieldName, NEW sort \in {"stored", "computed"}, NEW placed \in BOOLEAN,
         Fields!AddColumn(r, n, sort, placed)
  PROVE  FieldsInv'
<1> DEFINE x == [Fields!Idle EXCEPT !.step = "register", !.name = n, !.to = n, !.kind = sort, !.placed = placed]
<1>1. /\ x \in Fields!FieldChange /\ x.step = "register" /\ x.op = "create" /\ x.name = n /\ x.to = n /\ x.sections = {}
      /\ x.hits = {}
  BY FieldIdle DEF Fields!FieldChange, Fields!Idle
<1>2. /\ fieldRequest' = [fieldRequest EXCEPT ![r] = x] /\ ~Busy(r)
      /\ UNCHANGED <<columns, fields, layout, search, fieldPage, finder, fieldMade, renamed, torn>>
      /\ table' \in {table, r} /\ Fields!Starts({n}, {})
  BY DEF Fields!AddColumn, Fields!at, Busy, Fields!store
<1> HIDE DEF x
<1>3. {n} = {x.name, x.to} /\ {n} \in SUBSET FieldName
  BY <1>1
<1>4. /\ fieldRequest' \in [Request -> Fields!FieldChange] /\ fieldRequest'[r] = x
      /\ \A q \in Request : q # r => fieldRequest'[q] = fieldRequest[q]
      /\ fieldCrossed \subseteq fieldCrossed' /\ fieldOverlapped \subseteq fieldOverlapped'
      /\ fieldCrossed' \subseteq FieldName /\ fieldOverlapped' \subseteq FieldName
      /\ RowIds' /\ NamesApart' /\ RowsNamed'
  BY <1>1, <1>2, <1>3, FieldStarts
<1>5. Fields!TypeOK'
  BY <1>2, <1>4, FieldKnown DEF FieldsInv, Fields!TypeOK
<1>6. FieldSteps'
  BY <1>1, <1>4 DEF FieldsInv, FieldSteps
<1>7. Renaming'
  <2>1. \A q \in Request : fieldRequest'[q].step = "patch" => q # r /\ fieldRequest'[q] = fieldRequest[q]
    BY <1>1, <1>4
  <2> QED
    BY <1>2, <1>3, <2>1, RenamingStays DEF Renaming
<1>8. LayoutCopies' /\ LayoutsStand'
  BY <1>1, <1>2, <1>4 DEF FieldsInv, LayoutCopies, LayoutsStand, MayStand
<1>9. ColumnsMatch'
  <2>1. \A q \in Request : fieldRequest[q].step = "patch" => fieldRequest'[q].step = "patch" /\ NamesIn(q)' = NamesIn(q)
    BY <1>2, <1>4 DEF Busy, NamesIn
  <2> QED
    BY <1>2, <1>4, <2>1 DEF FieldsInv, ColumnsMatch, Tainted
<1> QED
  BY <1>4, <1>5, <1>6, <1>7, <1>8, <1>9 DEF FieldsInv

\* The row of a field gets an id of its own, and the page layout is read.
LEMMA RegisterKept == ASSUME FieldsInv, NEW r \in Request, Fields!Register(r) PROVE FieldsInv'
<1> DEFINE x == [fieldRequest[r] EXCEPT !.step = "page", !.id = fieldMade + 1, !.sections = layout]
<1>1. /\ fieldRequest[r].step = "register" /\ fieldMade < MaxFields /\ fieldMade' = fieldMade + 1
      /\ fieldRequest[r].name \notin Fields!named
      /\ fieldRequest' = [fieldRequest EXCEPT ![r] = x]
      /\ UNCHANGED <<columns, fields, layout, search, table, fieldPage, finder, renamed, torn, fieldCrossed, fieldOverlapped>>
  BY FieldKnown DEF Fields!Register, Fields!at, Fields!store, Fields!locks, Fields!history
<1>2. fieldMade + 1 \in 0..MaxFields /\ fieldMade \in Nat
  BY <1>1, FieldKnown
<1>3. fieldRequest[r] \in Fields!FieldChange /\ fieldRequest[r].op = "create"
  BY <1>1, FieldKnown DEF FieldsInv, FieldSteps
<1>4. /\ x \in Fields!FieldChange /\ x.step = "page" /\ x.op = "create" /\ x.name = fieldRequest[r].name
      /\ x.to = fieldRequest[r].to /\ x.id = fieldMade + 1 /\ x.sections = layout /\ x.hits = fieldRequest[r].hits
      /\ x.placed = fieldRequest[r].placed
  BY <1>2, <1>3, FieldKnown DEF Fields!FieldChange
<1> HIDE DEF x
<1>5. /\ fieldRequest' \in [Request -> Fields!FieldChange] /\ fieldRequest'[r] = x
      /\ \A q \in Request : q # r => fieldRequest'[q] = fieldRequest[q]
  BY <1>1, <1>4, FieldMoves
<1>6. Fields!TypeOK'
  BY <1>1, <1>2, <1>5 DEF FieldsInv, Fields!TypeOK
<1>7. FieldSteps'
  BY <1>1, <1>3, <1>4, <1>5 DEF FieldsInv, FieldSteps
<1>8. RowIds'
  <2>1. \A q \in Request : q # r => (Created(q)' <=> Created(q)) /\ (Changes(q)' <=> Changes(q))
    BY <1>5 DEF Created, Changes, Busy
  <2>2. ~Changes(r)' /\ fieldRequest'[r].id = fieldMade + 1
    BY <1>4, <1>5 DEF Changes
  <2>3. \A i \in 1..fieldMade : i \in 1..fieldMade' /\ i # fieldMade + 1
    BY <1>1, <1>2
  <2>4. fieldMade + 1 \in 1..fieldMade'
    BY <1>1, <1>2
  <2>5. \A i \in DOMAIN fields : i \in 1..fieldMade
    BY DEF FieldsInv, RowIds
  <2>6. \A q \in Request : Created(q) \/ Changes(q) => fieldRequest[q].id \in 1..fieldMade
    BY DEF FieldsInv, RowIds
  <2> QED
    BY <1>1, <1>5, <2>1, <2>2, <2>3, <2>4, <2>5, <2>6 DEF FieldsInv, RowIds
<1>9. NamesApart'
  BY <1>1, <1>3, <1>4, <1>5 DEF FieldsInv, NamesApart, Busy, Changes, NamesIn
<1>10. RowsNamed'
  <2>1. \A i \in DOMAIN fields : fields[i].name # fieldRequest[r].name
    BY <1>1, NamedAreRows
  <2>2. \A q \in Request : q # r => /\ Created(q)' <=> Created(q)
                                    /\ Changes(q)' <=> Changes(q)
                                    /\ NamesIn(q)' = NamesIn(q)
    BY <1>5 DEF Created, Changes, Busy, NamesIn
  <2>3. ~Changes(r)'
    BY <1>4, <1>5 DEF Changes
  <2> QED
    BY <1>1, <1>4, <1>5, <2>1, <2>2, <2>3 DEF FieldsInv, RowsNamed, Tainted
<1>11. Renaming'
  BY <1>1, <1>4, <1>5 DEF FieldsInv, Renaming, Tainted
<1>12. LayoutCopies' /\ LayoutsStand'
  BY <1>1, <1>4, <1>5 DEF FieldsInv, LayoutCopies, LayoutsStand, MayStand
<1>13. ColumnsMatch'
  <2>1. \A q \in Request : fieldRequest[q].step = "patch" => fieldRequest'[q].step = "patch" /\ NamesIn(q)' = NamesIn(q)
    BY <1>1, <1>5 DEF NamesIn
  <2> QED
    BY <1>1, <2>1 DEF FieldsInv, ColumnsMatch, Tainted
<1> QED
  BY <1>6, <1>7, <1>8, <1>9, <1>10, <1>11, <1>12, <1>13 DEF FieldsInv

\* A field is about to be deleted: whether the page layout names it is read with the layout.
LEMMA FieldDeleteKept == ASSUME FieldsInv, NEW r \in Request, NEW i \in Fields!Ids, Fields!BeginDelete(r, i) PROVE FieldsInv'
<1> DEFINE n == fields[i].name
           x == [Fields!Idle EXCEPT !.step = "page", !.op = "delete", !.name = n, !.to = n, !.id = i,
                                    !.placed = n \in layout, !.sections = layout]
<1>1. /\ i \in DOMAIN fields /\ n \in FieldName /\ i \in 0..MaxFields /\ layout \subseteq FieldName /\ (n \in layout) \in BOOLEAN
  BY FieldKnown DEF Fields!BeginDelete, Fields!Ids
<1>2. /\ x \in Fields!FieldChange /\ x.step = "page" /\ x.op = "delete" /\ x.name = n /\ x.to = n /\ x.sections = layout
      /\ x.hits = {} /\ x.id = i /\ (x.placed <=> n \in layout)
  BY <1>1, FieldIdle DEF Fields!FieldChange, Fields!Idle
<1>3. /\ fieldRequest' = [fieldRequest EXCEPT ![r] = x] /\ ~Busy(r) /\ Fields!Starts({n}, {i})
      /\ UNCHANGED <<columns, fields, layout, search, table, fieldPage, finder, fieldMade, renamed, torn>>
  BY DEF Fields!BeginDelete, Fields!at, Busy, Fields!store, Fields!locks
<1> HIDE DEF x, n
<1>4. {n} = {x.name, x.to} /\ {n} \in SUBSET FieldName /\ fields[i].name = n
  BY <1>1, <1>2 DEF n
<1>5. /\ fieldRequest' \in [Request -> Fields!FieldChange] /\ fieldRequest'[r] = x
      /\ \A q \in Request : q # r => fieldRequest'[q] = fieldRequest[q]
      /\ fieldCrossed \subseteq fieldCrossed' /\ fieldOverlapped \subseteq fieldOverlapped'
      /\ fieldCrossed' \subseteq FieldName /\ fieldOverlapped' \subseteq FieldName
      /\ RowIds' /\ NamesApart' /\ RowsNamed'
  BY <1>1, <1>2, <1>3, <1>4, FieldStarts
<1>6. Fields!TypeOK'
  BY <1>3, <1>5, FieldKnown DEF FieldsInv, Fields!TypeOK
<1>7. FieldSteps'
  BY <1>2, <1>5 DEF FieldsInv, FieldSteps
<1>8. Renaming'
  <2>1. \A q \in Request : fieldRequest'[q].step = "patch" => q # r /\ fieldRequest'[q] = fieldRequest[q]
    BY <1>2, <1>5
  <2> QED
    BY <1>3, <1>4, <2>1, RenamingStays DEF Renaming
<1>9. LayoutCopies' /\ LayoutsStand'
  BY <1>2, <1>3, <1>5 DEF FieldsInv, LayoutCopies, LayoutsStand, MayStand
<1>10. ColumnsMatch'
  <2>1. \A q \in Request : fieldRequest[q].step = "patch" => fieldRequest'[q].step = "patch" /\ NamesIn(q)' = NamesIn(q)
    BY <1>3, <1>5 DEF Busy, NamesIn
  <2> QED
    BY <1>3, <1>5, <2>1 DEF FieldsInv, ColumnsMatch, Tainted
<1> QED
  BY <1>5, <1>6, <1>7, <1>8, <1>9, <1>10 DEF FieldsInv

\* A request writes a layout, which the others see when its transaction ends.
LEMMA FieldWrites ==
  ASSUME FieldsInv, NEW r \in Request, NEW x \in Fields!FieldChange, fieldRequest' = [fieldRequest EXCEPT ![r] = x],
         fieldRequest[r].step \in {"page", "search"}, x.step \in {"search", "commit", "drop"},
         x.step = "commit" => x.op = "create", x.step = "drop" => x.op = "delete",
         x.op = fieldRequest[r].op, x.name = fieldRequest[r].name, x.to = fieldRequest[r].to, x.id = fieldRequest[r].id,
         {table', fieldPage', finder'} \subseteq Request \cup {None},
         UNCHANGED <<columns, fields, layout, search, fieldMade, renamed, torn, fieldCrossed, fieldOverlapped>>
  PROVE  /\ fieldRequest' \in [Request -> Fields!FieldChange] /\ fieldRequest'[r] = x
         /\ \A q \in Request : q # r => fieldRequest'[q] = fieldRequest[q]
         /\ LayoutCopies' => FieldsInv'
<1>1. /\ fieldRequest' \in [Request -> Fields!FieldChange] /\ fieldRequest'[r] = x
      /\ \A q \in Request : q # r => fieldRequest'[q] = fieldRequest[q]
  BY FieldMoves
<1>2. Fields!TypeOK'
  BY <1>1, FieldKnown DEF FieldsInv, Fields!TypeOK
<1>3. fieldRequest[r].op # "change"
  BY DEF FieldsInv, FieldSteps
<1>4. FieldSteps'
  BY <1>1, <1>3 DEF FieldsInv, FieldSteps
<1>5. \A q \in Request : /\ Busy(q)' <=> Busy(q)
                         /\ Created(q)' <=> Created(q)
                         /\ Changes(q)' <=> Changes(q)
                         /\ NamesIn(q)' = NamesIn(q) /\ fieldRequest'[q].id = fieldRequest[q].id
                         /\ fieldRequest'[q].name = fieldRequest[q].name
                         /\ fieldRequest'[q].to = fieldRequest[q].to
                         /\ fieldRequest'[q].step = "patch" <=> fieldRequest[q].step = "patch"
  BY <1>1 DEF Busy, Created, Changes, NamesIn
<1>6. RowIds' /\ NamesApart'
  BY <1>5 DEF FieldsInv, RowIds, NamesApart
<1>7. RowsNamed'
  BY <1>5 DEF FieldsInv, RowsNamed, Tainted
<1>8. Renaming' /\ LayoutsStand' /\ ColumnsMatch'
  BY <1>5 DEF FieldsInv, Renaming, LayoutsStand, MayStand, ColumnsMatch, Tainted
<1> QED
  BY <1>1, <1>2, <1>4, <1>6, <1>7, <1>8 DEF FieldsInv

LEMMA WritePageKept == ASSUME FieldsInv, NEW r \in Request, Fields!WritePage(r) PROVE FieldsInv'
<1> DEFINE S == IF fieldRequest[r].placed THEN Fields!Placed(r, fieldRequest[r].sections) ELSE fieldRequest[r].sections
           x == [fieldRequest[r] EXCEPT !.step = "search", !.hits = search, !.sections = S]
<1>1. /\ fieldRequest[r].step = "page" /\ fieldRequest[r].op \in {"create", "delete"}
      /\ fieldPage' \in {fieldPage, r} /\ fieldRequest' = [fieldRequest EXCEPT ![r] = x]
      /\ UNCHANGED <<columns, fields, layout, search, table, finder, fieldMade, renamed, torn, fieldCrossed, fieldOverlapped>>
  BY FieldKnown DEF FieldsInv, FieldSteps, Fields!WritePage, Fields!at, Fields!store, Fields!history
<1>2. S \subseteq FieldName
  BY FieldKnown DEF Fields!Placed
<1>3. /\ fieldRequest[r].op = "create" => S \subseteq fieldRequest[r].sections \cup {fieldRequest[r].name}
      /\ fieldRequest[r].op = "delete" => S \subseteq fieldRequest[r].sections
      /\ fieldRequest[r].op = "delete" /\ fieldRequest[r].placed => fieldRequest[r].name \notin S
  BY DEF Fields!Placed
<1> HIDE DEF S
<1>4. /\ x \in Fields!FieldChange /\ x.step = "search" /\ x.op = fieldRequest[r].op /\ x.name = fieldRequest[r].name
      /\ x.to = fieldRequest[r].to /\ x.id = fieldRequest[r].id /\ x.sections = S /\ x.hits = search
      /\ x.placed = fieldRequest[r].placed
  BY <1>2, FieldKnown DEF Fields!FieldChange
<1> HIDE DEF x
<1>5. /\ fieldRequest'[r] = x /\ \A q \in Request : q # r => fieldRequest'[q] = fieldRequest[q]
      /\ LayoutCopies' => FieldsInv'
  <2>1. {table', fieldPage', finder'} \subseteq Request \cup {None}
    BY <1>1, FieldKnown
  <2>2. /\ x.step \in {"search", "commit", "drop"}
        /\ x.step = "commit" => x.op = "create"
        /\ x.step = "drop" => x.op = "delete"
    BY <1>1, <1>4
  <2> QED
    BY <1>1, <1>4, <2>1, <2>2, FieldWrites
<1>6. LayoutCopies'
  <2>1. \A n : MayStand(n)' <=> MayStand(n)
    BY <1>1 DEF MayStand
  <2>2. \A n \in S \cup search : MayStand(n) \/ (x.op = "create" /\ n = x.name)
    BY <1>1, <1>3, <1>4 DEF FieldsInv, LayoutCopies, LayoutsStand
  <2>3. x.op = "delete" /\ x.name \notin fieldOverlapped =>
          /\ ~x.placed => x.name \notin layout
          /\ x.placed => x.name \notin x.sections
    BY <1>1, <1>3, <1>4 DEF FieldsInv, LayoutCopies
  <2> QED
    BY <1>1, <1>4, <1>5, <2>1, <2>2, <2>3 DEF FieldsInv, LayoutCopies
<1> QED
  BY <1>5, <1>6

LEMMA WriteSearchKept == ASSUME FieldsInv, NEW r \in Request, Fields!WriteSearch(r) PROVE FieldsInv'
<1> DEFINE S == Fields!Hits(r)
           s == IF fieldRequest[r].op = "create" THEN "commit" ELSE "drop"
           x == [fieldRequest[r] EXCEPT !.hits = S, !.step = s]
<1>1. /\ fieldRequest[r].step = "search" /\ fieldRequest[r].op \in {"create", "delete"}
      /\ finder' = r /\ fieldRequest' = [fieldRequest EXCEPT ![r] = x]
      /\ UNCHANGED <<columns, fields, layout, search, table, fieldPage, fieldMade, renamed, torn, fieldCrossed, fieldOverlapped>>
  BY FieldKnown DEF FieldsInv, FieldSteps, Fields!WriteSearch, Fields!at, Fields!store, Fields!history
<1>2. S \subseteq FieldName
  BY FieldKnown DEF Fields!Hits, Fields!Placed
<1>3. /\ fieldRequest[r].op = "create" => S \subseteq fieldRequest[r].hits \cup {fieldRequest[r].name}
      /\ fieldRequest[r].op = "delete" => S \subseteq fieldRequest[r].hits
      /\ fieldRequest[r].op = "delete" => fieldRequest[r].name \notin S
  BY DEF Fields!Placed, Fields!Hits
<1> HIDE DEF S
<1>4. /\ x \in Fields!FieldChange /\ x.step = s /\ x.op = fieldRequest[r].op /\ x.name = fieldRequest[r].name
      /\ x.to = fieldRequest[r].to /\ x.id = fieldRequest[r].id /\ x.sections = fieldRequest[r].sections /\ x.hits = S
      /\ x.placed = fieldRequest[r].placed /\ s \in {"commit", "drop"} /\ (s = "commit" <=> fieldRequest[r].op = "create")
  BY <1>2, FieldKnown DEF Fields!FieldChange
<1> HIDE DEF x, s
<1>5. /\ fieldRequest'[r] = x /\ \A q \in Request : q # r => fieldRequest'[q] = fieldRequest[q]
      /\ LayoutCopies' => FieldsInv'
  <2>1. {table', fieldPage', finder'} \subseteq Request \cup {None}
    BY <1>1, FieldKnown
  <2>2. /\ x.step \in {"search", "commit", "drop"}
        /\ x.step = "commit" => x.op = "create"
        /\ x.step = "drop" => x.op = "delete"
    BY <1>1, <1>4
  <2> QED
    BY <1>1, <1>4, <2>1, <2>2, FieldWrites
<1>6. LayoutCopies'
  <2>1. \A n : MayStand(n)' <=> MayStand(n)
    BY <1>1 DEF MayStand
  <2>2. \A n \in x.sections \cup S : MayStand(n) \/ (x.op = "create" /\ n = x.name)
    BY <1>1, <1>3, <1>4 DEF FieldsInv, LayoutCopies, LayoutsStand
  <2>3. x.op = "delete" /\ x.name \notin fieldOverlapped =>
          /\ ~x.placed => x.name \notin layout
          /\ x.placed => x.name \notin x.sections
          /\ x.name \notin S
    BY <1>1, <1>3, <1>4 DEF FieldsInv, LayoutCopies
  <2> QED
    BY <1>1, <1>4, <1>5, <2>1, <2>2, <2>3 DEF FieldsInv, LayoutCopies
<1> QED
  BY <1>5, <1>6

\* A request ends: its names are its own no more.
LEMMA FieldIsDone ==
  ASSUME FieldsInv, NEW r \in Request, Fields!Done(r), Fields!Unlock(r)
  PROVE  /\ fieldRequest' \in [Request -> Fields!FieldChange] /\ fieldRequest'[r] = Fields!Idle
         /\ ~Busy(r)' /\ ~Created(r)' /\ ~Changes(r)' /\ fieldRequest'[r].step # "patch"
         /\ \A q \in Request : q # r => fieldRequest'[q] = fieldRequest[q]
         /\ \A q \in Request : Busy(q)' => q # r /\ Busy(q)
         /\ \A q \in Request : q # r => /\ Busy(q)' <=> Busy(q)
                                        /\ Created(q)' <=> Created(q)
                                        /\ Changes(q)' <=> Changes(q)
                                        /\ NamesIn(q)' = NamesIn(q)
         /\ {table', fieldPage', finder'} \subseteq Request \cup {None}
         /\ FieldSteps'
<1>1. /\ fieldRequest' \in [Request -> Fields!FieldChange] /\ fieldRequest'[r] = Fields!Idle
      /\ \A q \in Request : q # r => fieldRequest'[q] = fieldRequest[q]
  BY FieldIdle, FieldMoves DEF Fields!Done
<1>2. {table', fieldPage', finder'} \subseteq Request \cup {None}
  BY FieldKnown DEF Fields!Unlock
<1>3. FieldSteps'
  BY <1>1, FieldIdle DEF FieldsInv, FieldSteps
<1> QED
  BY <1>1, <1>2, <1>3, FieldIdle DEF Busy, Created, Changes, NamesIn

\* A name that two requests work on.
LEMMA NamesMeet ==
  ASSUME FieldsInv, NEW q \in Request, NEW r \in Request, q # r, Busy(q), Busy(r), NEW n \in NamesIn(q), n \in NamesIn(r)
  PROVE  NamesIn(q) \subseteq fieldCrossed /\ NamesIn(r) \subseteq fieldCrossed
<1>1. NamesIn(q) \cap NamesIn(r) # {}
  OBVIOUS
<1> QED
  BY <1>1 DEF FieldsInv, NamesApart

LEMMA CommitKept == ASSUME FieldsInv, NEW r \in Request, Fields!Commit(r) PROVE FieldsInv'
<1> DEFINE x == fieldRequest[r]
           new == [name |-> x.name, kind |-> x.kind]
<1>1. /\ x.step = "commit" /\ Fields!Done(r) /\ Fields!Unlock(r)
      /\ columns' = IF x.kind = "stored" THEN columns \cup {x.name} ELSE columns
      /\ fields' = [i \in DOMAIN fields \cup {x.id} |-> IF i = x.id THEN new ELSE fields[i]]
      /\ renamed' = renamed \ {x.name}
      /\ layout' = IF x.placed THEN x.sections ELSE layout
      /\ search' = x.hits
      /\ UNCHANGED <<fieldMade, torn, fieldCrossed, fieldOverlapped>>
  BY DEF Fields!Commit, Fields!at, Fields!Layouts
<1>2. /\ x.name \in FieldName /\ x.kind \in {"stored", "computed"} /\ x.sections \subseteq FieldName /\ x.hits \subseteq FieldName
      /\ x.op = "create" /\ Created(r) /\ Busy(r) /\ ~Changes(r) /\ x.name \in NamesIn(r)
  BY <1>1, FieldKnown DEF FieldsInv, FieldSteps, Created, Busy, Changes, NamesIn
<1>3. /\ fieldRequest'[r].step # "patch" /\ fieldRequest'[r] = Fields!Idle
      /\ \A q \in Request : q # r => fieldRequest'[q] = fieldRequest[q]
      /\ \A q \in Request : Busy(q)' => q # r /\ Busy(q)
      /\ fieldRequest' \in [Request -> Fields!FieldChange] /\ {table', fieldPage', finder'} \subseteq Request \cup {None}
      /\ FieldSteps' /\ ~Created(r)' /\ ~Changes(r)'
      /\ \A q \in Request : q # r => (Created(q)' <=> Created(q)) /\ (Changes(q)' <=> Changes(q)) /\ NamesIn(q)' = NamesIn(q)
  BY <1>1, FieldIsDone
<1>4. x.id \in 1..fieldMade /\ x.id \notin DOMAIN fields
  BY <1>2 DEF FieldsInv, RowIds
<1>5. /\ DOMAIN fields' = DOMAIN fields \cup {x.id} /\ fields'[x.id].name = x.name /\ fields'[x.id].kind = x.kind
      /\ fields'[x.id] = new /\ \A i \in DOMAIN fields : fields'[i] = fields[i] /\ i # x.id
  BY <1>1, <1>4
<1>6. \A q \in Request : q # r /\ Busy(q) => NamesIn(q) \subseteq fieldOverlapped
  BY <1>2 DEF FieldsInv, NamesApart
<1>7. \A q \in Request : q # r /\ (Created(q) \/ Changes(q)) => fieldRequest[q].id # x.id
  BY <1>2 DEF FieldsInv, RowIds
<1>8. x.name \notin fieldCrossed => \A i \in DOMAIN fields : fields[i].name # x.name
  BY <1>2 DEF FieldsInv, RowsNamed
<1>9. Fields!TypeOK'
  <2>1. \A i \in DOMAIN fields' : i \in Fields!Ids /\ fields'[i] \in Fields!FieldRow
    BY <1>2, <1>4, <1>5, FieldKnown DEF Fields!Ids, Fields!FieldRow
  <2> QED
    BY <1>1, <1>2, <1>3, <2>1, FieldKnown DEF FieldsInv, Fields!TypeOK
<1>10. RowIds'
  <2>1. \A i \in DOMAIN fields' : i \in 1..fieldMade
    BY <1>4, <1>5 DEF FieldsInv, RowIds
  <2>2. \A q \in Request : Created(q)' \/ Changes(q)' => /\ q # r /\ (Created(q)' => Created(q))
                                                       /\ (Changes(q)' => Changes(q))
                                                       /\ fieldRequest'[q].id = fieldRequest[q].id
                                                       /\ fieldRequest[q].id # x.id
    BY <1>3, <1>7
  <2> QED
    BY <1>1, <1>5, <2>1, <2>2 DEF FieldsInv, RowIds
<1>11. NamesApart'
  BY <1>1, <1>3 DEF FieldsInv, NamesApart
<1>12. RowsNamed'
  <2>1. \A i, j \in DOMAIN fields' : i # j /\ fields'[i].name = fields'[j].name => fields'[i].name \in fieldCrossed
    BY <1>5, <1>8 DEF FieldsInv, RowsNamed
  <2>2. \A q \in Request : Created(q)' /\ fieldRequest'[q].name \notin fieldCrossed =>
          \A i \in DOMAIN fields' : fields'[i].name # fieldRequest'[q].name
    <3> SUFFICES ASSUME NEW q \in Request, Created(q)', fieldRequest'[q].name \notin fieldCrossed, NEW i \in DOMAIN fields'
                 PROVE  fields'[i].name # fieldRequest'[q].name
      OBVIOUS
    <3>1. q # r /\ Created(q) /\ Busy(q) /\ fieldRequest'[q] = fieldRequest[q]
      BY <1>3 DEF Created
    <3>2. fieldRequest[q].name # x.name
      <4>1. fieldRequest[q].name \in NamesIn(q) /\ fieldRequest[q].name \notin fieldCrossed
        BY <3>1 DEF NamesIn
      <4> QED
        BY <1>2, <3>1, <4>1, NamesMeet
    <3> QED
      BY <1>5, <3>1, <3>2 DEF FieldsInv, RowsNamed
  <2>3. ASSUME NEW q \in Request, Changes(q)'
        PROVE  \/ fieldRequest'[q].id \in DOMAIN fields' /\ fields'[fieldRequest'[q].id].name = fieldRequest'[q].name
               \/ /\ NamesIn(q)' \subseteq fieldCrossed /\ NamesIn(q)' \subseteq fieldOverlapped
                  /\ fieldRequest'[q].id \in DOMAIN fields' =>
                       /\ fields'[fieldRequest'[q].id].name \in fieldCrossed \cup torn
                       /\ fields'[fieldRequest'[q].id].name \in fieldOverlapped
    <3>1. q # r /\ Changes(q) /\ Busy(q) /\ fieldRequest'[q] = fieldRequest[q] /\ NamesIn(q)' = NamesIn(q)
      BY <1>3, <2>3 DEF Changes
    <3>2. fieldRequest[q].id # x.id
      BY <1>7, <3>1
    <3> QED
      BY <1>5, <3>1, <3>2 DEF FieldsInv, RowsNamed, Tainted
  <2> QED
    BY <1>1, <2>1, <2>2, <2>3 DEF RowsNamed, Tainted
<1>13. Renaming'
  <2> SUFFICES ASSUME NEW q \in Request, fieldRequest'[q].step = "patch"
               PROVE  /\ fieldRequest'[q].name \in renamed' \cup fieldOverlapped
                      /\ fieldRequest'[q].name \notin fieldCrossed \cup torn => fieldRequest'[q].name \notin columns'
                      /\ fieldRequest'[q].to \notin fieldCrossed \cup torn => /\ fieldRequest'[q].to \in columns'
                           /\ fieldRequest'[q].name \notin fieldCrossed \cup torn /\ fields'[fieldRequest'[q].id].kind = "stored"
    BY <1>1 DEF Renaming, Tainted
  <2>1. /\ q # r /\ fieldRequest'[q] = fieldRequest[q] /\ fieldRequest[q].step = "patch" /\ Busy(q) /\ Changes(q)
        /\ fieldRequest[q].name \in NamesIn(q) /\ fieldRequest[q].to \in NamesIn(q)
    BY <1>3 DEF FieldsInv, FieldSteps, Busy, Changes, NamesIn
  <2>2. fieldRequest[q].name \in fieldOverlapped /\ (fieldRequest[q].name \notin fieldCrossed => fieldRequest[q].name # x.name)
    BY <1>2, <1>6, <2>1, NamesMeet
  <2>3. fieldRequest[q].name \notin fieldCrossed \cup torn => fieldRequest[q].name \notin columns'
    BY <1>1, <2>1, <2>2 DEF FieldsInv, Renaming, Tainted
  <2>4. fieldRequest[q].to \notin fieldCrossed => fieldRequest[q].id \in DOMAIN fields
    BY <2>1 DEF FieldsInv, RowsNamed
  <2>5. fieldRequest[q].to \notin fieldCrossed \cup torn => /\ fieldRequest[q].to \in columns'
          /\ fieldRequest[q].name \notin fieldCrossed \cup torn /\ fields'[fieldRequest[q].id].kind = "stored"
    BY <1>1, <1>5, <2>1, <2>4 DEF FieldsInv, Renaming, Tainted
  <2> QED
    BY <2>1, <2>2, <2>3, <2>5
<1>14. \A n : MayStand(n) \/ n = x.name => MayStand(n)'
  BY <1>1, <1>5 DEF MayStand
<1>15. LayoutsStand'
  BY <1>1, <1>2, <1>14 DEF FieldsInv, LayoutsStand, LayoutCopies
<1>16. LayoutCopies'
  <2> SUFFICES ASSUME NEW q \in Request
               PROVE  /\ \A n \in fieldRequest'[q].sections \cup fieldRequest'[q].hits :
                           MayStand(n)' \/ (fieldRequest'[q].op = "create" /\ n = fieldRequest'[q].name)
                      /\ fieldRequest'[q].step # "idle" =>
                        (fieldRequest'[q].op = "delete" => fieldRequest'[q].name \in fieldOverlapped)
    BY <1>1 DEF LayoutCopies
  <2>1. CASE q = r
    BY <1>3, <2>1, FieldIdle
  <2>2. CASE q # r
    <3>1. fieldRequest'[q] = fieldRequest[q]
      BY <1>3, <2>2
    <3>2. fieldRequest[q].step # "idle" => fieldRequest[q].name \in fieldOverlapped
      BY <1>6, <2>2 DEF Busy, NamesIn
    <3>3. \A n \in fieldRequest[q].sections \cup fieldRequest[q].hits :
             MayStand(n)' \/ (fieldRequest[q].op = "create" /\ n = fieldRequest[q].name)
      BY <1>14 DEF FieldsInv, LayoutCopies
    <3> QED
      BY <3>1, <3>2, <3>3
  <2> QED
    BY <2>1, <2>2
<1>17. ColumnsMatch'
  <2> SUFFICES ASSUME NEW n \in FieldName, n \notin fieldCrossed \cup torn,
                      \A q \in Request : fieldRequest'[q].step = "patch" => n \notin NamesIn(q)'
               PROVE  n \in columns' <=> \E i \in DOMAIN fields' : fields'[i].name = n /\ fields'[i].kind = "stored"
    BY <1>1 DEF ColumnsMatch, Tainted
  <2>1. \A q \in Request : fieldRequest[q].step = "patch" => n \notin NamesIn(q)
    BY <1>1, <1>3 DEF NamesIn
  <2>2. n \in columns <=> \E i \in DOMAIN fields : fields[i].name = n /\ fields[i].kind = "stored"
    BY <2>1 DEF FieldsInv, ColumnsMatch, Tainted
  <2>3. n # x.name => (n \in columns' <=> n \in columns)
    BY <1>1
  <2>4. n # x.name => ((\E i \in DOMAIN fields' : fields'[i].name = n /\ fields'[i].kind = "stored")
                        <=> \E i \in DOMAIN fields : fields[i].name = n /\ fields[i].kind = "stored")
    BY <1>5
  <2>5. n = x.name => n \notin columns
    BY <1>8, <2>2
  <2>6. n = x.name => (n \in columns' <=> x.kind = "stored")
    BY <1>1, <2>5
  <2>7. n = x.name => ((\E i \in DOMAIN fields' : fields'[i].name = n /\ fields'[i].kind = "stored") <=> x.kind = "stored")
    BY <1>5, <1>8
  <2> QED
    BY <2>2, <2>3, <2>4, <2>6, <2>7
<1> QED
  BY <1>3, <1>9, <1>10, <1>11, <1>12, <1>13, <1>15, <1>16, <1>17 DEF FieldsInv

LEMMA DropKept == ASSUME FieldsInv, NEW r \in Request, Fields!Drop(r) PROVE FieldsInv'
<1> DEFINE x == fieldRequest[r]
<1>1. /\ x.step = "drop" /\ Fields!Done(r) /\ Fields!Unlock(r)
      /\ columns' = columns \ {x.name}
      /\ fields' = [i \in DOMAIN fields \ {x.id} |-> fields[i]]
      /\ layout' = IF x.placed THEN x.sections ELSE layout
      /\ search' = x.hits
      /\ UNCHANGED <<fieldMade, renamed, torn, fieldCrossed, fieldOverlapped>>
  BY DEF Fields!Drop, Fields!at, Fields!Layouts, Fields!history
<1>2. /\ x.name \in FieldName /\ x.sections \subseteq FieldName /\ x.hits \subseteq FieldName
      /\ x.op = "delete" /\ Changes(r) /\ Busy(r) /\ x.name \in NamesIn(r) /\ x.placed \in BOOLEAN
      /\ NamesIn(r) = {x.name}
  BY <1>1, FieldKnown DEF FieldsInv, FieldSteps, Busy, Changes, NamesIn
<1>3. /\ fieldRequest'[r].step # "patch" /\ fieldRequest'[r] = Fields!Idle
      /\ \A q \in Request : q # r => fieldRequest'[q] = fieldRequest[q]
      /\ \A q \in Request : Busy(q)' => q # r /\ Busy(q)
      /\ fieldRequest' \in [Request -> Fields!FieldChange] /\ {table', fieldPage', finder'} \subseteq Request \cup {None}
      /\ FieldSteps' /\ ~Created(r)' /\ ~Changes(r)'
      /\ \A q \in Request : q # r => (Created(q)' <=> Created(q)) /\ (Changes(q)' <=> Changes(q)) /\ NamesIn(q)' = NamesIn(q)
  BY <1>1, FieldIsDone
<1>4. DOMAIN fields' = DOMAIN fields \ {x.id} /\ \A i \in DOMAIN fields' : fields'[i] = fields[i]
  BY <1>1
<1>5. \A q \in Request : q # r /\ Busy(q) => NamesIn(q) \subseteq fieldOverlapped /\ x.name \in fieldOverlapped
  BY <1>2 DEF FieldsInv, NamesApart
\* The row that goes is the one of the name, or one of a name that is noted.
<1>6. x.id \in DOMAIN fields => \/ fields[x.id].name = x.name
                                \/ fields[x.id].name \in fieldOverlapped /\ fields[x.id].name \in fieldCrossed \cup torn
  BY <1>2 DEF FieldsInv, RowsNamed, Tainted
<1>7. x.name \notin fieldCrossed => \A i \in DOMAIN fields : fields[i].name = x.name <=> i = x.id
  <2>1. x.name \notin fieldCrossed => x.id \in DOMAIN fields /\ fields[x.id].name = x.name
    BY <1>2 DEF FieldsInv, RowsNamed
  <2> QED
    BY <2>1 DEF FieldsInv, RowsNamed
<1>8. Fields!TypeOK'
  <2>1. \A i \in DOMAIN fields' : i \in Fields!Ids /\ fields'[i] \in Fields!FieldRow
    BY <1>4, FieldKnown
  <2> QED
    BY <1>1, <1>2, <1>3, <2>1, FieldKnown DEF FieldsInv, Fields!TypeOK
<1>9. RowIds'
  BY <1>1, <1>3, <1>4 DEF FieldsInv, RowIds
<1>10. NamesApart'
  BY <1>1, <1>3 DEF FieldsInv, NamesApart
<1>11. RowsNamed'
  <2>1. \A i, j \in DOMAIN fields' : i # j /\ fields'[i].name = fields'[j].name => fields'[i].name \in fieldCrossed
    BY <1>4 DEF FieldsInv, RowsNamed
  <2>2. \A q \in Request : Created(q)' /\ fieldRequest'[q].name \notin fieldCrossed =>
          \A i \in DOMAIN fields' : fields'[i].name # fieldRequest'[q].name
    BY <1>3, <1>4 DEF FieldsInv, RowsNamed
  <2>3. ASSUME NEW q \in Request, Changes(q)'
        PROVE  \/ fieldRequest'[q].id \in DOMAIN fields' /\ fields'[fieldRequest'[q].id].name = fieldRequest'[q].name
               \/ /\ NamesIn(q)' \subseteq fieldCrossed /\ NamesIn(q)' \subseteq fieldOverlapped
                  /\ fieldRequest'[q].id \in DOMAIN fields' =>
                       /\ fields'[fieldRequest'[q].id].name \in fieldCrossed \cup torn
                       /\ fields'[fieldRequest'[q].id].name \in fieldOverlapped
    <3>1. q # r /\ Changes(q) /\ Busy(q) /\ fieldRequest'[q] = fieldRequest[q] /\ NamesIn(q)' = NamesIn(q)
      BY <1>3, <2>3 DEF Changes
    <3>2. CASE fieldRequest[q].id = x.id
      <4>1. NamesIn(q) \subseteq fieldCrossed /\ NamesIn(q) \subseteq fieldOverlapped
        BY <1>2, <3>1, <3>2 DEF FieldsInv, NamesApart
      <4> QED
        BY <1>4, <3>1, <3>2, <4>1
    <3>3. CASE fieldRequest[q].id # x.id
      BY <1>4, <3>1, <3>3 DEF FieldsInv, RowsNamed, Tainted
    <3> QED
      BY <3>2, <3>3
  <2> QED
    BY <1>1, <2>1, <2>2, <2>3 DEF RowsNamed, Tainted
<1>12. Renaming'
  <2> SUFFICES ASSUME NEW q \in Request, fieldRequest'[q].step = "patch"
               PROVE  /\ fieldRequest'[q].name \in renamed \cup fieldOverlapped
                      /\ fieldRequest'[q].name \notin fieldCrossed \cup torn => fieldRequest'[q].name \notin columns'
                      /\ fieldRequest'[q].to \notin fieldCrossed \cup torn => /\ fieldRequest'[q].to \in columns'
                           /\ fieldRequest'[q].name \notin fieldCrossed \cup torn /\ fields'[fieldRequest'[q].id].kind = "stored"
    BY <1>1 DEF Renaming, Tainted
  <2>1. /\ q # r /\ fieldRequest'[q] = fieldRequest[q] /\ fieldRequest[q].step = "patch" /\ Busy(q) /\ Changes(q)
        /\ fieldRequest[q].name \in NamesIn(q) /\ fieldRequest[q].to \in NamesIn(q)
    BY <1>3 DEF FieldsInv, FieldSteps, Busy, Changes, NamesIn
  <2>2. fieldRequest[q].to \notin fieldCrossed => fieldRequest[q].to # x.name
    BY <1>2, <2>1, NamesMeet
  <2>3. fieldRequest[q].to \notin fieldCrossed => fieldRequest[q].id \in DOMAIN fields /\ fieldRequest[q].id # x.id
    <3>1. fieldRequest[q].to \notin fieldCrossed => fieldRequest[q].id \in DOMAIN fields
      BY <2>1 DEF FieldsInv, RowsNamed
    <3>2. fieldRequest[q].id = x.id => NamesIn(q) \subseteq fieldCrossed
      BY <1>2, <2>1 DEF FieldsInv, NamesApart
    <3> QED
      BY <2>1, <3>1, <3>2
  <2>4. fieldRequest[q].to \notin fieldCrossed \cup torn => /\ fieldRequest[q].to \in columns'
          /\ fieldRequest[q].name \notin fieldCrossed \cup torn /\ fields'[fieldRequest[q].id].kind = "stored"
    BY <1>1, <1>4, <2>1, <2>2, <2>3 DEF FieldsInv, Renaming, Tainted
  <2>5. /\ fieldRequest[q].name \in renamed \cup fieldOverlapped
        /\ fieldRequest[q].name \notin fieldCrossed \cup torn => fieldRequest[q].name \notin columns'
    BY <1>1, <2>1 DEF FieldsInv, Renaming, Tainted
  <2> QED
    BY <2>1, <2>4, <2>5
<1>13. \A n : MayStand(n) /\ n # x.name => MayStand(n)'
  BY <1>1, <1>4, <1>6 DEF MayStand
<1>14. LayoutsStand'
  <2>1. x.name \in layout' \cup search' => x.name \in fieldOverlapped
    BY <1>1, <1>2 DEF FieldsInv, LayoutCopies
  <2>2. \A n \in layout' \cup search' : MayStand(n)
    BY <1>1, <1>2 DEF FieldsInv, LayoutCopies, LayoutsStand
  <2>3. \A n : n \in fieldOverlapped => MayStand(n)'
    BY <1>1 DEF MayStand
  <2> QED
    BY <1>13, <2>1, <2>2, <2>3 DEF LayoutsStand
<1>15. LayoutCopies'
  <2> SUFFICES ASSUME NEW q \in Request
               PROVE  /\ \A n \in fieldRequest'[q].sections \cup fieldRequest'[q].hits :
                           MayStand(n)' \/ (fieldRequest'[q].op = "create" /\ n = fieldRequest'[q].name)
                      /\ fieldRequest'[q].step # "idle" => (fieldRequest'[q].op = "delete" => fieldRequest'[q].name \in fieldOverlapped)
    BY <1>1 DEF LayoutCopies
  <2>1. CASE q = r
    BY <1>3, <2>1, FieldIdle
  <2>2. CASE q # r
    <3>1. fieldRequest'[q] = fieldRequest[q]
      BY <1>3, <2>2
    <3>2. fieldRequest[q].step # "idle" => fieldRequest[q].name \in fieldOverlapped /\ x.name \in fieldOverlapped
      BY <1>5, <2>2 DEF Busy, NamesIn
    <3>3. fieldRequest[q].step = "idle" => fieldRequest[q].sections = {} /\ fieldRequest[q].hits = {}
      BY DEF FieldsInv, FieldSteps
    <3>4. \A n : n \in fieldOverlapped => MayStand(n)'
      BY <1>1 DEF MayStand
    <3>5. \A n \in fieldRequest[q].sections \cup fieldRequest[q].hits :
             MayStand(n)' \/ (fieldRequest[q].op = "create" /\ n = fieldRequest[q].name)
      BY <1>13, <3>2, <3>3, <3>4 DEF FieldsInv, LayoutCopies
    <3> QED
      BY <3>1, <3>2, <3>5
  <2> QED
    BY <2>1, <2>2
<1>16. ColumnsMatch'
  <2> SUFFICES ASSUME NEW n \in FieldName, n \notin fieldCrossed \cup torn,
                      \A q \in Request : fieldRequest'[q].step = "patch" => n \notin NamesIn(q)'
               PROVE  n \in columns' <=> \E i \in DOMAIN fields' : fields'[i].name = n /\ fields'[i].kind = "stored"
    BY <1>1 DEF ColumnsMatch, Tainted
  <2>1. \A q \in Request : fieldRequest[q].step = "patch" => n \notin NamesIn(q)
    BY <1>1, <1>3 DEF NamesIn
  <2>2. n \in columns <=> \E i \in DOMAIN fields : fields[i].name = n /\ fields[i].kind = "stored"
    BY <2>1 DEF FieldsInv, ColumnsMatch, Tainted
  <2>3. n # x.name => (n \in columns' <=> n \in columns)
    BY <1>1
  <2>4. n # x.name => ((\E i \in DOMAIN fields' : fields'[i].name = n /\ fields'[i].kind = "stored")
                        <=> \E i \in DOMAIN fields : fields[i].name = n /\ fields[i].kind = "stored")
    BY <1>4, <1>6
  <2>5. n = x.name => n \notin columns' /\ ~\E i \in DOMAIN fields' : fields'[i].name = n
    BY <1>1, <1>4, <1>7
  <2> QED
    BY <2>2, <2>3, <2>4, <2>5
<1> QED
  BY <1>3, <1>8, <1>9, <1>10, <1>11, <1>12, <1>14, <1>15, <1>16 DEF FieldsInv

\* The column gets its new name in a transaction of its own; what cannot be undone is noted.
LEMMA RenameKept ==
  ASSUME FieldsInv, NEW r \in Request, NEW i \in Fields!Ids, NEW m \in FieldName, Fields!Rename(r, i, m)
  PROVE  FieldsInv'
<1> DEFINE n == fields[i].name
           x == [Fields!Idle EXCEPT !.step = "patch", !.op = "change", !.name = n, !.to = m, !.id = i]
<1>1. /\ i \in DOMAIN fields /\ n \in FieldName /\ i \in 0..MaxFields /\ n # m /\ n \in columns /\ m \notin columns
  BY FieldKnown DEF Fields!Rename, Fields!Ids
<1>2. /\ x \in Fields!FieldChange /\ x.step = "patch" /\ x.op = "change" /\ x.name = n /\ x.to = m /\ x.sections = {}
      /\ x.hits = {} /\ x.id = i
  BY <1>1, FieldIdle DEF Fields!FieldChange, Fields!Idle
<1>3. /\ fieldRequest' = [fieldRequest EXCEPT ![r] = x] /\ ~Busy(r) /\ Fields!Starts({n, m}, {i})
      /\ columns' = (columns \ {n}) \cup {m}
      /\ renamed' = renamed \cup {n}
      /\ torn' = torn \cup {k \in {m} : n \in fieldCrossed \cup torn}
      /\ UNCHANGED <<fields, layout, search, table, fieldPage, finder, fieldMade>>
  BY DEF Fields!Rename, Fields!at, Busy, Fields!locks
<1> HIDE DEF x, n
<1>4. {n, m} = {x.name, x.to} /\ {n, m} \in SUBSET FieldName /\ fields[i].name = n
  BY <1>1, <1>2 DEF n
<1>5. /\ fieldRequest' \in [Request -> Fields!FieldChange] /\ fieldRequest'[r] = x
      /\ \A q \in Request : q # r => fieldRequest'[q] = fieldRequest[q]
      /\ fieldCrossed \subseteq fieldCrossed' /\ fieldOverlapped \subseteq fieldOverlapped'
      /\ fieldCrossed' \subseteq FieldName /\ fieldOverlapped' \subseteq FieldName
      /\ RowIds' /\ NamesApart' /\ RowsNamed'
  BY <1>1, <1>2, <1>3, <1>4, FieldStarts
<1>6. /\ \A q \in Request : Busy(q) /\ {n, m} \cap NamesIn(q) # {} => {n, m} \subseteq fieldCrossed'
      /\ {n, m} \subseteq fieldCrossed' \/ fieldCrossed' = fieldCrossed
  BY <1>3, <1>4, StartsNote
<1>7. torn \subseteq torn' /\ torn' \subseteq torn \cup {n, m} /\ torn' \subseteq FieldName
  BY <1>1, <1>3, FieldKnown
<1>8. Fields!TypeOK'
  BY <1>1, <1>3, <1>5, <1>7, FieldKnown DEF FieldsInv, Fields!TypeOK
<1>9. FieldSteps'
  BY <1>1, <1>2, <1>5 DEF FieldsInv, FieldSteps
\* The new name is not noted only if the old one was not, and then the row has a column.
<1>10. ASSUME m \notin fieldCrossed' \cup torn'
       PROVE  n \notin fieldCrossed' \cup torn' /\ fields[i].kind = "stored"
  <2>1. n \notin fieldCrossed' \cup torn' /\ n \notin fieldCrossed \cup torn
    BY <1>1, <1>3, <1>6, <1>10
  <2>2. \A q \in Request : fieldRequest[q].step = "patch" => n \notin NamesIn(q)
    BY <1>6, <1>10 DEF Busy
  <2>3. PICK j \in DOMAIN fields : fields[j].name = n /\ fields[j].kind = "stored"
    BY <1>1, <2>1, <2>2 DEF FieldsInv, ColumnsMatch, Tainted
  <2>4. j = i
    BY <1>1, <1>4, <2>1, <2>3 DEF FieldsInv, RowsNamed
  <2> QED
    BY <2>1, <2>3, <2>4
<1>11. Renaming'
  <2> SUFFICES ASSUME NEW q \in Request, fieldRequest'[q].step = "patch"
               PROVE  /\ fieldRequest'[q].name \in renamed' \cup fieldOverlapped'
                      /\ fieldRequest'[q].name \notin Tainted' => fieldRequest'[q].name \notin columns'
                      /\ fieldRequest'[q].to \notin Tainted' => /\ fieldRequest'[q].to \in columns'
                           /\ fieldRequest'[q].name \notin Tainted' /\ fields'[fieldRequest'[q].id].kind = "stored"
    BY DEF Renaming
  <2>1. CASE q = r
    BY <1>1, <1>2, <1>3, <1>5, <1>10, <2>1 DEF Tainted
  <2>2. CASE q # r
    <3>1. fieldRequest'[q] = fieldRequest[q]
      BY <1>5, <2>2
    <3>2. columns \ {n, m} = columns' \ {n, m} /\ renamed \subseteq renamed'
      BY <1>3
    <3> QED
      BY <1>3, <1>4, <1>7, <3>1, <3>2, RenamingStays
  <2> QED
    BY <2>1, <2>2
<1>12. LayoutCopies' /\ LayoutsStand'
  <2>1. \A k : MayStand(k) => MayStand(k)'
    BY <1>3, <1>5 DEF MayStand
  <2>2. LayoutsStand'
    BY <1>3, <2>1 DEF FieldsInv, LayoutsStand
  <2>3. LayoutCopies'
    BY <1>2, <1>3, <1>5, <2>1 DEF FieldsInv, LayoutCopies
  <2> QED
    BY <2>2, <2>3
<1>13. ColumnsMatch'
  <2> SUFFICES ASSUME NEW k \in FieldName, k \notin Tainted',
                      \A q \in Request : fieldRequest'[q].step = "patch" => k \notin NamesIn(q)'
               PROVE  k \in columns' <=> \E j \in DOMAIN fields : fields[j].name = k /\ fields[j].kind = "stored"
    BY <1>3 DEF ColumnsMatch
  <2>1. k \notin {n, m}
    BY <1>2, <1>5 DEF NamesIn
  <2>2. \A q \in Request : fieldRequest[q].step = "patch" => k \notin NamesIn(q)
    BY <1>3, <1>5 DEF Busy, NamesIn
  <2>3. k \notin Tainted
    BY <1>5, <1>7 DEF Tainted
  <2> QED
    BY <1>3, <2>1, <2>2, <2>3 DEF FieldsInv, ColumnsMatch
<1> QED
  BY <1>5, <1>8, <1>9, <1>11, <1>12, <1>13 DEF FieldsInv

\* The row follows its column.
LEMMA PatchFieldKept == ASSUME FieldsInv, NEW r \in Request, Fields!Patch(r) PROVE FieldsInv'
<1> DEFINE x == fieldRequest[r]
<1>1. /\ x.step = "patch" /\ x.id \in DOMAIN fields /\ x.to \notin Fields!named /\ Fields!Done(r)
      /\ fields' = [fields EXCEPT ![x.id].name = x.to]
      /\ renamed' = renamed \ {x.to}
      /\ UNCHANGED <<columns, layout, search, table, fieldPage, finder, fieldMade, torn, fieldCrossed, fieldOverlapped>>
  BY DEF Fields!Patch, Fields!at, Fields!locks
<1>2. /\ x.name \in FieldName /\ x.to \in FieldName /\ x.op = "change" /\ Changes(r) /\ Busy(r) /\ x.name # x.to
      /\ x.name \in NamesIn(r) /\ x.to \in NamesIn(r) /\ NamesIn(r) = {x.name, x.to}
  BY <1>1, FieldKnown DEF FieldsInv, FieldSteps, Busy, Changes, NamesIn
<1>3. /\ fieldRequest' \in [Request -> Fields!FieldChange] /\ fieldRequest'[r] = Fields!Idle
      /\ \A q \in Request : q # r => fieldRequest'[q] = fieldRequest[q]
  BY <1>1, FieldIdle, FieldMoves DEF Fields!Done
<1>4. /\ \A q \in Request : Busy(q)' => q # r /\ Busy(q)
      /\ FieldSteps' /\ ~Created(r)' /\ ~Changes(r)' /\ fieldRequest'[r].step # "patch"
      /\ \A q \in Request : q # r => (Created(q)' <=> Created(q)) /\ (Changes(q)' <=> Changes(q)) /\ NamesIn(q)' = NamesIn(q)
  BY <1>3, FieldIdle DEF FieldsInv, FieldSteps, Busy, Created, Changes, NamesIn
<1>5. \A j \in DOMAIN fields : fields[j] \in [name : FieldName, kind : {"stored", "computed"}]
  BY FieldKnown DEF Fields!FieldRow
<1>6. /\ DOMAIN fields' = DOMAIN fields /\ fields'[x.id].name = x.to /\ fields'[x.id].kind = fields[x.id].kind
      /\ \A j \in DOMAIN fields : j # x.id => fields'[j] = fields[j]
  BY <1>1, <1>5
<1>7. fields'[x.id] \in Fields!FieldRow
  BY <1>1, <1>2, <1>5 DEF Fields!FieldRow
<1>8. \A j \in DOMAIN fields : fields[j].name # x.to
  BY <1>1, NamedAreRows
<1>9. \/ fields[x.id].name = x.name
      \/ /\ fields[x.id].name \in fieldOverlapped /\ fields[x.id].name \in fieldCrossed \cup torn
         /\ x.name \in fieldCrossed /\ x.to \in fieldCrossed
  BY <1>1, <1>2 DEF FieldsInv, RowsNamed, Tainted
<1>10. Fields!TypeOK'
  <2>1. \A j \in DOMAIN fields' : j \in Fields!Ids /\ fields'[j] \in Fields!FieldRow
    BY <1>6, <1>7, FieldKnown
  <2> QED
    BY <1>1, <1>3, <2>1, FieldKnown DEF FieldsInv, Fields!TypeOK
<1>11. RowIds'
  BY <1>1, <1>3, <1>4, <1>6 DEF FieldsInv, RowIds
<1>12. NamesApart'
  BY <1>1, <1>3, <1>4 DEF FieldsInv, NamesApart
<1>13. RowsNamed'
  <2>1. \A i, j \in DOMAIN fields' : i # j /\ fields'[i].name = fields'[j].name => fields'[i].name \in fieldCrossed
    BY <1>6, <1>8 DEF FieldsInv, RowsNamed
  <2>2. \A q \in Request : Created(q)' /\ fieldRequest'[q].name \notin fieldCrossed =>
          \A i \in DOMAIN fields' : fields'[i].name # fieldRequest'[q].name
    <3> SUFFICES ASSUME NEW q \in Request, Created(q)', fieldRequest'[q].name \notin fieldCrossed, NEW i \in DOMAIN fields'
                 PROVE  fields'[i].name # fieldRequest'[q].name
      OBVIOUS
    <3>1. q # r /\ Created(q) /\ Busy(q) /\ fieldRequest'[q] = fieldRequest[q]
      BY <1>3, <1>4 DEF Created
    <3>2. fieldRequest[q].name \in NamesIn(q) /\ fieldRequest[q].name \notin fieldCrossed
      BY <3>1 DEF NamesIn
    <3>3. fieldRequest[q].name # x.to
      BY <1>2, <3>1, <3>2, NamesMeet
    <3> QED
      BY <1>6, <3>1, <3>3 DEF FieldsInv, RowsNamed
  <2>3. ASSUME NEW q \in Request, Changes(q)'
        PROVE  \/ fieldRequest'[q].id \in DOMAIN fields' /\ fields'[fieldRequest'[q].id].name = fieldRequest'[q].name
               \/ /\ NamesIn(q)' \subseteq fieldCrossed /\ NamesIn(q)' \subseteq fieldOverlapped
                  /\ fieldRequest'[q].id \in DOMAIN fields' =>
                       /\ fields'[fieldRequest'[q].id].name \in fieldCrossed \cup torn
                       /\ fields'[fieldRequest'[q].id].name \in fieldOverlapped
    <3>1. q # r /\ Changes(q) /\ Busy(q) /\ fieldRequest'[q] = fieldRequest[q] /\ NamesIn(q)' = NamesIn(q)
      BY <1>3, <1>4, <2>3 DEF Changes
    <3>2. CASE fieldRequest[q].id = x.id
      <4>1. NamesIn(q) \cup NamesIn(r) \subseteq fieldCrossed /\ NamesIn(q) \cup NamesIn(r) \subseteq fieldOverlapped
        BY <1>2, <3>1, <3>2 DEF FieldsInv, NamesApart
      <4> QED
        BY <1>2, <1>6, <3>1, <3>2, <4>1
    <3>3. CASE fieldRequest[q].id # x.id
      BY <1>6, <3>1, <3>3 DEF FieldsInv, RowsNamed, Tainted
    <3> QED
      BY <3>2, <3>3
  <2> QED
    BY <1>1, <2>1, <2>2, <2>3 DEF RowsNamed, Tainted
<1>14. Renaming'
  <2> SUFFICES ASSUME NEW q \in Request, fieldRequest'[q].step = "patch"
               PROVE  /\ fieldRequest'[q].name \in renamed' \cup fieldOverlapped
                      /\ fieldRequest'[q].name \notin fieldCrossed \cup torn => fieldRequest'[q].name \notin columns
                      /\ fieldRequest'[q].to \notin fieldCrossed \cup torn => /\ fieldRequest'[q].to \in columns
                           /\ fieldRequest'[q].name \notin fieldCrossed \cup torn /\ fields'[fieldRequest'[q].id].kind = "stored"
    BY <1>1 DEF Renaming, Tainted
  <2>1. /\ q # r /\ fieldRequest'[q] = fieldRequest[q] /\ fieldRequest[q].step = "patch" /\ Busy(q) /\ Changes(q)
        /\ fieldRequest[q].name \in NamesIn(q)
    BY <1>3, <1>4 DEF FieldsInv, FieldSteps, Busy, Changes, NamesIn
  <2>2. fieldRequest[q].name \in fieldOverlapped
    BY <1>2, <2>1 DEF FieldsInv, NamesApart
  <2>3. fieldRequest[q].to \notin fieldCrossed => fieldRequest[q].id \in DOMAIN fields
    BY <2>1 DEF FieldsInv, RowsNamed, NamesIn
  <2>4. fieldRequest[q].to \notin fieldCrossed \cup torn => fields'[fieldRequest[q].id].kind = "stored"
    BY <1>6, <2>1, <2>3 DEF FieldsInv, Renaming, Tainted
  <2> QED
    BY <2>1, <2>2, <2>4 DEF FieldsInv, Renaming, Tainted
<1>15. \A n : MayStand(n) => MayStand(n)'
  <2> SUFFICES ASSUME NEW n, MayStand(n) PROVE MayStand(n)'
    OBVIOUS
  <2>1. CASE n = x.to
    BY <1>1, <1>6, <2>1 DEF MayStand
  <2>2. CASE n # x.to /\ n \in renamed \cup fieldOverlapped
    BY <1>1, <2>2 DEF MayStand
  <2>3. CASE n # x.to /\ \E j \in DOMAIN fields : fields[j].name = n
    <3>1. PICK j \in DOMAIN fields : fields[j].name = n
      BY <2>3
    <3>2. CASE j # x.id
      BY <1>6, <3>1, <3>2 DEF MayStand
    <3>3. CASE j = x.id
      <4>1. x.name \in renamed \cup fieldOverlapped
        BY <1>1 DEF FieldsInv, Renaming
      <4> QED
        BY <1>1, <1>9, <2>3, <3>1, <3>3, <4>1 DEF MayStand
    <3> QED
      BY <3>2, <3>3
  <2> QED
    BY <2>1, <2>2, <2>3 DEF MayStand
<1>16. LayoutsStand'
  BY <1>1, <1>15 DEF FieldsInv, LayoutsStand
<1>17. LayoutCopies'
  BY <1>1, <1>3, <1>15, FieldIdle DEF FieldsInv, LayoutCopies
<1>18. ColumnsMatch'
  <2> SUFFICES ASSUME NEW n \in FieldName, n \notin fieldCrossed \cup torn,
                      \A q \in Request : fieldRequest'[q].step = "patch" => n \notin NamesIn(q)'
               PROVE  n \in columns <=> \E i \in DOMAIN fields' : fields'[i].name = n /\ fields'[i].kind = "stored"
    BY <1>1 DEF ColumnsMatch, Tainted
  <2>1. CASE n = x.to
    <3>1. n \in columns /\ fields[x.id].kind = "stored"
      BY <1>1, <2>1 DEF FieldsInv, Renaming, Tainted
    <3> QED
      BY <1>1, <1>6, <2>1, <3>1
  <2>2. CASE n = x.name
    <3>1. n \notin columns
      BY <1>1, <2>2 DEF FieldsInv, Renaming, Tainted
    <3>2. \A j \in DOMAIN fields : fields[j].name = n => j = x.id
      BY <1>1, <1>9, <2>2 DEF FieldsInv, RowsNamed
    <3> QED
      BY <1>2, <1>6, <2>2, <3>1, <3>2
  <2>3. CASE n # x.to /\ n # x.name
    <3>1. \A q \in Request : fieldRequest[q].step = "patch" => n \notin NamesIn(q)
      <4> SUFFICES ASSUME NEW q \in Request, fieldRequest[q].step = "patch" PROVE n \notin NamesIn(q)
        OBVIOUS
      <4>1. CASE q = r
        BY <1>2, <2>3, <4>1
      <4>2. CASE q # r
        BY <1>3, <1>4, <4>2
      <4> QED
        BY <4>1, <4>2
    <3>2. n \in columns <=> \E i \in DOMAIN fields : fields[i].name = n /\ fields[i].kind = "stored"
      BY <3>1 DEF FieldsInv, ColumnsMatch, Tainted
    <3>3. fields[x.id].name # n
      BY <1>9, <2>3
    <3> QED
      BY <1>6, <2>3, <3>2, <3>3
  <2> QED
    BY <2>1, <2>2, <2>3
<1> QED
  BY <1>4, <1>10, <1>11, <1>12, <1>13, <1>14, <1>16, <1>17, <1>18 DEF FieldsInv

LEMMA FailPatchKept == ASSUME FieldsInv, NEW r \in Request, Fields!FailPatch(r) PROVE FieldsInv'
<1>1. Fields!Namely(r) = NamesIn(r) /\ fieldRequest[r].step = "patch"
  BY DEF Fields!FailPatch, Fields!at, Fields!Namely, NamesIn
<1>2. {table', fieldPage', finder'} \subseteq Request \cup {None}
  BY FieldKnown DEF Fields!FailPatch, Fields!locks
<1> QED
  BY <1>1, <1>2, FieldEnds DEF Fields!FailPatch, Fields!store

LEMMA FailFieldKept == ASSUME FieldsInv, NEW r \in Request, Fields!Fail(r) PROVE FieldsInv'
<1>1. {table', fieldPage', finder'} \subseteq Request \cup {None} /\ fieldRequest[r].step # "patch"
  BY FieldKnown DEF Fields!Fail, Fields!Unlock, Fields!at
<1> QED
  BY <1>1, FieldEnds DEF Fields!Fail, Fields!RolledBack, Fields!history

LEMMA FieldsKept == ASSUME FieldsInv, [Fields!Next]_fieldVars PROVE FieldsInv'
<1>1. CASE UNCHANGED fieldVars
  <2>1. FieldSteps' /\ RowIds' /\ NamesApart'
    BY <1>1 DEF fieldVars, FieldsInv, FieldSteps, RowIds, NamesApart, Created, Changes, Busy, NamesIn
  <2>2. RowsNamed' /\ Renaming'
    BY <1>1 DEF fieldVars, FieldsInv, RowsNamed, Renaming, Created, Changes, Busy, NamesIn, Tainted
  <2>3. LayoutCopies' /\ LayoutsStand' /\ ColumnsMatch'
    BY <1>1 DEF fieldVars, FieldsInv, LayoutCopies, LayoutsStand, ColumnsMatch, MayStand, NamesIn, Tainted
  <2>4. Fields!TypeOK'
    BY <1>1 DEF fieldVars, FieldsInv, Fields!TypeOK
  <2> QED
    BY <2>1, <2>2, <2>3, <2>4 DEF FieldsInv
<1> QED
  BY <1>1, AddColumnKept, RegisterKept, FieldDeleteKept, WritePageKept, WriteSearchKept, CommitKept, DropKept,
     RenameKept, PatchFieldKept, FailPatchKept, FailFieldKept DEF Fields!Next

LEMMA FieldsAre ==
  ASSUME FieldsInv
  PROVE  Fields!TypeOK /\ Fields!ColumnsMatchFields /\ Fields!LayoutsNameFields
<1>1. Fields!ColumnsMatchFields
  <2> SUFFICES ASSUME NEW n \in FieldName, n \notin fieldCrossed \cup torn \cup Fields!renaming
               PROVE  n \in columns <=> n \in Fields!NamesOf({"stored"})
    BY DEF Fields!ColumnsMatchFields
  <2>1. \A r \in Request : fieldRequest[r].step = "patch" => n \notin NamesIn(r)
    BY DEF Fields!renaming, Fields!at, Fields!Namely, NamesIn
  <2>2. n \in columns <=> \E i \in DOMAIN fields : fields[i].name = n /\ fields[i].kind = "stored"
    BY <2>1 DEF FieldsInv, ColumnsMatch, Tainted
  <2> QED
    BY <2>2, NamedAreRows
<1>2. Fields!LayoutsNameFields
  BY NamedAreRows DEF FieldsInv, Fields!LayoutsNameFields, LayoutsStand, MayStand
<1> QED
  BY <1>1, <1>2 DEF FieldsInv


-----------------------------------------------------------------------------
\* ComputedNames

\* What a current process has cached is true, and so was its last answer.
CachesAreTrue(w) ==
  /\ names[w] # None => names[w] = Names!Computed
  /\ \A f \in NameField : /\ exists[w][f] = TRUE => kind[f] = "column"
                          /\ exists[w][f] = FALSE => kind[f] # "column"
  /\ Names!Right(w)

NamesInv == Names!TypeOK /\ \A w \in nameCurrent : CachesAreTrue(w)

LEMMA NamesKnown ==
  /\ NameField # {} /\ None # TRUE /\ None # FALSE
  /\ \A S \in SUBSET NameField : S # None
  /\ MaxFieldChanges \in Nat
BY DeskAssumption DEF Names!NamesAssumption

LEMMA NothingIsRight == ASSUME NEW w, told[w].how = "nothing" PROVE Names!Right(w)
BY DEF Names!Right

LEMMA NothingIsTrue ==
  ASSUME NEW w, names[w] = None, \A f \in NameField : exists[w][f] = None, Names!Right(w)
  PROVE  CachesAreTrue(w)
BY NamesKnown DEF CachesAreTrue

LEMMA NamesAtFirst == ASSUME Names!Init PROVE NamesInv
<1> DEFINE first == CHOOSE f \in NameField : TRUE
<1>1. first \in NameField
  BY NamesKnown
<1>2. told = [w \in NameWorker |-> [field |-> first, how |-> "nothing"]]
  BY DEF Names!Init, Names!NothingRead
<1> HIDE DEF first
<1>3. Names!TypeOK
  BY <1>1, <1>2, NamesKnown DEF Names!Init, Names!TypeOK, Names!Nothing
<1>4. ASSUME NEW w \in NameWorker PROVE CachesAreTrue(w)
  <2>1. Names!Right(w)
    BY <1>2, NothingIsRight
  <2>2. names[w] = None /\ \A f \in NameField : exists[w][f] = None
    BY DEF Names!Init, Names!Nothing
  <2> QED
    BY <2>1, <2>2, NothingIsTrue
<1> QED
  BY <1>3, <1>4 DEF NamesInv, Names!Init

LEMMA ChangeFieldKept ==
  ASSUME NamesInv, NEW f \in NameField, NEW k \in Names!Kind, Names!ChangeField(f, k) PROVE NamesInv'
<1> USE NamesKnown DEF NamesInv, Names!TypeOK, Names!ChangeField
<1>1. told' = [w \in NameWorker |-> [field |-> f, how |-> "nothing"]]
  BY DEF Names!NothingRead
<1>2. nameCurrent' \subseteq nameCurrent
  OBVIOUS
<1>3. Names!TypeOK'
  BY <1>1, <1>2
<1>4. ASSUME NEW w \in nameCurrent' PROVE CachesAreTrue(w)'
  <2>1. w \in NameWorker /\ names[w] = None /\ exists[w] = [x \in NameField |-> None]
    BY DEF Names!Nothing
  <2>2. told'[w].how = "nothing" /\ names'[w] = None /\ \A x \in NameField : exists'[w][x] = None
    BY <1>1, <2>1
  <2>3. Names!Right(w)'
    BY <2>2 DEF Names!Right
  <2> QED
    BY <2>2, <2>3 DEF CachesAreTrue
<1> QED
  BY <1>3, <1>4

LEMMA RestartKept == ASSUME NamesInv, NEW w \in NameWorker, Names!Restart(w) PROVE NamesInv'
<1> USE NamesKnown DEF NamesInv, Names!TypeOK, Names!Restart
<1>1. told'[w].how = "nothing" /\ \A v \in NameWorker \ {w} : told'[v] = told[v]
  BY DEF Names!NothingRead
<1>2. names'[w] = None /\ \A f \in NameField : exists'[w][f] = None
  BY DEF Names!Nothing
<1>3. Names!TypeOK'
  <2>1. told[w].field \in NameField
    OBVIOUS
  <2>2. [field |-> told[w].field, how |-> "nothing"] \in [field : NameField, how : {"nothing", "sql", "values", "error"}]
    BY <2>1
  <2>3. told' \in [NameWorker -> [field : NameField, how : {"nothing", "sql", "values", "error"}]]
    BY <2>2 DEF Names!NothingRead
  <2>4. exists' \in [NameWorker -> [NameField -> BOOLEAN \cup {None}]]
    BY DEF Names!Nothing
  <2> QED
    BY <2>3, <2>4
<1>4. CachesAreTrue(w)'
  BY <1>1, <1>2 DEF CachesAreTrue, Names!Right
<1>5. ASSUME NEW v \in nameCurrent \ {w} PROVE CachesAreTrue(v)'
  <2>1. names'[v] = names[v] /\ exists'[v] = exists[v] /\ told'[v] = told[v]
    BY <1>1
  <2> QED
    BY <2>1 DEF CachesAreTrue, Names!Right, Names!Computed
<1> QED
  BY <1>3, <1>4, <1>5

LEMMA ReadNamesKept ==
  ASSUME NamesInv, NEW w \in NameWorker, NEW fails \in BOOLEAN, Names!ReadNames(w, fails) PROVE NamesInv'
<1> USE NamesKnown DEF NamesInv, Names!TypeOK, Names!ReadNames
<1>1. Names!TypeOK'
  BY DEF Names!Computed
<1>2. ASSUME NEW v \in nameCurrent' PROVE CachesAreTrue(v)'
  <2>1. v \in nameCurrent /\ CachesAreTrue(v)
    OBVIOUS
  <2>2. names'[v] # None => names'[v] = Names!Computed
    BY <2>1 DEF CachesAreTrue
  <2> QED
    BY <2>1, <2>2 DEF CachesAreTrue, Names!Right, Names!Computed
<1> QED
  BY <1>1, <1>2

LEMMA FoundTyped ==
  ASSUME NEW e \in [NameWorker -> [NameField -> BOOLEAN \cup {None}]], NEW w \in NameWorker,
         NEW f \in NameField, NEW answer \in BOOLEAN
  PROVE  [e EXCEPT ![w][f] = answer] \in [NameWorker -> [NameField -> BOOLEAN \cup {None}]]
<1> DEFINE row == [e[w] EXCEPT ![f] = answer]
<1>1. row \in [NameField -> BOOLEAN \cup {None}]
  OBVIOUS
<1>2. [e EXCEPT ![w][f] = answer] = [e EXCEPT ![w] = row]
  OBVIOUS
<1> HIDE DEF row
<1> QED
  BY <1>1, <1>2

LEMMA FilterKept ==
  ASSUME NamesInv, NEW w \in NameWorker, NEW f \in NameField, NEW shown0 \in BOOLEAN, NEW fails \in BOOLEAN,
         Names!Filter(w, f, shown0, fails)
  PROVE  NamesInv'
<1> USE NamesKnown DEF NamesInv, Names!TypeOK
<1> DEFINE computed == Names!_is_computed(w, f, shown0)
           column == Names!Found(w, f)
           sql == IF kind[f] = "column" THEN "sql" ELSE "error"
           way == IF computed /\ ~(column /\ ~fails) THEN "values" ELSE sql
<1>1. /\ names[w] # None
      /\ told' = [told EXCEPT ![w] = [field |-> f, how |-> way]]
      /\ UNCHANGED <<kind, names, nameChanges>>
      /\ IF computed /\ exists[w][f] = None
         THEN /\ exists' = [exists EXCEPT ![w][f] = column /\ ~fails]
              /\ nameCurrent' = IF fails THEN nameCurrent \ {w} ELSE nameCurrent
         ELSE UNCHANGED <<exists, nameCurrent>>
  BY DEF Names!Filter
<1>2. computed \in BOOLEAN
  BY DEF Names!_is_computed
<1>3. exists[w][f] = None => column = (kind[f] = "column")
  BY DEF Names!Found
<1>4. exists[w][f] # None => column = exists[w][f]
  BY DEF Names!Found
<1>5. column \in BOOLEAN
  <2>1. exists[w][f] \in BOOLEAN \cup {None} /\ (kind[f] = "column") \in BOOLEAN
    OBVIOUS
  <2> HIDE DEF column
  <2> QED
    BY <2>1, <1>3, <1>4
<1>6. w \in nameCurrent => (computed <=> kind[f] = "computed")
  BY <1>1 DEF Names!_is_computed, CachesAreTrue, Names!Computed
<1>7. w \in nameCurrent => (column <=> kind[f] = "column")
  BY <1>3, <1>4, <1>5 DEF CachesAreTrue
<1>8. way \in {"sql", "values", "error"}
  OBVIOUS
<1> HIDE DEF computed, column
<1>9. w \in nameCurrent =>
        /\ way = "sql" => kind[f] = "column"
        /\ way = "values" => kind[f] = "computed"
        /\ way = "error" => kind[f] = "missing"
  BY <1>6, <1>7, <1>2, <1>5 DEF Names!Kind
<1> HIDE DEF way
<1>10. Names!TypeOK'
  <2>1. told' \in [NameWorker -> [field : NameField, how : {"nothing", "sql", "values", "error"}]]
    BY <1>1, <1>8
  <2>2. exists' \in [NameWorker -> [NameField -> BOOLEAN \cup {None}]]
    <3> DEFINE answer == column /\ ~fails
    <3>1. answer \in BOOLEAN
      OBVIOUS
    <3>2. exists' = exists \/ exists' = [exists EXCEPT ![w][f] = answer]
      BY <1>1
    <3> HIDE DEF answer
    <3>3. exists \in [NameWorker -> [NameField -> BOOLEAN \cup {None}]]
      OBVIOUS
    <3>4. [exists EXCEPT ![w][f] = answer] \in [NameWorker -> [NameField -> BOOLEAN \cup {None}]]
      BY <3>1, <3>3, FoundTyped, Zenon
    <3> QED
      BY <3>2, <3>3, <3>4, Zenon
  <2> QED
    BY <1>1, <2>1, <2>2
<1>11. ASSUME NEW v \in nameCurrent' PROVE CachesAreTrue(v)'
  <2>1. v \in nameCurrent /\ CachesAreTrue(v)
    BY <1>1
  <2>2. ASSUME NEW x \in NameField
        PROVE  (exists'[v][x] = TRUE => kind[x] = "column") /\ (exists'[v][x] = FALSE => kind[x] # "column")
    <3>1. CASE exists'[v][x] = exists[v][x]
      BY <3>1, <2>1 DEF CachesAreTrue
    <3>2. CASE exists'[v][x] # exists[v][x]
      <4>1. v = w /\ x = f /\ ~fails /\ exists'[v][x] = column
        BY <3>2, <1>1, <1>5, <2>1
      <4> QED
        BY <4>1, <1>7, <2>1
    <3> QED
      BY <3>1, <3>2, FoundTyped
  <2>3. Names!Right(v)'
    <3>1. CASE v = w
      <4>1. told'[v].field = f /\ told'[v].how = way
        BY <3>1, <1>1
      <4> QED
        BY <4>1, <1>1, <1>8, <1>9, <2>1, <3>1 DEF Names!Right
    <3>2. CASE v # w
      <4>1. told'[v] = told[v]
        BY <3>2, <1>1, <2>1
      <4> QED
        BY <4>1, <1>1, <2>1 DEF Names!Right, CachesAreTrue
    <3> QED
      BY <3>1, <3>2, FoundTyped
  <2> QED
    BY <1>1, <2>1, <2>2, <2>3 DEF CachesAreTrue, Names!Computed
<1> QED
  BY <1>10, <1>11

LEMMA NamesKept == ASSUME NamesInv, [Names!Next]_nameVars PROVE NamesInv'
<1>1. CASE UNCHANGED nameVars
  BY <1>1 DEF nameVars, NamesInv, Names!TypeOK, CachesAreTrue, Names!Right, Names!Computed
<1> QED
  BY <1>1, ChangeFieldKept, RestartKept, ReadNamesKept, FilterKept DEF Names!Next

LEMMA NamesAre == ASSUME NamesInv PROVE Names!TypeOK /\ Names!CurrentProcessesFilterRight
BY DEF NamesInv, CachesAreTrue, Names!CurrentProcessesFilterRight

\* The table has a column for every stored field and no other, and layouts name fields that exist,
\* but for changes that stopped half-way and names that two requests worked on; a process that has
\* cached nothing stale tests each field the way its kind asks for.
THEOREM FieldsTheorem == Spec => []FieldsHold
<1> DEFINE Inv == (service = "field" => FieldsInv) /\ (service = "name" => NamesInv)
<1>1. Init => Inv
  BY OnePartAtFirst, FieldsAtFirst, NamesAtFirst
<1>2. Inv /\ [Next]_vars => Inv'
  BY OnePart, FieldsKept, NamesKept
<1>3. Inv => FieldsHold
  BY FieldsAre, NamesAre DEF FieldsHold
<1> HIDE DEF Inv
<1> QED
  BY <1>1, <1>2, <1>3, PTL DEF Spec

-----------------------------------------------------------------------------
\* LeadConversion

Conversions ==
  [at : {"idle", "read", "account", "contact", "opportunity", "lead"}, id : Leads!Id \cup {None}, opportunity : BOOLEAN,
   made : [Leads!Kind -> Leads!Id \cup {None}], alone : BOOLEAN]

LeadTypes ==
  /\ lead \in [there : BOOLEAN, converted : BOOLEAN, names : [Leads!Kind -> Leads!Id \cup {None}]]
  /\ stored \subseteq [kind : Leads!Kind, id : Leads!Id, account : Leads!Id \cup {None}, contact : Leads!Id \cup {None}]
  /\ leadRequest \in [Request -> Conversions]
  /\ leadBegun \in 0..MaxConversions /\ answered \in Nat /\ excused \in BOOLEAN

\* No more answers and requests than conversions begun.
Counted ==
  /\ IsFiniteSet(Leads!Working) /\ answered + Cardinality(Leads!Working) <= leadBegun
  /\ \A r \in Request : leadRequest[r].at # "idle" => leadRequest[r].id \in Leads!Id

\* Rows that are stored and belong together.
HasAccount(given) == \E v \in stored : v.kind = "account" /\ v.id = given["account"]
HasContact(given) == \E v \in stored : v.kind = "contact" /\ v.id = given["contact"] /\ v.account = given["account"]
HasOpportunity(given) ==
  \E v \in stored : /\ v.kind = "opportunity" /\ v.id = given["opportunity"]
                    /\ v.account = given["account"] /\ v.contact = given["contact"]

\* What a request has made by each of its steps.
MadeInTurn == \A r \in Request : LET x == leadRequest[r] IN
  /\ x.at \in {"contact", "opportunity", "lead"} => HasAccount(x.made)
  /\ x.at \in {"opportunity", "lead"} => HasContact(x.made)
  /\ x.at # "lead" => x.made["opportunity"] = None
  /\ x.at = "lead" /\ x.made["opportunity"] # None => HasOpportunity(x.made)

LeadWhole ==
  lead.converted => /\ HasAccount(lead.names) /\ HasContact(lead.names)
                    /\ lead.names["opportunity"] # None => HasOpportunity(lead.names)

\* Of several that convert none is alone; one that is alone has read a lead that still is not converted.
Alone ==
  /\ \A q, r \in Request : q # r /\ leadRequest[q].at # "idle" /\ leadRequest[r].at # "idle" => ~leadRequest[q].alone
  /\ \A r \in Request : leadRequest[r].at \notin {"idle", "read"} /\ leadRequest[r].alone /\ ~excused => ~lead.converted

LeadInv ==
  LeadTypes /\ Counted /\ MadeInTurn /\ LeadWhole /\ Alone /\ Leads!ConvertedOnce

LEMMA LeadIdle ==
  /\ Leads!Idle \in Conversions /\ Leads!Idle.at = "idle" /\ Leads!Idle.made = Leads!NoNames
  /\ Leads!NoNames \in [Leads!Kind -> Leads!Id \cup {None}] /\ Leads!NoNames["opportunity"] = None
BY DEF Leads!Idle, Conversions, Leads!NoNames, Leads!Kind

LEMMA LeadsAtFirst == Leads!Init => LeadInv
<1> SUFFICES ASSUME Leads!Init PROVE LeadInv
  OBVIOUS
<1>1. /\ lead = [there |-> TRUE, converted |-> FALSE, names |-> Leads!NoNames] /\ stored = {}
      /\ leadRequest = [r \in Request |-> Leads!Idle] /\ leadBegun = 0 /\ answered = 0 /\ excused = FALSE
  BY DEF Leads!Init
<1>2. 0 \in 0..MaxConversions
  BY DeskAssumption DEF Leads!LeadConversionAssumption
<1>3. LeadTypes
  BY <1>1, <1>2, LeadIdle DEF LeadTypes
<1>4. Leads!Working = {}
  BY <1>1, LeadIdle DEF Leads!Working
<1>5. Counted
  BY <1>1, <1>4, LeadIdle, FS_EmptySet DEF Counted
<1>6. MadeInTurn
  BY <1>1, LeadIdle DEF MadeInTurn
<1>7. LeadWhole /\ Alone /\ Leads!ConvertedOnce
  BY <1>1, LeadIdle DEF LeadWhole, Alone, Leads!ConvertedOnce
<1> QED
  BY <1>3, <1>5, <1>6, <1>7 DEF LeadInv

LEMMA LeadKnown ==
  ASSUME LeadInv
  PROVE  /\ leadRequest \in [Request -> Conversions] /\ MaxConversions \in Nat /\ leadBegun \in Nat /\ answered \in Nat
         /\ leadBegun <= MaxConversions /\ IsFiniteSet(Leads!Working) /\ Cardinality(Leads!Working) \in Nat
         /\ \A r \in Request :
              /\ leadRequest[r].at \in {"idle", "read", "account", "contact", "opportunity", "lead"}
              /\ leadRequest[r].made \in [Leads!Kind -> Leads!Id \cup {None}]
              /\ leadRequest[r].alone \in BOOLEAN /\ leadRequest[r].opportunity \in BOOLEAN
         /\ lead.converted \in BOOLEAN /\ lead.names \in [Leads!Kind -> Leads!Id \cup {None}]
<1>1. MaxConversions \in Nat
  BY DeskAssumption DEF Leads!LeadConversionAssumption
<1>2. \A x \in Conversions : /\ x.at \in {"idle", "read", "account", "contact", "opportunity", "lead"}
                             /\ x.made \in [Leads!Kind -> Leads!Id \cup {None}]
                             /\ x.alone \in BOOLEAN /\ x.opportunity \in BOOLEAN
  BY DEF Conversions
<1>3. Cardinality(Leads!Working) \in Nat
  BY FS_CardinalityType DEF LeadInv, Counted
<1> QED
  BY <1>1, <1>2, <1>3 DEF LeadInv, LeadTypes, Counted

\* A request goes on: as many as before convert.
LEMMA LeadGoesOn ==
  ASSUME LeadInv, NEW r \in Request, leadRequest[r].at # "idle", NEW x \in Conversions, x.at # "idle", x.id = leadRequest[r].id,
         leadRequest' = [leadRequest EXCEPT ![r] = x], leadBegun' = leadBegun, answered' = answered
  PROVE  /\ leadRequest' \in [Request -> Conversions] /\ leadRequest'[r] = x
         /\ \A q \in Request : q # r => leadRequest'[q] = leadRequest[q]
         /\ Counted'
<1>1. /\ leadRequest' \in [Request -> Conversions] /\ leadRequest'[r] = x
      /\ \A q \in Request : q # r => leadRequest'[q] = leadRequest[q]
  BY LeadKnown
<1>2. Leads!Working' = Leads!Working
  BY <1>1 DEF Leads!Working
<1>3. \A q \in Request : leadRequest'[q].at # "idle" => leadRequest'[q].id \in Leads!Id
  BY <1>1 DEF LeadInv, Counted
<1> QED
  BY <1>1, <1>2, <1>3 DEF LeadInv, Counted

\* A request stops: one fewer converts, and one more may have been answered.
LEMMA LeadStops ==
  ASSUME LeadInv, NEW r \in Request, leadRequest[r].at # "idle", Leads!Stops(r), leadBegun' = leadBegun,
         answered' \in {answered, answered + 1}
  PROVE  /\ leadRequest' \in [Request -> Conversions] /\ leadRequest'[r] = Leads!Idle
         /\ \A q \in Request : q # r => leadRequest'[q] = leadRequest[q]
         /\ Counted' /\ answered' \in Nat
<1>1. /\ leadRequest' \in [Request -> Conversions] /\ leadRequest'[r] = Leads!Idle
      /\ \A q \in Request : q # r => leadRequest'[q] = leadRequest[q]
  BY LeadIdle, LeadKnown DEF Leads!Stops
<1>2. Leads!Working' = Leads!Working \ {r} /\ r \in Leads!Working
  BY <1>1, LeadIdle DEF Leads!Working
<1>3. IsFiniteSet(Leads!Working)' /\ Cardinality(Leads!Working)' = Cardinality(Leads!Working) - 1
  BY <1>2, LeadKnown, FS_RemoveElement
<1>4. answered' + Cardinality(Leads!Working)' <= leadBegun' /\ answered' \in Nat
  BY <1>3, LeadKnown DEF LeadInv, Counted
<1>5. \A q \in Request : leadRequest'[q].at # "idle" => leadRequest'[q].id \in Leads!Id
  BY <1>1, LeadIdle DEF LeadInv, Counted
<1> QED
  BY <1>1, <1>3, <1>4, <1>5 DEF Counted

\* A request stops that changed nothing.
LEMMA LeadEnds ==
  ASSUME LeadInv, NEW r \in Request, leadRequest[r].at # "idle", Leads!Stops(r),
         UNCHANGED <<lead, stored, leadBegun, answered, excused>>
  PROVE  LeadInv'
<1>1. /\ leadRequest' \in [Request -> Conversions] /\ leadRequest'[r] = Leads!Idle
      /\ \A q \in Request : q # r => leadRequest'[q] = leadRequest[q]
      /\ Counted'
  BY LeadStops
<1>2. LeadTypes'
  BY <1>1 DEF LeadInv, LeadTypes
<1>3. MadeInTurn'
  BY <1>1, LeadIdle DEF LeadInv, MadeInTurn, HasAccount, HasContact, HasOpportunity
<1>4. LeadWhole' /\ Leads!ConvertedOnce'
  BY DEF LeadInv, LeadWhole, HasAccount, HasContact, HasOpportunity, Leads!ConvertedOnce
<1>5. Alone'
  BY <1>1, LeadIdle DEF LeadInv, Alone
<1> QED
  BY <1>1, <1>2, <1>3, <1>4, <1>5 DEF LeadInv

LEMMA ConvertBegins == ASSUME LeadInv, NEW r \in Request, NEW o \in BOOLEAN, Leads!Begin(r, o) PROVE LeadInv'
<1> DEFINE x == [Leads!Idle EXCEPT !.at = "read", !.id = leadBegun + 1, !.opportunity = o, !.alone = Leads!Working = {}]
<1>1. /\ leadRequest[r].at = "idle" /\ leadBegun < MaxConversions /\ leadBegun' = leadBegun + 1
      /\ leadRequest' = [q \in Request |->
           CASE q = r -> x
             [] q # r /\ q \in Leads!Working -> [leadRequest[q] EXCEPT !.alone = FALSE]
             [] OTHER -> leadRequest[q]]
      /\ UNCHANGED <<lead, stored, answered, excused>>
  BY DEF Leads!Begin
<1>2. leadBegun + 1 \in Leads!Id /\ leadBegun' \in 0..MaxConversions
  <2>1. leadBegun \in Nat /\ MaxConversions \in Nat /\ leadBegun < MaxConversions /\ leadBegun' = leadBegun + 1
    BY <1>1, LeadKnown
  <2>2. leadBegun + 1 \in 1..MaxConversions /\ leadBegun + 1 \in 0..MaxConversions
    BY <2>1
  <2> QED
    BY <2>1, <2>2 DEF Leads!Id
<1>3. x \in Conversions /\ x.at = "read" /\ x.id = leadBegun + 1 /\ x.made = Leads!NoNames /\ (x.alone <=> Leads!Working = {})
  BY <1>2, LeadIdle DEF Leads!Idle, Conversions
<1> HIDE DEF x
<1>4. ASSUME NEW q \in Request, q # r, leadRequest[q].at # "idle"
      PROVE  /\ leadRequest'[q] \in Conversions /\ leadRequest'[q].at = leadRequest[q].at
             /\ leadRequest'[q].id = leadRequest[q].id /\ leadRequest'[q].made = leadRequest[q].made
             /\ leadRequest'[q].alone = FALSE
  <2>1. leadRequest'[q] = [leadRequest[q] EXCEPT !.alone = FALSE] /\ leadRequest[q] \in Conversions
    BY <1>1, <1>4, LeadKnown DEF Leads!Working
  <2> QED
    BY <2>1 DEF Conversions
<1>5. ASSUME NEW q \in Request, q # r, leadRequest[q].at = "idle" PROVE leadRequest'[q] = leadRequest[q]
  BY <1>1, <1>5 DEF Leads!Working
<1>6. leadRequest'[r] = x
  BY <1>1
<1>7. leadRequest' \in [Request -> Conversions]
  <2>1. \A q \in Request : leadRequest'[q] \in Conversions
    BY <1>3, <1>4, <1>5, <1>6, LeadKnown
  <2> QED
    BY <1>1, <2>1
<1>8. LeadTypes'
  BY <1>1, <1>2, <1>7 DEF LeadInv, LeadTypes
<1>9. Counted'
  <2>1. Leads!Working' = Leads!Working \cup {r} /\ r \notin Leads!Working
    BY <1>1, <1>3, <1>4, <1>5, <1>6 DEF Leads!Working
  <2>2. IsFiniteSet(Leads!Working)' /\ Cardinality(Leads!Working)' = Cardinality(Leads!Working) + 1
    BY <2>1, LeadKnown, FS_AddElement
  <2>3. answered' + Cardinality(Leads!Working)' <= leadBegun'
    BY <1>1, <2>2, LeadKnown DEF LeadInv, Counted
  <2>4. \A q \in Request : leadRequest'[q].at # "idle" => leadRequest'[q].id \in Leads!Id
    BY <1>2, <1>3, <1>4, <1>5, <1>6 DEF LeadInv, Counted
  <2> QED
    BY <2>2, <2>3, <2>4 DEF Counted
<1>10. MadeInTurn'
  <2> SUFFICES ASSUME NEW q \in Request
               PROVE  /\ leadRequest'[q].at \in {"contact", "opportunity", "lead"} => HasAccount(leadRequest'[q].made)
                      /\ leadRequest'[q].at \in {"opportunity", "lead"} => HasContact(leadRequest'[q].made)
                      /\ leadRequest'[q].at # "lead" => leadRequest'[q].made["opportunity"] = None
                      /\ leadRequest'[q].at = "lead" /\ leadRequest'[q].made["opportunity"] # None
                           => HasOpportunity(leadRequest'[q].made)
    BY <1>1 DEF MadeInTurn, HasAccount, HasContact, HasOpportunity
  <2>1. CASE q = r
    BY <1>3, <1>6, <2>1, LeadIdle
  <2>2. CASE q # r
    <3>1. leadRequest'[q].at = leadRequest[q].at /\ leadRequest'[q].made = leadRequest[q].made
      BY <1>4, <1>5, <2>2
    <3> QED
      BY <3>1 DEF LeadInv, MadeInTurn
  <2> QED
    BY <2>1, <2>2
<1>11. LeadWhole' /\ Leads!ConvertedOnce'
  BY <1>1 DEF LeadInv, LeadWhole, HasAccount, HasContact, HasOpportunity, Leads!ConvertedOnce
<1>12. Alone'
  <2>1. \A q \in Request : q # r /\ leadRequest'[q].at # "idle" =>
          leadRequest[q].at # "idle" /\ ~leadRequest'[q].alone /\ ~leadRequest'[r].alone
    BY <1>3, <1>4, <1>5, <1>6 DEF Leads!Working
  <2> QED
    BY <1>1, <1>3, <1>6, <2>1 DEF LeadInv, Alone
<1> QED
  BY <1>8, <1>9, <1>10, <1>11, <1>12 DEF LeadInv

LEMMA ReadLeadKept == ASSUME LeadInv, NEW r \in Request, Leads!ReadLead(r) PROVE LeadInv'
<1>1. leadRequest[r].at = "read" /\ UNCHANGED <<lead, stored, leadBegun, answered, excused>>
  BY DEF Leads!ReadLead
<1>2. CASE Leads!Stops(r)
  BY <1>1, <1>2, LeadEnds
<1>3. CASE Leads!Goes(r, "account") /\ ~Leads!AlreadyConverted
  <2> DEFINE x == [leadRequest[r] EXCEPT !.at = "account"]
  <2>1. leadRequest' = [leadRequest EXCEPT ![r] = x] /\ ~lead.converted
    BY <1>3, LeadKnown DEF Leads!Goes, Leads!AlreadyConverted
  <2>2. leadRequest[r] \in Conversions
    BY LeadKnown
  <2>3. /\ x \in Conversions /\ x.at = "account" /\ x.id = leadRequest[r].id /\ x.made = leadRequest[r].made
        /\ x.alone = leadRequest[r].alone
    BY <2>2 DEF Conversions
  <2> HIDE DEF x
  <2>4. /\ leadRequest' \in [Request -> Conversions] /\ leadRequest'[r] = x
        /\ \A q \in Request : q # r => leadRequest'[q] = leadRequest[q]
        /\ Counted'
    BY <1>1, <2>1, <2>3, LeadGoesOn
  <2>5. LeadTypes'
    BY <1>1, <2>4 DEF LeadInv, LeadTypes
  <2>6. MadeInTurn'
    BY <1>1, <2>3, <2>4 DEF LeadInv, MadeInTurn, HasAccount, HasContact, HasOpportunity
  <2>7. LeadWhole' /\ Leads!ConvertedOnce'
    BY <1>1 DEF LeadInv, LeadWhole, HasAccount, HasContact, HasOpportunity, Leads!ConvertedOnce
  <2>8. Alone'
    BY <1>1, <2>1, <2>3, <2>4 DEF LeadInv, Alone
  <2> QED
    BY <2>4, <2>5, <2>6, <2>7, <2>8 DEF LeadInv
<1> QED
  BY <1>2, <1>3 DEF Leads!ReadLead

\* A row is stored, which only adds rows, and the request has made it.
LEMMA StoreKept ==
  ASSUME LeadInv, NEW r \in Request, NEW sort \in Leads!Kind, NEW account \in Leads!Id \cup {None}, NEW next,
         Leads!Store(r, sort, account, next),
         \/ sort = "account" /\ next = "contact"
         \/ sort = "contact" /\ next \in {"opportunity", "lead"} /\ account = leadRequest[r].made["account"]
         \/ sort = "opportunity" /\ next = "lead" /\ account = leadRequest[r].made["account"]
  PROVE  LeadInv'
<1> DEFINE y == leadRequest[r]
           row == [kind |-> sort, id |-> y.id, account |-> account,
                   contact |-> IF sort = "opportunity" THEN y.made["contact"] ELSE None]
           x == [y EXCEPT !.made[sort] = y.id, !.at = next]
<1>1. y.at = sort /\ UNCHANGED <<lead, leadBegun, answered, excused>> /\ y.at # "idle" /\ y \in Conversions
  BY LeadKnown DEF Leads!Store, Leads!Kind
<1>2. CASE Leads!Stops(r) /\ UNCHANGED stored
  BY <1>1, <1>2, LeadEnds
<1>3. CASE stored' = stored \cup {row} /\ leadRequest' = [leadRequest EXCEPT ![r].made[sort] = y.id, ![r].at = next]
  <2>1. y.id \in Leads!Id /\ y.made \in [Leads!Kind -> Leads!Id \cup {None}]
    BY <1>1, LeadKnown DEF LeadInv, Counted
  <2>2. /\ x \in Conversions /\ x.at = next /\ x.id = y.id /\ x.alone = y.alone
        /\ x.made = [y.made EXCEPT ![sort] = y.id]
    BY <1>1, <2>1 DEF Conversions, Leads!Kind
  <2>3. leadRequest' = [leadRequest EXCEPT ![r] = x]
    BY <1>3, LeadKnown
  <2>4. row \in [kind : Leads!Kind, id : Leads!Id, account : Leads!Id \cup {None}, contact : Leads!Id \cup {None}]
    BY <2>1 DEF Leads!Kind
  <2>5. /\ row.kind = sort /\ row.id = y.id /\ row.account = account
        /\ sort = "opportunity" => row.contact = y.made["contact"]
    OBVIOUS
  <2>6. /\ sort = "account" => x.made["account"] = y.id /\ x.made["opportunity"] = y.made["opportunity"]
        /\ sort = "contact" => /\ x.made["account"] = y.made["account"] /\ x.made["contact"] = y.id
                               /\ x.made["opportunity"] = y.made["opportunity"]
        /\ sort = "opportunity" => /\ x.made["account"] = y.made["account"] /\ x.made["contact"] = y.made["contact"]
                                   /\ x.made["opportunity"] = y.id
    BY <2>1, <2>2 DEF Leads!Kind
  <2> HIDE DEF x, row
  <2>7. stored' = stored \cup {row}
    BY <1>3
  <2>8. /\ leadRequest' \in [Request -> Conversions] /\ leadRequest'[r] = x
        /\ \A q \in Request : q # r => leadRequest'[q] = leadRequest[q]
        /\ Counted'
    BY <1>1, <2>2, <2>3, LeadGoesOn
  <2>9. LeadTypes'
    BY <1>1, <2>4, <2>7, <2>8 DEF LeadInv, LeadTypes
  <2>10. \A given : /\ HasAccount(given) => \E v \in stored' : v.kind = "account" /\ v.id = given["account"]
                    /\ HasContact(given) => \E v \in stored' : /\ v.kind = "contact" /\ v.id = given["contact"]
                                                               /\ v.account = given["account"]
                    /\ HasOpportunity(given) => \E v \in stored' :
                         /\ v.kind = "opportunity" /\ v.id = given["opportunity"]
                         /\ v.account = given["account"] /\ v.contact = given["contact"]
    BY <2>7 DEF HasAccount, HasContact, HasOpportunity
  <2>11. MadeInTurn'
    <3> SUFFICES ASSUME NEW q \in Request
                 PROVE  LET z == leadRequest'[q] IN
                        /\ z.at \in {"contact", "opportunity", "lead"} =>
                             \E v \in stored' : v.kind = "account" /\ v.id = z.made["account"]
                        /\ z.at \in {"opportunity", "lead"} =>
                             \E v \in stored' : v.kind = "contact" /\ v.id = z.made["contact"] /\ v.account = z.made["account"]
                        /\ z.at # "lead" => z.made["opportunity"] = None
                        /\ z.at = "lead" /\ z.made["opportunity"] # None =>
                             \E v \in stored' : /\ v.kind = "opportunity" /\ v.id = z.made["opportunity"]
                                                /\ v.account = z.made["account"] /\ v.contact = z.made["contact"]
      BY DEF MadeInTurn, HasAccount, HasContact, HasOpportunity
    <3>1. CASE q # r
      BY <2>8, <2>10, <3>1 DEF LeadInv, MadeInTurn
    <3>2. CASE q = r
      <4>1. row \in stored'
        BY <2>7
      <4>2. CASE sort = "account"
        <5>1. next = "contact" /\ y.made["opportunity"] = None
          BY <1>1, <4>2 DEF LeadInv, MadeInTurn
        <5> QED
          BY <2>2, <2>5, <2>6, <2>8, <3>2, <4>1, <4>2, <5>1
      <4>3. CASE sort = "contact"
        <5>1. next \in {"opportunity", "lead"} /\ y.made["opportunity"] = None /\ account = y.made["account"]
          BY <1>1, <4>3 DEF LeadInv, MadeInTurn
        <5>2. \E v \in stored' : v.kind = "account" /\ v.id = y.made["account"]
          BY <1>1, <2>10, <4>3 DEF LeadInv, MadeInTurn
        <5> QED
          BY <2>2, <2>5, <2>6, <2>8, <3>2, <4>1, <4>3, <5>1, <5>2
      <4>4. CASE sort = "opportunity"
        <5>1. next = "lead" /\ account = y.made["account"]
          BY <4>4
        <5>2. /\ \E v \in stored' : v.kind = "account" /\ v.id = y.made["account"]
              /\ \E v \in stored' : v.kind = "contact" /\ v.id = y.made["contact"] /\ v.account = y.made["account"]
          BY <1>1, <2>10, <4>4 DEF LeadInv, MadeInTurn
        <5> QED
          BY <2>2, <2>5, <2>6, <2>8, <3>2, <4>1, <4>4, <5>1, <5>2
      <4> QED
        BY <4>2, <4>3, <4>4 DEF Leads!Kind
    <3> QED
      BY <3>1, <3>2
  <2>12. LeadWhole'
    BY <1>1, <2>10 DEF LeadInv, LeadWhole, HasAccount, HasContact, HasOpportunity
  <2>13. Leads!ConvertedOnce'
    BY <1>1 DEF LeadInv, Leads!ConvertedOnce
  <2>14. Alone'
    BY <1>1, <2>2, <2>8 DEF LeadInv, Alone, Leads!Kind
  <2> QED
    BY <2>8, <2>9, <2>11, <2>12, <2>13, <2>14 DEF LeadInv
<1> QED
  BY <1>2, <1>3 DEF Leads!Store

LEMMA CreatesKept ==
  ASSUME LeadInv, NEW r \in Request,
         Leads!CreateAccount(r) \/ Leads!CreateContact(r) \/ Leads!CreateOpportunity(r)
  PROVE  LeadInv'
<1>1. leadRequest[r].made["account"] \in Leads!Id \cup {None} /\ {"account", "contact", "opportunity"} \subseteq Leads!Kind
  BY LeadKnown DEF Leads!Kind
<1>2. CASE Leads!CreateAccount(r)
  BY <1>1, <1>2, StoreKept DEF Leads!CreateAccount
<1>3. CASE Leads!CreateContact(r)
  BY <1>1, <1>3, StoreKept DEF Leads!CreateContact
<1>4. CASE Leads!CreateOpportunity(r)
  BY <1>1, <1>4, StoreKept DEF Leads!CreateOpportunity
<1> QED
  BY <1>2, <1>3, <1>4

\* The lead is marked, by one that was alone if nothing is excused; or it is not, and that is excused.
LEMMA PatchLeadKept == ASSUME LeadInv, NEW r \in Request, Leads!PatchLead(r) PROVE LeadInv'
<1> DEFINE x == leadRequest[r]
<1>1. /\ x.at = "lead" /\ Leads!Stops(r) /\ UNCHANGED <<stored, leadBegun>>
      /\ \/ /\ lead' = [lead EXCEPT !.converted = TRUE, !.names = x.made]
            /\ answered' = answered + 1 /\ excused' = (excused \/ ~x.alone)
         \/ UNCHANGED lead /\ answered' \in {answered, answered + 1} /\ excused' = TRUE
  BY DEF Leads!PatchLead
<1>2. /\ leadRequest' \in [Request -> Conversions] /\ leadRequest'[r] = Leads!Idle
      /\ \A q \in Request : q # r => leadRequest'[q] = leadRequest[q]
      /\ Counted' /\ answered' \in Nat
  BY <1>1, LeadStops
<1>3. MadeInTurn'
  BY <1>1, <1>2, LeadIdle DEF LeadInv, MadeInTurn, HasAccount, HasContact, HasOpportunity
<1>4. CASE UNCHANGED lead /\ excused' = TRUE
  <2>1. LeadTypes' /\ LeadWhole'
    BY <1>1, <1>2, <1>4 DEF LeadInv, LeadTypes, LeadWhole, HasAccount, HasContact, HasOpportunity
  <2>2. Alone' /\ Leads!ConvertedOnce'
    BY <1>2, <1>4, LeadIdle DEF LeadInv, Alone, Leads!ConvertedOnce
  <2> QED
    BY <1>2, <1>3, <2>1, <2>2 DEF LeadInv
<1>5. CASE /\ lead' = [lead EXCEPT !.converted = TRUE, !.names = x.made]
           /\ answered' = answered + 1 /\ excused' = (excused \/ ~x.alone)
  <2>1. x.made \in [Leads!Kind -> Leads!Id \cup {None}] /\ x.alone \in BOOLEAN
    BY LeadKnown
  <2>2. lead \in [there : BOOLEAN, converted : BOOLEAN, names : [Leads!Kind -> Leads!Id \cup {None}]]
    BY DEF LeadInv, LeadTypes
  <2>3. /\ lead' \in [there : BOOLEAN, converted : BOOLEAN, names : [Leads!Kind -> Leads!Id \cup {None}]]
        /\ lead'.converted = TRUE /\ lead'.names = x.made
    BY <1>5, <2>1, <2>2
  <2>4. excused' \in BOOLEAN
    BY <1>5, <2>1 DEF LeadInv, LeadTypes
  <2>5. LeadTypes'
    BY <1>1, <1>2, <2>3, <2>4 DEF LeadInv, LeadTypes
  <2>6. LeadWhole'
    BY <1>1, <2>3 DEF LeadInv, LeadWhole, MadeInTurn, HasAccount, HasContact, HasOpportunity
  <2>7. Alone'
    <3>1. \A q \in Request : q # r /\ leadRequest[q].at # "idle" => ~leadRequest[q].alone
      BY <1>1 DEF LeadInv, Alone
    <3> QED
      BY <1>2, <3>1, LeadIdle DEF LeadInv, Alone
  <2>8. Leads!ConvertedOnce'
    <3>1. ~excused' => ~lead.converted /\ ~excused
      BY <1>1, <1>5, <2>1 DEF LeadInv, Alone
    <3>2. ~excused' => answered = 0
      BY <3>1, LeadKnown DEF LeadInv, Leads!ConvertedOnce
    <3> QED
      BY <1>5, <2>3, <3>2 DEF Leads!ConvertedOnce
  <2> QED
    BY <1>2, <1>3, <2>5, <2>6, <2>7, <2>8 DEF LeadInv
<1> QED
  BY <1>1, <1>4, <1>5

LEMMA LeadsKept == ASSUME LeadInv, [Leads!Next]_leadVars PROVE LeadInv'
<1>1. CASE UNCHANGED leadVars
  BY <1>1 DEF leadVars, LeadInv, LeadTypes, Counted, MadeInTurn, LeadWhole, Alone, Leads!ConvertedOnce, HasAccount,
              HasContact, HasOpportunity, Leads!Working
<1>2. CASE Leads!DeleteLead
  <2>1. /\ lead \in [there : BOOLEAN, converted : BOOLEAN, names : [Leads!Kind -> Leads!Id \cup {None}]]
        /\ lead' = [lead EXCEPT !.there = FALSE] /\ UNCHANGED <<stored, leadRequest, leadBegun, answered, excused>>
    BY <1>2 DEF Leads!DeleteLead, LeadInv, LeadTypes
  <2>2. /\ lead' \in [there : BOOLEAN, converted : BOOLEAN, names : [Leads!Kind -> Leads!Id \cup {None}]]
        /\ lead'.converted = lead.converted /\ lead'.names = lead.names
    BY <2>1
  <2> QED
    BY <2>1, <2>2 DEF LeadInv, LeadTypes, Counted, MadeInTurn, LeadWhole, Alone, Leads!ConvertedOnce, HasAccount,
                      HasContact, HasOpportunity, Leads!Working
<1>3. ASSUME NEW r \in Request, Leads!Crash(r) PROVE LeadInv'
  BY <1>3, LeadEnds DEF Leads!Crash
<1> QED
  BY <1>1, <1>2, <1>3, ConvertBegins, ReadLeadKept, CreatesKept, PatchLeadKept DEF Leads!Next

LEMMA LeadHolds ==
  ASSUME LeadInv PROVE Leads!TypeOK /\ Leads!ConvertedLeadIsWhole /\ Leads!ConvertedOnce
<1>1. answered \in 0..MaxConversions /\ leadBegun \in 0..MaxConversions
  BY LeadKnown DEF LeadInv, Counted
<1>2. Leads!TypeOK
  BY <1>1, LeadKnown DEF LeadInv, LeadTypes, Leads!TypeOK
<1>3. Leads!ConvertedLeadIsWhole
  BY DEF LeadInv, LeadWhole, HasAccount, HasContact, HasOpportunity, Leads!ConvertedLeadIsWhole, Leads!Of
<1> QED
  BY <1>2, <1>3 DEF LeadInv

-----------------------------------------------------------------------------
\* Groups

Todos == {<<>>, <<"user">>, <<"group">>, <<"user", "group">>,
          <<"name">>, <<"name", "user">>, <<"name", "group">>, <<"name", "user", "group">>}

Patches ==
  [group : Group \cup {None}, named : BOOLEAN, listed : SUBSET {"user", "group"}, chosen : SUBSET Groups!Link, todo : Todos,
   add : SUBSET Groups!Link, remove : SUBSET Groups!Link, disturbed : BOOLEAN]
Resolutions ==
  [found : SUBSET Group, queue : SUBSET Group, told : SUBSET Active, open : BOOLEAN, from : SUBSET Group, steady : BOOLEAN]

Left(s) == {s[i] : i \in DOMAIN s}

PatchTypes ==
  /\ groupBegun \in 0..MaxPatches /\ members \in [Group -> SUBSET Groups!Link] /\ lock \in [Group -> Request \cup {None}]
  /\ patch \in [Request -> Patches] /\ last \in Patches

\* A patch that has written the name holds the row; one that has not has not looked at any table.
LocksHeld == \A p \in Request : LET x == patch[p] IN
  x.group # None =>
    /\ "name" \in Left(x.todo) => x.named /\ x.listed \subseteq Left(x.todo)
    /\ x.named /\ "name" \notin Left(x.todo) => lock[x.group] = p

\* What an undisturbed patch will write is what its choice and the table differ in.
Compared == \A p \in Request : LET x == patch[p] IN
  x.group # None /\ ~x.disturbed =>
    \A sort \in x.listed :
      IF sort \in Left(x.todo) THEN Groups!Of(sort, x.add) = {} /\ Groups!Of(sort, x.remove) = {}
      ELSE /\ Groups!Of(sort, x.add) = Groups!Of(sort, x.chosen) \ members[x.group]
           /\ Groups!Of(sort, x.remove) = Groups!Of(sort, members[x.group]) \ x.chosen

PatchInv == PatchTypes /\ LocksHeld /\ Compared /\ Groups!PatchesStandWhole

\* Every group that is found is within those asked for; the groups within those done are found.
Followed(x) ==
  x.open /\ x.steady =>
    /\ x.from \subseteq x.found /\ x.queue \subseteq x.found
    /\ \A S \in SUBSET Group : x.from \subseteq S /\ Groups!Subgroups(S) \subseteq S => x.found \subseteq S
    /\ Groups!Subgroups(x.found \ x.queue) \subseteq x.found

ToldInv ==
  /\ resolution \in [Resolver -> Resolutions] /\ \A w \in Resolver : Followed(resolution[w])
  /\ Groups!ToldAreMembers

GroupsInv == PatchInv /\ ToldInv

\* What is left to do gets shorter, the name first.
LEMMA TodoFacts ==
  /\ <<>> \in Todos /\ Left(<<>>) = {}
  /\ \A s \in Todos : /\ s = <<>> <=> Left(s) = {}
                      /\ s # <<>> => /\ Tail(s) \in Todos /\ Left(Tail(s)) = Left(s) \ {Head(s)} /\ Head(s) \in Left(s)
                                     /\ "name" \in Left(s) <=> Head(s) = "name"
                      /\ Left(s) \subseteq {"name", "user", "group"}
<1>1. /\ Left(<<>>) = {} /\ Left(<<"user">>) = {"user"} /\ Left(<<"group">>) = {"group"}
      /\ Left(<<"user", "group">>) = {"user", "group"} /\ Left(<<"name">>) = {"name"}
      /\ Left(<<"name", "user">>) = {"name", "user"} /\ Left(<<"name", "group">>) = {"name", "group"}
      /\ Left(<<"name", "user", "group">>) = {"name", "user", "group"}
  BY DEF Left
<1>2. /\ Tail(<<"user">>) = <<>> /\ Tail(<<"group">>) = <<>> /\ Tail(<<"user", "group">>) = <<"group">>
      /\ Tail(<<"name">>) = <<>> /\ Tail(<<"name", "user">>) = <<"user">> /\ Tail(<<"name", "group">>) = <<"group">>
      /\ Tail(<<"name", "user", "group">>) = <<"user", "group">>
  OBVIOUS
<1>3. /\ Head(<<"user">>) = "user" /\ Head(<<"group">>) = "group" /\ Head(<<"user", "group">>) = "user"
      /\ Head(<<"name">>) = "name" /\ Head(<<"name", "user">>) = "name" /\ Head(<<"name", "group">>) = "name"
      /\ Head(<<"name", "user", "group">>) = "name"
  OBVIOUS
<1> QED
  BY <1>1, <1>2, <1>3 DEF Todos

\* Short sequences, one after the other.
LEMMA TwoInTurn ==
  ASSUME NEW x, NEW y
  PROVE  <<x>> \o <<y>> = <<x, y>>
<1> DEFINE S == {x, y}
<1>0. x \in S /\ y \in S
  OBVIOUS
<1> HIDE DEF S
<1> DEFINE u == <<x>> \o <<y>>
           v == <<x, y>>
<1>1. <<x>> \in Seq(S) /\ <<y>> \in Seq(S) /\ v \in Seq(S)
  BY <1>0
<1>2. Len(<<x>>) = 1 /\ Len(<<y>>) = 1 /\ Len(v) = 2
  BY <1>0
<1>3. u \in Seq(S) /\ Len(u) = 2
  BY <1>1, <1>2, ConcatProperties
<1>4. u[1] = v[1] /\ u[2] = v[2]
  BY <1>0
<1> HIDE DEF u, v
<1>5. \A i \in 1..Len(u) : u[i] = v[i]
  BY <1>3, <1>4
<1>6. u = v
  BY <1>1, <1>2, <1>3, <1>5, SeqEqual
<1> QED
  BY <1>6 DEF u, v

LEMMA ThreeInTurn ==
  ASSUME NEW x, NEW y, NEW z
  PROVE  <<x>> \o <<y, z>> = <<x, y, z>>
<1> DEFINE S == {x, y, z}
<1>0. x \in S /\ y \in S /\ z \in S
  OBVIOUS
<1> HIDE DEF S
<1> DEFINE u == <<x>> \o <<y, z>>
           v == <<x, y, z>>
<1>1. <<x>> \in Seq(S) /\ <<y, z>> \in Seq(S) /\ v \in Seq(S)
  BY <1>0
<1>2. Len(<<x>>) = 1 /\ Len(<<y, z>>) = 2 /\ Len(v) = 3
  BY <1>0
<1>3. u \in Seq(S) /\ Len(u) = 3
  BY <1>1, <1>2, ConcatProperties
<1>4. u[1] = v[1] /\ u[2] = v[2] /\ u[3] = v[3]
  BY <1>0
<1> HIDE DEF u, v
<1>5. \A i \in 1..Len(u) : u[i] = v[i]
  BY <1>3, <1>4
<1>6. u = v
  BY <1>1, <1>2, <1>3, <1>5, SeqEqual
<1> QED
  BY <1>6 DEF u, v

\* The first list of things to do.
LEMMA TodoAtFirst ==
  ASSUME NEW named \in BOOLEAN, NEW listed \in SUBSET {"user", "group"}
  PROVE  LET s == (IF named THEN <<"name">> ELSE <<>>) \o Groups!InTurn(listed) IN
         s \in Todos /\ Left(s) = listed \cup (IF named THEN {"name"} ELSE {})
<1> DEFINE s == (IF named THEN <<"name">> ELSE <<>>) \o Groups!InTurn(listed)
<1>1. listed \in {{}, {"user"}, {"group"}, {"user", "group"}}
  OBVIOUS
<1>2. /\ <<>> \o <<>> = <<>> /\ <<>> \o <<"user">> = <<"user">> /\ <<>> \o <<"group">> = <<"group">>
      /\ <<"name">> \o <<>> = <<"name">> /\ <<"user">> \o <<>> = <<"user">>
  OBVIOUS
<1>3. <<"user">> \o <<"group">> = <<"user", "group">> /\ <<>> \o <<"user", "group">> = <<"user", "group">>
  BY TwoInTurn, ConcatEmptySeq
<1>4. <<"name">> \o <<"user">> = <<"name", "user">> /\ <<"name">> \o <<"group">> = <<"name", "group">>
  BY TwoInTurn
<1>5. <<"name">> \o <<"user", "group">> = <<"name", "user", "group">>
  BY ThreeInTurn
<1>6. Groups!InTurn(listed) = IF listed = {} THEN <<>> ELSE IF listed = {"user"} THEN <<"user">>
                              ELSE IF listed = {"group"} THEN <<"group">> ELSE <<"user", "group">>
  <2> DEFINE front == IF "user" \in listed THEN <<"user">> ELSE <<>>
             back == IF "group" \in listed THEN <<"group">> ELSE <<>>
  <2>1. Groups!InTurn(listed) = front \o back
    BY DEF Groups!InTurn
  <2>2. /\ listed = {} => front = <<>> /\ back = <<>>
        /\ listed = {"user"} => front = <<"user">> /\ back = <<>>
        /\ listed = {"group"} => front = <<>> /\ back = <<"group">>
        /\ listed = {"user", "group"} => front = <<"user">> /\ back = <<"group">>
    OBVIOUS
  <2> HIDE DEF front, back
  <2> QED
    BY <1>1, <1>2, <1>3, <2>1, <2>2, Zenon
<1>7. s = IF listed = {} THEN IF named THEN <<"name">> ELSE <<>>
          ELSE IF listed = {"user"} THEN IF named THEN <<"name", "user">> ELSE <<"user">>
          ELSE IF listed = {"group"} THEN IF named THEN <<"name", "group">> ELSE <<"group">>
          ELSE IF named THEN <<"name", "user", "group">> ELSE <<"user", "group">>
  BY <1>2, <1>3, <1>4, <1>5, <1>6
<1> HIDE DEF s
<1>8. s \in Todos
  BY <1>1, <1>7 DEF Todos
<1>9. /\ Left(<<>>) = {} /\ Left(<<"user">>) = {"user"} /\ Left(<<"group">>) = {"group"}
      /\ Left(<<"user", "group">>) = {"user", "group"} /\ Left(<<"name">>) = {"name"}
      /\ Left(<<"name", "user">>) = {"name", "user"} /\ Left(<<"name", "group">>) = {"name", "group"}
      /\ Left(<<"name", "user", "group">>) = {"name", "user", "group"}
  BY DEF Left
<1>10. Left(s) = listed \cup (IF named THEN {"name"} ELSE {})
  BY <1>1, <1>7, <1>9
<1> QED
  BY <1>8, <1>10 DEF s

LEMMA NoPatchIsOne ==
  /\ Groups!NoPatch \in Patches /\ Groups!NoPatch.group = None /\ Groups!NoPatch.todo = <<>> /\ Groups!NoPatch.add = {}
  /\ Groups!NoPatch.remove = {} /\ ~Groups!NoPatch.disturbed
  /\ Groups!NoResolution \in Resolutions /\ Groups!NoResolution.from = {} /\ ~Groups!NoResolution.open
BY TodoFacts DEF Groups!NoPatch, Patches, Groups!NoResolution, Resolutions

LEMMA GroupsAtFirst == Groups!Init => GroupsInv
<1> SUFFICES ASSUME Groups!Init PROVE GroupsInv
  OBVIOUS
<1>1. /\ members \in [Group -> SUBSET Groups!Link] /\ lock = [g \in Group |-> None]
      /\ patch = [p \in Request |-> Groups!NoPatch] /\ resolution = [w \in Resolver |-> Groups!NoResolution]
      /\ last = Groups!NoPatch /\ groupBegun = 0 /\ groupBegun \in 0..MaxPatches
  BY DeskAssumption DEF Groups!Init, Groups!GroupsAssumption
<1>2. PatchInv
  BY <1>1, NoPatchIsOne DEF PatchInv, PatchTypes, LocksHeld, Compared, Groups!PatchesStandWhole
<1>3. ToldInv
  BY <1>1, NoPatchIsOne DEF ToldInv, Followed, Groups!ToldAreMembers
<1> QED
  BY <1>2, <1>3 DEF GroupsInv

LEMMA GroupKnown ==
  ASSUME GroupsInv
  PROVE  /\ groupBegun \in Nat /\ MaxPatches \in Nat /\ None \notin Request /\ None \notin Group
         /\ members \in [Group -> SUBSET Groups!Link] /\ lock \in [Group -> Request \cup {None}]
         /\ patch \in [Request -> Patches] /\ last \in Patches /\ resolution \in [Resolver -> Resolutions]
         /\ \A x \in Patches :
              /\ x.group \in Group \cup {None} /\ x.named \in BOOLEAN /\ x.listed \subseteq {"user", "group"}
              /\ x.chosen \subseteq Groups!Link /\ x.todo \in Todos /\ x.add \subseteq Groups!Link
              /\ x.remove \subseteq Groups!Link /\ x.disturbed \in BOOLEAN
         /\ \A x \in Resolutions :
              /\ x.found \subseteq Group /\ x.queue \subseteq Group /\ x.told \subseteq Active /\ x.open \in BOOLEAN
              /\ x.from \subseteq Group /\ x.steady \in BOOLEAN
BY DeskAssumption DEF GroupsInv, PatchInv, ToldInv, PatchTypes, Groups!GroupsAssumption, Patches, Resolutions

\* While no rows change and nobody is told, what was found stays right.
LEMMA ToldStays == ASSUME ToldInv, UNCHANGED <<members, resolution>> PROVE ToldInv'
<1>1. /\ \A S : Groups!Subgroups(S)' = Groups!Subgroups(S)
      /\ \A S : Groups!UsersOf(S)' = Groups!UsersOf(S)
  BY DEF Groups!Subgroups, Groups!UsersOf, Groups!Of
<1>2. \A S : Groups!Within(S)' = Groups!Within(S)
  BY <1>1 DEF Groups!Within
<1> QED
  BY <1>1, <1>2 DEF ToldInv, Followed, Groups!ToldAreMembers

LEMMA PatchStays == ASSUME PatchInv, UNCHANGED <<members, lock, patch, last, groupBegun>> PROVE PatchInv'
BY DEF PatchInv, PatchTypes, LocksHeld, Compared, Groups!PatchesStandWhole, Groups!Of


\* One patch moves on.
LEMMA PatchMoves ==
  ASSUME GroupsInv, NEW p \in Request, NEW x \in Patches, patch' = [patch EXCEPT ![p] = x]
  PROVE  /\ patch' \in [Request -> Patches] /\ patch'[p] = x
         /\ \A q \in Request : q # p => patch'[q] = patch[q]
BY GroupKnown

LEMMA PatchBegins ==
  ASSUME GroupsInv, NEW p \in Request, NEW g \in Group, NEW named \in BOOLEAN, NEW listed \in SUBSET Groups!Kind,
         NEW chosen \in Selection, Groups!Begin(p, g, named, listed, chosen)
  PROVE  GroupsInv'
<1> DEFINE s == (IF named THEN <<"name">> ELSE <<>>) \o Groups!InTurn(listed)
           picked == {l \in chosen : l[1] \in listed}
           x == [Groups!NoPatch EXCEPT !.group = g, !.named = named, !.listed = listed, !.chosen = picked, !.todo = s]
<1>1. /\ groupBegun < MaxPatches /\ groupBegun' = groupBegun + 1 /\ patch' = [patch EXCEPT ![p] = x]
      /\ last' = Groups!NoPatch /\ UNCHANGED <<members, lock, resolution>>
  BY DEF Groups!Begin
<1>2. listed \in SUBSET {"user", "group"} /\ picked \subseteq Groups!Link
  BY DeskAssumption DEF Groups!Kind, Groups!GroupsAssumption
<1>3. s \in Todos /\ Left(s) = listed \cup (IF named THEN {"name"} ELSE {})
  BY <1>2, TodoAtFirst
<1> HIDE DEF s, picked
<1>4. /\ x \in Patches /\ x.group = g /\ x.named = named /\ x.listed = listed /\ x.todo = s /\ x.add = {} /\ x.remove = {}
  BY <1>2, <1>3 DEF Groups!NoPatch, Patches
<1> HIDE DEF x
<1>5. /\ patch' \in [Request -> Patches] /\ patch'[p] = x /\ \A q \in Request : q # p => patch'[q] = patch[q]
  BY <1>1, <1>4, PatchMoves
<1>6. groupBegun' \in 0..MaxPatches
  <2>1. groupBegun \in Nat /\ MaxPatches \in Nat /\ groupBegun < MaxPatches /\ groupBegun' = groupBegun + 1
    BY <1>1, GroupKnown
  <2> QED
    BY <2>1
<1>7. PatchTypes'
  BY <1>1, <1>5, <1>6, NoPatchIsOne DEF GroupsInv, PatchInv, PatchTypes
<1>8. LocksHeld'
  BY <1>1, <1>2, <1>3, <1>4, <1>5 DEF GroupsInv, PatchInv, LocksHeld
<1>9. Compared'
  BY <1>1, <1>3, <1>4, <1>5 DEF GroupsInv, PatchInv, Compared, Groups!Of
<1>10. Groups!PatchesStandWhole'
  BY <1>1, NoPatchIsOne DEF Groups!PatchesStandWhole
<1> QED
  BY <1>1, <1>7, <1>8, <1>9, <1>10, ToldStays DEF GroupsInv, PatchInv

\* The row of the group is locked, which nobody else held.
LEMMA UpdateNameKept == ASSUME GroupsInv, NEW p \in Request, Groups!UpdateName(p) PROVE GroupsInv'
<1> DEFINE y == patch[p]
           x == [y EXCEPT !.todo = Tail(y.todo)]
<1>1. /\ y.group # None /\ y.todo # <<>> /\ Head(y.todo) = "name" /\ lock[y.group] = None
      /\ lock' = [lock EXCEPT ![y.group] = p] /\ patch' = [patch EXCEPT ![p] = x]
      /\ UNCHANGED <<members, resolution, last, groupBegun>>
  BY GroupKnown DEF Groups!UpdateName, Groups!Running
<1>2. y \in Patches /\ y.group \in Group /\ y.todo \in Todos /\ y.listed \subseteq {"user", "group"}
  BY <1>1, GroupKnown
<1>3. Tail(y.todo) \in Todos /\ Left(Tail(y.todo)) = Left(y.todo) \ {"name"} /\ "name" \in Left(y.todo)
  BY <1>1, <1>2, TodoFacts
<1>4. /\ x \in Patches /\ x.group = y.group /\ x.named = y.named /\ x.listed = y.listed /\ x.chosen = y.chosen
      /\ x.todo = Tail(y.todo) /\ x.add = y.add /\ x.remove = y.remove /\ x.disturbed = y.disturbed
  BY <1>2, <1>3 DEF Patches
<1> HIDE DEF x
<1>5. /\ patch' \in [Request -> Patches] /\ patch'[p] = x /\ \A q \in Request : q # p => patch'[q] = patch[q]
  BY <1>1, <1>4, PatchMoves
<1>6. lock' \in [Group -> Request \cup {None}] /\ lock'[y.group] = p
      /\ \A g \in Group : g # y.group => lock'[g] = lock[g]
  BY <1>1, <1>2, GroupKnown
<1>7. PatchTypes'
  BY <1>1, <1>5, <1>6 DEF GroupsInv, PatchInv, PatchTypes
<1>8. LocksHeld'
  <2>1. \A q \in Request : q # p /\ patch[q].group # None /\ patch[q].named /\ "name" \notin Left(patch[q].todo)
          => lock'[patch[q].group] = q
    <3> SUFFICES ASSUME NEW q \in Request, q # p, patch[q].group # None, patch[q].named, "name" \notin Left(patch[q].todo)
                 PROVE  lock'[patch[q].group] = q
      OBVIOUS
    <3>1. lock[patch[q].group] = q /\ patch[q].group \in Group
      BY GroupKnown DEF GroupsInv, PatchInv, LocksHeld
    <3> QED
      BY <1>1, <1>6, <3>1, GroupKnown
  <2> QED
    BY <1>3, <1>4, <1>5, <1>6, <2>1 DEF GroupsInv, PatchInv, LocksHeld
<1>9. Compared'
  <2>1. \A sort \in y.listed : sort \in Left(x.todo) <=> sort \in Left(y.todo)
    BY <1>2, <1>3, <1>4
  <2> QED
    BY <1>1, <1>4, <1>5, <2>1 DEF GroupsInv, PatchInv, Compared, Groups!Of
<1>10. Groups!PatchesStandWhole'
  BY <1>1 DEF GroupsInv, PatchInv, Groups!PatchesStandWhole, Groups!Of
<1> QED
  BY <1>1, <1>7, <1>8, <1>9, <1>10, ToldStays DEF GroupsInv, PatchInv

\* One table is compared with what was chosen of it; the other table's differences stay.
LEMMA SyncTableKept == ASSUME GroupsInv, NEW p \in Request, Groups!SyncTable(p) PROVE GroupsInv'
<1> DEFINE y == patch[p]
           k == Head(y.todo)
           current == Groups!Of(k, members[y.group])
           chosen == Groups!Of(k, y.chosen)
           plus == y.add \cup (chosen \ current)
           minus == y.remove \cup (current \ chosen)
           x == [y EXCEPT !.todo = Tail(y.todo), !.add = plus, !.remove = minus]
<1>1. /\ y.group # None /\ y.todo # <<>> /\ k # "name" /\ y \in Patches
      /\ UNCHANGED <<members, lock, resolution, last, groupBegun>>
  BY GroupKnown DEF Groups!SyncTable, Groups!Running
<1>2. patch' = [patch EXCEPT ![p] = x]
  BY <1>1, GroupKnown DEF Groups!SyncTable, Patches
<1>3. /\ y.group \in Group /\ y.todo \in Todos /\ y.listed \subseteq {"user", "group"} /\ y.add \subseteq Groups!Link
      /\ y.remove \subseteq Groups!Link /\ y.chosen \subseteq Groups!Link /\ members[y.group] \subseteq Groups!Link
  BY <1>1, GroupKnown
<1>4. /\ Tail(y.todo) \in Todos /\ Left(Tail(y.todo)) = Left(y.todo) \ {k} /\ k \in Left(y.todo)
      /\ "name" \notin Left(y.todo)
  BY <1>1, <1>3, TodoFacts
<1>5. current \subseteq Groups!Link /\ chosen \subseteq Groups!Link /\ plus \subseteq Groups!Link /\ minus \subseteq Groups!Link
  BY <1>3 DEF Groups!Of
<1>6. /\ Groups!Of(k, plus) = Groups!Of(k, y.add) \cup (chosen \ members[y.group])
      /\ Groups!Of(k, minus) = Groups!Of(k, y.remove) \cup (current \ y.chosen)
      /\ \A sort : sort # k => Groups!Of(sort, plus) = Groups!Of(sort, y.add) /\ Groups!Of(sort, minus) = Groups!Of(sort, y.remove)
  BY DEF Groups!Of
<1> HIDE DEF plus, minus
<1>7. /\ x \in Patches /\ x.group = y.group /\ x.named = y.named /\ x.listed = y.listed /\ x.chosen = y.chosen
      /\ x.todo = Tail(y.todo) /\ x.add = plus /\ x.remove = minus /\ x.disturbed = y.disturbed
  BY <1>1, <1>4, <1>5 DEF Patches
<1> HIDE DEF x
<1>8. /\ patch' \in [Request -> Patches] /\ patch'[p] = x /\ \A q \in Request : q # p => patch'[q] = patch[q]
  BY <1>2, <1>7, PatchMoves
<1>9. PatchTypes'
  BY <1>1, <1>8 DEF GroupsInv, PatchInv, PatchTypes
<1>10. LocksHeld'
  BY <1>1, <1>4, <1>7, <1>8 DEF GroupsInv, PatchInv, LocksHeld
<1>11. Compared'
  <2> SUFFICES ASSUME NEW q \in Request, patch'[q].group # None, ~patch'[q].disturbed, NEW sort \in patch'[q].listed
               PROVE  IF sort \in Left(patch'[q].todo)
                      THEN Groups!Of(sort, patch'[q].add) = {} /\ Groups!Of(sort, patch'[q].remove) = {}
                      ELSE /\ Groups!Of(sort, patch'[q].add) = Groups!Of(sort, patch'[q].chosen) \ members[patch'[q].group]
                           /\ Groups!Of(sort, patch'[q].remove) = Groups!Of(sort, members[patch'[q].group]) \ patch'[q].chosen
    BY <1>1 DEF Compared, Groups!Of
  <2>1. CASE q # p
    BY <1>8, <2>1 DEF GroupsInv, PatchInv, Compared
  <2>2. CASE q = p /\ sort # k
    <3>1. patch'[q] = x /\ sort \in y.listed /\ ~y.disturbed /\ y.group # None
      BY <1>1, <1>7, <1>8, <2>2
    <3>2. IF sort \in Left(y.todo) THEN Groups!Of(sort, y.add) = {} /\ Groups!Of(sort, y.remove) = {}
          ELSE /\ Groups!Of(sort, y.add) = Groups!Of(sort, y.chosen) \ members[y.group]
               /\ Groups!Of(sort, y.remove) = Groups!Of(sort, members[y.group]) \ y.chosen
      BY <3>1 DEF GroupsInv, PatchInv, Compared
    <3>3. sort \in Left(x.todo) <=> sort \in Left(y.todo)
      BY <1>4, <1>7, <2>2
    <3>4. Groups!Of(sort, x.add) = Groups!Of(sort, y.add) /\ Groups!Of(sort, x.remove) = Groups!Of(sort, y.remove)
      BY <1>6, <1>7, <2>2
    <3> QED
      BY <1>7, <3>1, <3>2, <3>3, <3>4
  <2>3. CASE q = p /\ sort = k
    <3>1. Groups!Of(k, y.add) = {} /\ Groups!Of(k, y.remove) = {}
      BY <1>4, <1>7, <1>8, <2>3 DEF GroupsInv, PatchInv, Compared
    <3>2. k \notin Left(x.todo)
      BY <1>4, <1>7
    <3>3. patch'[q] = x /\ sort = k
      BY <1>8, <2>3
    <3> QED
      BY <1>6, <1>7, <3>1, <3>2, <3>3
  <2> QED
    BY <2>1, <2>2, <2>3
<1>12. Groups!PatchesStandWhole'
  BY <1>1 DEF GroupsInv, PatchInv, Groups!PatchesStandWhole, Groups!Of
<1> QED
  BY <1>1, <1>9, <1>10, <1>11, <1>12, ToldStays DEF GroupsInv, PatchInv

\* A patch gives up what it holds; what the others hold stays theirs.
LEMMA UnlockedStays ==
  ASSUME GroupsInv, NEW p \in Request, lock' = Groups!Unlocked(p)
  PROVE  /\ lock' \in [Group -> Request \cup {None}]
         /\ \A g \in Group : lock[g] # p => lock'[g] = lock[g]
BY GroupKnown DEF Groups!Unlocked

LEMMA GroupFailKept == ASSUME GroupsInv, NEW p \in Request, Groups!Fail(p) PROVE GroupsInv'
<1>1. /\ lock' = Groups!Unlocked(p) /\ patch' = [patch EXCEPT ![p] = Groups!NoPatch]
      /\ UNCHANGED <<members, resolution, last, groupBegun>>
  BY DEF Groups!Fail
<1>2. /\ patch' \in [Request -> Patches] /\ patch'[p] = Groups!NoPatch /\ \A q \in Request : q # p => patch'[q] = patch[q]
  BY <1>1, NoPatchIsOne, PatchMoves
<1>3. PatchTypes'
  BY <1>1, <1>2, UnlockedStays DEF GroupsInv, PatchInv, PatchTypes
<1>4. LocksHeld'
  <2> SUFFICES ASSUME NEW q \in Request, patch'[q].group # None
               PROVE  /\ "name" \in Left(patch'[q].todo) => patch'[q].named /\ patch'[q].listed \subseteq Left(patch'[q].todo)
                      /\ patch'[q].named /\ "name" \notin Left(patch'[q].todo) => lock'[patch'[q].group] = q
    BY DEF LocksHeld
  <2>1. q # p /\ patch'[q] = patch[q] /\ patch[q].group \in Group
    BY <1>2, NoPatchIsOne, GroupKnown
  <2> QED
    BY <1>1, <2>1, UnlockedStays DEF GroupsInv, PatchInv, LocksHeld
<1>5. Compared'
  BY <1>1, <1>2, NoPatchIsOne DEF GroupsInv, PatchInv, Compared, Groups!Of
<1>6. Groups!PatchesStandWhole'
  BY <1>1 DEF GroupsInv, PatchInv, Groups!PatchesStandWhole, Groups!Of
<1> QED
  BY <1>1, <1>3, <1>4, <1>5, <1>6, ToldStays DEF GroupsInv, PatchInv


\* The rows change, and what others read of them is disturbed, unless they wait for the row of the group.
LEMMA GroupCommitKept == ASSUME GroupsInv, NEW p \in Request, Groups!Commit(p) PROVE GroupsInv'
<1> DEFINE y == patch[p]
           rows == (members[y.group] \cup y.add) \ y.remove
           z == [y EXCEPT !.add = {}, !.remove = {}]
<1>1. /\ y.group # None /\ y.todo = <<>> /\ lock' = Groups!Unlocked(p) /\ patch' = Groups!Disturbed(p)
      /\ last' = z /\ members' = [members EXCEPT ![y.group] = rows] /\ groupBegun' = groupBegun
      /\ resolution' = [w \in Resolver |->
           IF resolution[w].open THEN [resolution[w] EXCEPT !.steady = FALSE] ELSE Groups!NoResolution]
  BY GroupKnown DEF Groups!Commit, Groups!Running
<1>2. /\ y \in Patches /\ y.group \in Group /\ y.listed \subseteq {"user", "group"} /\ y.add \subseteq Groups!Link
      /\ y.remove \subseteq Groups!Link /\ members[y.group] \subseteq Groups!Link /\ Left(y.todo) = {}
  BY <1>1, GroupKnown, TodoFacts
<1>3. /\ z \in Patches /\ z.group = y.group /\ z.listed = y.listed /\ z.chosen = y.chosen /\ z.disturbed = y.disturbed
  BY <1>2 DEF Patches
<1> HIDE DEF z
<1>4. /\ members' \in [Group -> SUBSET Groups!Link] /\ members'[y.group] = rows
      /\ \A g \in Group : g # y.group => members'[g] = members[g]
  BY <1>1, <1>2, GroupKnown
<1>5. patch'[p] = Groups!NoPatch
  BY <1>1 DEF Groups!Disturbed
<1>6. ASSUME NEW q \in Request, q # p
      PROVE  LET x == patch[q]  after == patch'[q] IN
             /\ after \in Patches /\ after.group = x.group /\ after.named = x.named /\ after.listed = x.listed /\ after.chosen = x.chosen
             /\ after.todo = x.todo /\ after.add = x.add /\ after.remove = x.remove
             /\ ~after.disturbed => ~x.disturbed /\ (x.group # y.group \/ (x.named /\ y.named))
  <2>1. patch[q] \in Patches
    BY GroupKnown
  <2>2. CASE patch[q].group = y.group /\ ~(y.named /\ patch[q].named)
    <3>1. patch'[q] = [patch[q] EXCEPT !.disturbed = TRUE]
      BY <1>1, <1>6, <2>2 DEF Groups!Disturbed
    <3> QED
      BY <2>1, <3>1 DEF Patches
  <2>3. CASE ~(patch[q].group = y.group /\ ~(y.named /\ patch[q].named))
    <3>1. patch'[q] = patch[q]
      BY <1>1, <1>6, <2>3 DEF Groups!Disturbed
    <3> QED
      BY <2>1, <2>3, <3>1, GroupKnown
  <2> QED
    BY <2>2, <2>3
<1>7. patch' \in [Request -> Patches]
  <2>1. \A q \in Request : patch'[q] \in Patches
    BY <1>5, <1>6, NoPatchIsOne
  <2> QED
    BY <1>1, <2>1 DEF Groups!Disturbed
<1>8. PatchTypes'
  BY <1>1, <1>3, <1>4, <1>7, UnlockedStays DEF GroupsInv, PatchInv, PatchTypes
<1>9. LocksHeld'
  <2> SUFFICES ASSUME NEW q \in Request, patch'[q].group # None
               PROVE  /\ "name" \in Left(patch'[q].todo) => patch'[q].named /\ patch'[q].listed \subseteq Left(patch'[q].todo)
                      /\ patch'[q].named /\ "name" \notin Left(patch'[q].todo) => lock'[patch'[q].group] = q
    BY DEF LocksHeld
  <2>1. q # p
    BY <1>5, NoPatchIsOne
  <2>2. /\ patch'[q].group = patch[q].group /\ patch'[q].named = patch[q].named /\ patch'[q].listed = patch[q].listed
        /\ patch'[q].todo = patch[q].todo
    BY <1>6, <2>1
  <2>3. patch[q].group \in Group
    BY <2>2, GroupKnown
  <2> QED
    BY <1>1, <2>1, <2>2, <2>3, UnlockedStays DEF GroupsInv, PatchInv, LocksHeld
<1>10. Compared'
  <2> SUFFICES ASSUME NEW q \in Request, patch'[q].group # None, ~patch'[q].disturbed, NEW sort \in patch'[q].listed
               PROVE  IF sort \in Left(patch'[q].todo)
                      THEN Groups!Of(sort, patch'[q].add) = {} /\ Groups!Of(sort, patch'[q].remove) = {}
                      ELSE /\ Groups!Of(sort, patch'[q].add) = Groups!Of(sort, patch'[q].chosen) \ members'[patch'[q].group]
                           /\ Groups!Of(sort, patch'[q].remove) = Groups!Of(sort, members'[patch'[q].group]) \ patch'[q].chosen
    BY DEF Compared, Groups!Of
  <2> DEFINE x == patch[q]
  <2>1. q # p
    BY <1>5, NoPatchIsOne
  <2>2. /\ patch'[q].group = x.group /\ patch'[q].listed = x.listed /\ patch'[q].chosen = x.chosen
        /\ patch'[q].todo = x.todo /\ patch'[q].add = x.add /\ patch'[q].remove = x.remove
        /\ ~x.disturbed /\ (x.group # y.group \/ (x.named /\ y.named)) /\ x.group # None /\ x.group \in Group
    BY <1>6, <2>1, GroupKnown
  <2>3. IF sort \in Left(x.todo) THEN Groups!Of(sort, x.add) = {} /\ Groups!Of(sort, x.remove) = {}
        ELSE /\ Groups!Of(sort, x.add) = Groups!Of(sort, x.chosen) \ members[x.group]
             /\ Groups!Of(sort, x.remove) = Groups!Of(sort, members[x.group]) \ x.chosen
    BY <2>2 DEF GroupsInv, PatchInv, Compared
  <2>4. CASE x.group # y.group
    <3>1. members'[x.group] = members[x.group]
      BY <1>4, <2>2, <2>4
    <3> QED
      BY <2>2, <2>3, <3>1
  <2>5. CASE x.group = y.group /\ x.named /\ y.named
    <3>1. lock[y.group] = p
      BY <1>1, <1>2, <2>5 DEF GroupsInv, PatchInv, LocksHeld
    <3>2. sort \in Left(x.todo)
      BY <2>1, <2>2, <2>5, <3>1 DEF GroupsInv, PatchInv, LocksHeld
    <3> QED
      BY <2>2, <2>3, <3>2
  <2> QED
    BY <2>2, <2>4, <2>5
<1>11. Groups!PatchesStandWhole'
  <2> SUFFICES ASSUME ~z.disturbed, NEW sort \in z.listed
               PROVE  Groups!Of(sort, members'[z.group]) = Groups!Of(sort, z.chosen)
    BY <1>1 DEF Groups!PatchesStandWhole, Groups!Of
  <2>1. /\ Groups!Of(sort, y.add) = Groups!Of(sort, y.chosen) \ members[y.group]
        /\ Groups!Of(sort, y.remove) = Groups!Of(sort, members[y.group]) \ y.chosen
    BY <1>1, <1>2, <1>3 DEF GroupsInv, PatchInv, Compared
  <2>2. Groups!Of(sort, rows) = Groups!Of(sort, y.chosen)
    <3>1. \A l : l \in Groups!Of(sort, rows) <=> l[1] = sort /\ (l \in members[y.group] \/ l \in y.add) /\ l \notin y.remove
      BY DEF Groups!Of
    <3>2. \A l : l[1] = sort => /\ l \in y.add <=> l \in y.chosen /\ l \notin members[y.group]
                                /\ l \in y.remove <=> l \in members[y.group] /\ l \notin y.chosen
      BY <2>1 DEF Groups!Of
    <3>3. \A l : l \in Groups!Of(sort, y.chosen) <=> l[1] = sort /\ l \in y.chosen
      BY DEF Groups!Of
    <3> HIDE DEF rows
    <3>4. \A l : l \in Groups!Of(sort, rows) <=> l \in Groups!Of(sort, y.chosen)
      BY <3>1, <3>2, <3>3
    <3> QED
      BY <3>4
  <2> QED
    BY <1>3, <1>4, <2>2
<1>12. ToldInv'
  <2>1. \A w \in Resolver : /\ resolution'[w] \in Resolutions
                            /\ resolution'[w].open => ~resolution'[w].steady
                            /\ ~resolution'[w].open => resolution'[w].from = {}
    <3> SUFFICES ASSUME NEW w \in Resolver
                 PROVE  /\ resolution'[w] \in Resolutions
                        /\ resolution'[w].open => ~resolution'[w].steady
                        /\ ~resolution'[w].open => resolution'[w].from = {}
      OBVIOUS
    <3>1. resolution[w] \in Resolutions
      BY GroupKnown
    <3>2. CASE resolution[w].open
      <4>1. resolution'[w] = [resolution[w] EXCEPT !.steady = FALSE]
        BY <1>1, <3>2
      <4> QED
        BY <3>1, <3>2, <4>1 DEF Resolutions
    <3>3. CASE ~resolution[w].open
      <4>1. resolution'[w] = Groups!NoResolution
        BY <1>1, <3>3
      <4> QED
        BY <4>1, NoPatchIsOne
    <3> QED
      BY <3>2, <3>3
  <2>2. resolution' \in [Resolver -> Resolutions]
    BY <1>1, <2>1
  <2> QED
    BY <2>1, <2>2 DEF ToldInv, Followed, Groups!ToldAreMembers
<1> QED
  BY <1>8, <1>9, <1>10, <1>11, <1>12 DEF GroupsInv, PatchInv

\* The groups within are groups.
LEMMA SubgroupsAre ==
  ASSUME GroupsInv
  PROVE  /\ \A S \in SUBSET Group : Groups!Subgroups(S) \subseteq Group
         /\ \A S, T : S \subseteq T => Groups!Subgroups(S) \subseteq Groups!Subgroups(T)
         /\ \A S, T : Groups!Subgroups(S) \subseteq Groups!Subgroups(S \ T) \cup Groups!Subgroups(T)
         /\ \A S : Groups!UsersOf(S) \subseteq Active
<1>1. \A g \in Group : \A l \in Groups!Of("group", members[g]) : l[2] \in Group
  BY GroupKnown DEF Groups!Of, Groups!Link
<1>2. \A S, h : h \in Groups!Subgroups(S) <=> \E g \in S : \E l \in Groups!Of("group", members[g]) : h = l[2]
  BY DEF Groups!Subgroups
<1>3. \A S \in SUBSET Group : Groups!Subgroups(S) \subseteq Group
  BY <1>1, <1>2
<1>4. \A S, T : S \subseteq T => Groups!Subgroups(S) \subseteq Groups!Subgroups(T)
  BY <1>2
<1>5. \A S, T : Groups!Subgroups(S) \subseteq Groups!Subgroups(S \ T) \cup Groups!Subgroups(T)
  BY <1>2
<1>6. \A S : Groups!UsersOf(S) \subseteq Active
  BY DEF Groups!UsersOf
<1> QED
  BY <1>3, <1>4, <1>5, <1>6

\* One resolution moves on.
LEMMA ResolutionMoves ==
  ASSUME GroupsInv, NEW w \in Resolver, NEW x \in Resolutions, resolution' = [resolution EXCEPT ![w] = x],
         UNCHANGED members, Followed(x),
         x.from # {} /\ ~x.open /\ x.steady => x.told = Groups!UsersOf(Groups!Within(x.from))
  PROVE  ToldInv'
<1>1. /\ resolution' \in [Resolver -> Resolutions] /\ resolution'[w] = x
      /\ \A v \in Resolver : v # w => resolution'[v] = resolution[v]
  BY GroupKnown
<1>2. /\ \A S : Groups!Subgroups(S)' = Groups!Subgroups(S)
      /\ \A S : Groups!UsersOf(S)' = Groups!UsersOf(S)
  BY DEF Groups!Subgroups, Groups!UsersOf, Groups!Of
<1>3. \A S : Groups!Within(S)' = Groups!Within(S)
  BY <1>2 DEF Groups!Within
<1>4. \A v \in Resolver : Followed(resolution'[v])
  BY <1>1 DEF GroupsInv, ToldInv
<1>5. \A v \in Resolver : Followed(resolution[v])'
  BY <1>2, <1>4 DEF Followed
<1>6. \A v \in Resolver : LET r == resolution'[v] IN
        r.from # {} /\ ~r.open /\ r.steady => r.told = Groups!UsersOf(Groups!Within(r.from))
  BY <1>1 DEF GroupsInv, ToldInv, Groups!ToldAreMembers
<1>7. Groups!ToldAreMembers'
  BY <1>2, <1>3, <1>6 DEF Groups!ToldAreMembers
<1> QED
  BY <1>1, <1>5, <1>7 DEF ToldInv

LEMMA NotifyKept == ASSUME GroupsInv, NEW w \in Resolver, NEW G \in SUBSET Group, Groups!Notify(w, G) PROVE GroupsInv'
<1> DEFINE x == [found |-> G, queue |-> G, told |-> {}, open |-> TRUE, from |-> G, steady |-> TRUE]
<1>1. resolution' = [resolution EXCEPT ![w] = x] /\ UNCHANGED <<members, lock, patch, last, groupBegun>>
  BY DEF Groups!Notify
<1>2. x \in Resolutions /\ x.found = G /\ x.queue = G /\ x.from = G /\ x.open
  BY DEF Resolutions
<1> HIDE DEF x
<1>3. Groups!Subgroups(x.found \ x.queue) \subseteq x.found
  BY <1>2 DEF Groups!Subgroups
<1>4. Followed(x)
  BY <1>2, <1>3 DEF Followed
<1> QED
  BY <1>1, <1>2, <1>4, PatchStays, ResolutionMoves DEF GroupsInv

\* A round finds what is within the queue: the groups found before are done.
LEMMA ExpandKept == ASSUME GroupsInv, NEW w \in Resolver, Groups!Expand(w) PROVE GroupsInv'
<1> DEFINE y == resolution[w]
           more == Groups!Subgroups(y.queue)
           x == [y EXCEPT !.queue = more \ y.found, !.found = y.found \cup more]
<1>1. y.open /\ resolution' = [resolution EXCEPT ![w] = x] /\ UNCHANGED <<members, lock, patch, last, groupBegun>>
  BY GroupKnown DEF Groups!Expand
<1>2. y \in Resolutions /\ y.found \subseteq Group /\ y.queue \subseteq Group /\ more \subseteq Group
  BY GroupKnown, SubgroupsAre
<1> HIDE DEF more
<1>3. /\ x \in Resolutions /\ x.queue = more \ y.found /\ x.found = y.found \cup more /\ x.from = y.from /\ x.open
      /\ x.steady = y.steady
  BY <1>1, <1>2 DEF Resolutions
<1> HIDE DEF x
<1>4. Followed(x)
  <2> SUFFICES ASSUME y.steady
               PROVE  /\ x.from \subseteq x.found /\ x.queue \subseteq x.found
                      /\ \A S \in SUBSET Group : x.from \subseteq S /\ Groups!Subgroups(S) \subseteq S => x.found \subseteq S
                      /\ Groups!Subgroups(x.found \ x.queue) \subseteq x.found
    BY <1>3 DEF Followed
  <2>1. /\ y.from \subseteq y.found /\ y.queue \subseteq y.found
        /\ \A S \in SUBSET Group : y.from \subseteq S /\ Groups!Subgroups(S) \subseteq S => y.found \subseteq S
        /\ Groups!Subgroups(y.found \ y.queue) \subseteq y.found
    BY <1>1 DEF GroupsInv, ToldInv, Followed
  <2>2. x.found \ x.queue = y.found
    BY <1>3
  <2>3. Groups!Subgroups(y.found) \subseteq Groups!Subgroups(y.found \ y.queue) \cup more
    BY SubgroupsAre DEF more
  <2>4. ASSUME NEW S \in SUBSET Group, y.from \subseteq S, Groups!Subgroups(S) \subseteq S PROVE more \subseteq S
    <3>1. y.queue \subseteq S
      BY <2>1, <2>4
    <3> QED
      BY <2>4, <3>1, SubgroupsAre DEF more
  <2> QED
    BY <1>3, <2>1, <2>2, <2>3, <2>4
<1> QED
  BY <1>1, <1>3, <1>4, PatchStays, ResolutionMoves DEF GroupsInv

\* With nothing left to look at, what is found is what is within.
LEMMA TellKept == ASSUME GroupsInv, NEW w \in Resolver, Groups!Tell(w) PROVE GroupsInv'
<1> DEFINE y == resolution[w]
           reached == Groups!UsersOf(y.found)
           x == [y EXCEPT !.open = FALSE, !.found = {}, !.told = reached]
<1>1. /\ y.open /\ y.queue = {} /\ resolution' = [resolution EXCEPT ![w] = x]
      /\ UNCHANGED <<members, lock, patch, last, groupBegun>>
  BY GroupKnown DEF Groups!Tell
<1>2. y \in Resolutions /\ y.found \subseteq Group /\ reached \subseteq Active
  BY GroupKnown, SubgroupsAre
<1> HIDE DEF reached
<1>3. x \in Resolutions /\ ~x.open /\ x.told = reached /\ x.from = y.from /\ x.steady = y.steady
  BY <1>2 DEF Resolutions
<1> HIDE DEF x
<1>4. y.steady => Groups!Within(y.from) = y.found
  <2> SUFFICES ASSUME y.steady PROVE Groups!Within(y.from) = y.found
    OBVIOUS
  <2>1. /\ y.from \subseteq y.found
        /\ \A S \in SUBSET Group : y.from \subseteq S /\ Groups!Subgroups(S) \subseteq S => y.found \subseteq S
        /\ Groups!Subgroups(y.found \ y.queue) \subseteq y.found
    BY <1>1 DEF GroupsInv, ToldInv, Followed
  <2>2. Groups!Subgroups(y.found) \subseteq y.found
    <3>1. y.found \ y.queue = y.found
      BY <1>1
    <3> QED
      BY <2>1, <3>1
  <2>3. Groups!Within(y.from) \subseteq y.found
    BY <1>2, <2>1, <2>2 DEF Groups!Within
  <2>4. y.found \subseteq Groups!Within(y.from)
    BY <1>2, <2>1 DEF Groups!Within
  <2> QED
    BY <2>3, <2>4
<1>5. x.from # {} /\ ~x.open /\ x.steady => x.told = Groups!UsersOf(Groups!Within(x.from))
  BY <1>3, <1>4 DEF reached
<1>6. Followed(x)
  BY <1>3 DEF Followed
<1> QED
  BY <1>1, <1>3, <1>5, <1>6, PatchStays, ResolutionMoves DEF GroupsInv

LEMMA GroupsKept == ASSUME GroupsInv, [Groups!Next]_groupVars PROVE GroupsInv'
<1>1. CASE UNCHANGED groupVars
  BY <1>1, PatchStays, ToldStays DEF groupVars, GroupsInv
<1>2. ASSUME NEW w \in Resolver, NEW g \in Group, Groups!Notify(w, {g}) PROVE GroupsInv'
  BY <1>2, NotifyKept
<1> QED
  BY <1>1, <1>2, PatchBegins, UpdateNameKept, SyncTableKept, GroupCommitKept, GroupFailKept, ExpandKept, TellKept
     DEF Groups!Next

LEMMA GroupsAre == ASSUME GroupsInv PROVE Groups!TypeOK /\ Groups!PatchesStandWhole /\ Groups!ToldAreMembers
<1>1. \A s \in Todos : Groups!Range(s) \subseteq {"name"} \cup Groups!Kind
  BY TodoFacts DEF Groups!Range, Left, Groups!Kind
<1>2. Groups!TypeOK
  BY <1>1, GroupKnown DEF Groups!TypeOK, GroupsInv, PatchInv, PatchTypes, Groups!Kind
<1> QED
  BY <1>2 DEF GroupsInv, PatchInv, ToldInv

\* A patch that no other disturbed leaves the lists it names as chosen, and those told are the
\* active members of a group and of all within it, also where groups contain one another; a
\* converted lead names rows that belong together, and success is told once, overlaps and a
\* failed last step aside.
THEOREM GroupsAndLeadsTheorem == Spec => []GroupsAndLeadsHold
<1> DEFINE Inv == (service = "group" => GroupsInv) /\ (service = "lead" => LeadInv)
<1>1. Init => Inv
  BY OnePartAtFirst, GroupsAtFirst, LeadsAtFirst
<1>2. Inv /\ [Next]_vars => Inv'
  BY OnePart, GroupsKept, LeadsKept
<1>3. Inv => GroupsAndLeadsHold
  BY GroupsAre, LeadHolds DEF GroupsAndLeadsHold
<1> HIDE DEF Inv
<1> QED
  BY <1>1, <1>2, <1>3, PTL DEF Spec

-----------------------------------------------------------------------------
\* PreviewPage

AllParts == {"Layout", "Related data", "Task", "Permission", "Shared record permissions", "File",
             "Event", "Telephony config", "Path builder", "History"}
SharedPart == "Shared record permissions"

\* How far a page has got.
Place(at) ==
  CASE at = "Layout"                    -> 1
    [] at = "Related data"              -> 2
    [] at = "Task"                      -> 3
    [] at = "Permission"                -> 4
    [] at = "Shared record permissions" -> 5
    [] at = "File"                      -> 6
    [] at = "Event"                     -> 7
    [] at = "Telephony config"          -> 8
    [] at = "Path builder"              -> 9
    [] at = "History"                   -> 10
    [] at = "build"                     -> 11
    [] OTHER                            -> 0

PageFields == {"at", "seen", "data", "there", "errors", "offers", "calls", "outcome", "disturbed"}
IsPage(p) == p = [f \in PageFields |-> p[f]]

OfferSets == SUBSET {"read", "edit", "write", "delete"}

PageTyped(p) ==
  /\ IsPage(p) /\ p.at \in {"closed", "record", "access", "build"} \cup AllParts
  /\ p.data \in {"list", "row", "empty"} /\ p.outcome \in {"none", "page", "no layout", "failed"}
  /\ p.there \subseteq Page!Named \cup Page!Computed /\ p.errors \subseteq Page!Named
  /\ p.offers \in {Unset, NoRow} \cup OfferSets /\ p.disturbed \in BOOLEAN

\* Somebody who may do all that the permissions allow.
Trusted(u) == u \in Admin \cup {record.owner, record.assignee}

\* What is offered follows the shares.
Follows(u, offers) ==
  offers # NoRow => "delete" \notin offers /\ ("edit" \in offers => "write" \in share[u])

\* A page has every part that it has passed, or tells; one that nothing disturbed was read by somebody
\* whom the record is in reach of, and past the shares it offers what these allow.
PageFine(u, p) ==
  /\ PageTyped(p)
  /\ p.at # "closed" => p.outcome = "none"
  /\ \A n \in AllParts : Place(n) < Place(p.at) \/ p.outcome = "page" => n \in p.there \cup p.errors
  /\ p.outcome = "page" => p.data # "list"
  /\ ~p.disturbed =>
       /\ p.data # "empty"
       /\ p.at \notin {"closed", "record"} => p.seen = record /\ Page!Visible(u)
       /\ Place(p.at) > 0 \/ p.outcome = "page" => Trusted(u) \/ share[u] # {}
       /\ Place(p.at) > 5 \/ p.outcome = "page" => Trusted(u) \/ SharedPart \in p.errors \/ Follows(u, p.offers)

PageInv ==
  /\ record \in [state : {"live", "bin", "gone"}, owner : PageUser, assignee : PageUser]
  /\ rights \in [Reader -> Rights] /\ level \in Page!Level /\ share \in [Reader -> Page!Mask] /\ changes \in 0..MaxChanges
  /\ pagePage = [u \in Reader |-> pagePage[u]]
  /\ \A u \in Reader : PageFine(u, pagePage[u])

LEMMA PartFacts ==
  /\ Page!Named = AllParts \cup {"Field level permissions"} /\ Page!Plain \subseteq AllParts
  /\ SharedPart \in AllParts /\ Place(SharedPart) = 5
  /\ \A n \in AllParts : Place(n) \in 1..10
  /\ \A m, n \in AllParts : Place(m) = Place(n) => m = n
  /\ Place("build") = 11 /\ Place("closed") = 0 /\ Place("record") = 0 /\ Place("access") = 0
  /\ \A n \in AllParts : Page!After(n) \in AllParts \cup {"build"} /\ Place(Page!After(n)) = Place(n) + 1
<1>1. /\ Place("Layout") = 1 /\ Place("Related data") = 2 /\ Place("Task") = 3 /\ Place("Permission") = 4
      /\ Place("Shared record permissions") = 5 /\ Place("File") = 6 /\ Place("Event") = 7 /\ Place("Telephony config") = 8
      /\ Place("Path builder") = 9 /\ Place("History") = 10 /\ Place("build") = 11
      /\ Place("closed") = 0 /\ Place("record") = 0 /\ Place("access") = 0
  BY DEF Place
<1>2. /\ Page!Parts[1] = "Layout" /\ Page!Parts[2] = "Related data" /\ Page!Parts[3] = "Task" /\ Page!Parts[4] = "Permission"
      /\ Page!Parts[5] = "Shared record permissions" /\ Page!Parts[6] = "File" /\ Page!Parts[7] = "Event"
      /\ Page!Parts[8] = "Telephony config" /\ Page!Parts[9] = "Path builder" /\ Page!Parts[10] = "History"
      /\ DOMAIN Page!Parts = 1..10 /\ Len(Page!Parts) = 10
  BY DEF Page!Parts
<1>3. \A i \in 1..10 : Page!Parts[i] \in AllParts /\ Place(Page!Parts[i]) = i
  <2>1. \A i \in 1..10 : \/ i = 1 \/ i = 2 \/ i = 3 \/ i = 4 \/ i = 5 \/ i = 6 \/ i = 7 \/ i = 8 \/ i = 9 \/ i = 10
    OBVIOUS
  <2> QED
    BY <1>1, <1>2, <2>1 DEF AllParts
<1>4. \A n \in AllParts : \E i \in 1..10 : Page!Parts[i] = n
  <2>1. \A n \in AllParts : \/ n = Page!Parts[1] \/ n = Page!Parts[2] \/ n = Page!Parts[3] \/ n = Page!Parts[4] \/ n = Page!Parts[5]
                            \/ n = Page!Parts[6] \/ n = Page!Parts[7] \/ n = Page!Parts[8] \/ n = Page!Parts[9] \/ n = Page!Parts[10]
    BY <1>2 DEF AllParts
  <2> QED
    BY <2>1
<1>5. {Page!Parts[i] : i \in DOMAIN Page!Parts} = AllParts
  BY <1>2, <1>3, <1>4
<1>6. Page!Named = AllParts \cup {"Field level permissions"} /\ Page!Plain \subseteq AllParts
  BY <1>5 DEF Page!Named, Page!Plain, AllParts
<1>7. ASSUME NEW n \in AllParts
      PROVE  /\ Page!After(n) \in AllParts \cup {"build"} /\ Place(Page!After(n)) = Place(n) + 1
             /\ Place(n) \in 1..10 /\ n = Page!Parts[Place(n)]
  <2> DEFINE i == CHOOSE j \in DOMAIN Page!Parts : Page!Parts[j] = n
  <2>1. i \in 1..10 /\ Page!Parts[i] = n
    BY <1>2, <1>4
  <2>2. Page!After(n) = IF i = 10 THEN "build" ELSE Page!Parts[i + 1]
    <3>1. Page!After(n) = IF i = Len(Page!Parts) THEN "build" ELSE Page!Parts[i + 1]
      BY Zenon DEF Page!After
    <3> HIDE DEF i
    <3> QED
      BY <1>2, <3>1
  <2> HIDE DEF i
  <2>3. Place(n) = i
    BY <1>3, <2>1
  <2>4. CASE i = 10
    <3>1. Page!After(n) = "build" /\ Place(n) = 10
      BY <2>2, <2>3, <2>4
    <3>2. Place(Page!After(n)) = 11
      BY <1>1, <3>1
    <3> QED
      BY <2>1, <2>3, <2>4, <3>1, <3>2
  <2>5. CASE i # 10
    <3>1. i + 1 \in 1..10
      BY <2>1, <2>5
    <3> QED
      BY <1>3, <2>1, <2>2, <2>3, <2>5, <3>1
  <2> QED
    BY <2>4, <2>5
<1>8. \A m, n \in AllParts : Place(m) = Place(n) => m = n
  BY <1>7
<1> QED
  BY <1>1, <1>6, <1>7, <1>8 DEF SharedPart, AllParts

LEMMA NoneBefore ==
  ASSUME NEW n \in AllParts PROVE ~(Place(n) < 0) /\ ~(Place(n) < 1)
<1>1. Place(n) \in 1..10
  BY PartFacts
<1> QED
  BY <1>1

LEMMA PlacesEnd == \A n \in AllParts : Place(n) < 11
<1> SUFFICES ASSUME NEW n \in AllParts PROVE Place(n) < 11
  OBVIOUS
<1>1. Place(n) \in 1..10
  BY PartFacts
<1> QED
  BY <1>1

LEMMA BuildIsLast == Place("build") > 0 /\ Place("build") > 5
<1>1. Place("build") = 11
  BY PartFacts
<1> QED
  BY <1>1

LEMMA ZeroIsNoPlace == ~(0 > 0) /\ ~(0 > 5)
  OBVIOUS

LEMMA NoPageIsOne ==
  /\ PageTyped(Page!NoPage) /\ Page!NoPage.at = "closed" /\ Page!NoPage.outcome = "none" /\ Page!NoPage.data = "list"
BY PartFacts DEF PageTyped, IsPage, PageFields, Page!NoPage

\* A page with another value in one of its fields.
LEMMA PageWith ==
  ASSUME NEW p, IsPage(p), NEW v
  PROVE  /\ \A f \in PageFields : LET q == [p EXCEPT ![f] = v] IN
              IsPage(q) /\ q[f] = v /\ \A g \in PageFields : g # f => q[g] = p[g]
BY DEF IsPage

LEMMA PageAtFirst == Page!Init => PageInv
<1> SUFFICES ASSUME Page!Init PROVE PageInv
  OBVIOUS
<1>1. /\ record \in [state : {"live"}, owner : PageUser, assignee : PageUser]
      /\ rights \in [Reader -> Rights] /\ level \in Page!Level /\ share \in [Reader -> Page!Mask]
      /\ pagePage = [u \in Reader |-> Page!NoPage] /\ changes = 0
  BY DEF Page!Init
<1>2. changes \in 0..MaxChanges
  BY <1>1, DeskAssumption DEF Page!PreviewAssumption
<1>3. \A u \in Reader : PageFine(u, Page!NoPage)
  <2>1. \A n \in AllParts : ~(Place(n) < 0)
    BY NoneBefore
  <2>2. Place(Page!NoPage.at) = 0
    BY PartFacts, NoPageIsOne
  <2> QED
    BY <2>1, <2>2, NoPageIsOne DEF PageFine
<1> QED
  BY <1>1, <1>2, <1>3 DEF PageInv

\* One page moves on.
LEMMA PageMoves ==
  ASSUME PageInv, NEW u \in Reader, NEW x, PageFine(u, x), pagePage' = [pagePage EXCEPT ![u] = x],
         UNCHANGED <<record, rights, level, share, changes>>
  PROVE  PageInv'
<1>1. /\ pagePage' = [v \in Reader |-> pagePage'[v]] /\ pagePage'[u] = x
      /\ \A v \in Reader : v # u => pagePage'[v] = pagePage[v]
  BY DEF PageInv
<1>2. \A v \in Reader : PageFine(v, pagePage'[v])
  BY <1>1 DEF PageInv
<1>3. \A v \in Reader : PageFine(v, pagePage[v])'
  BY <1>2 DEF PageFine, Trusted, Follows, Page!Visible, Page!MayRead
<1> QED
  BY <1>1, <1>3 DEF PageInv

\* A part is done: it is there, or the message names it.
LEMMA PartDone ==
  ASSUME PageInv, NEW u \in Reader, NEW p, PageFine(u, p), NEW part \in AllParts, p.at = part
  PROVE  /\ Page!MustFail(u, part, p) => PageInv'
         /\ /\ Page!Fetched(u, part, p)
            /\ part = SharedPart /\ ~p.disturbed => Trusted(u) \/ Follows(u, p.offers)
            => PageInv'
<1>1. IsPage(p) /\ PageTyped(p) /\ part \notin {"closed", "record", "access"} /\ p.outcome = "none"
  BY DEF PageFine, PageTyped, AllParts
<1> DEFINE next == Page!After(part)
<1>2. /\ next \in AllParts \cup {"build"} /\ next \notin {"closed", "record", "access"} /\ Place(next) = Place(part) + 1
      /\ Place(part) \in 1..10 /\ Place(SharedPart) = 5 /\ SharedPart \in AllParts
  BY PartFacts DEF AllParts
<1> HIDE DEF next
<1>3. part \in Page!Named
  BY PartFacts
<1>4. \A n \in AllParts : Place(n) < Place(next) => n = part \/ Place(n) < Place(part)
  <2> SUFFICES ASSUME NEW n \in AllParts, Place(n) < Place(next), n # part PROVE Place(n) < Place(part)
    OBVIOUS
  <2>1. Place(n) \in 1..10 /\ Place(n) # Place(part)
    BY PartFacts
  <2> QED
    BY <1>2, <2>1
<1>5. ASSUME NEW x, IsPage(x), x.at = next, x.there = p.there \cup {part}, x.errors = p.errors,
             \A f \in PageFields \ {"at", "there", "errors"} : x[f] = p[f],
             part = SharedPart /\ ~p.disturbed => Trusted(u) \/ Follows(u, p.offers)
      PROVE  PageFine(u, x)
  <2>1. x.seen = p.seen /\ x.data = p.data /\ x.offers = p.offers /\ x.outcome = p.outcome /\ x.disturbed = p.disturbed
    BY <1>5 DEF PageFields
  <2>2. PageTyped(x)
    BY <1>1, <1>2, <1>3, <1>5, <2>1 DEF PageTyped
  <2>3. \A n \in AllParts : Place(n) < Place(x.at) \/ x.outcome = "page" => n \in x.there \cup x.errors
    BY <1>1, <1>4, <1>5, <2>1 DEF PageFine
  <2>4. ASSUME ~x.disturbed
        PROVE  /\ x.data # "empty" /\ x.seen = record /\ Page!Visible(u) /\ (Trusted(u) \/ share[u] # {})
               /\ Place(x.at) > 5 => Trusted(u) \/ SharedPart \in x.errors \/ Follows(u, x.offers)
    <3>1. /\ p.data # "empty" /\ p.seen = record /\ Page!Visible(u) /\ (Trusted(u) \/ share[u] # {})
          /\ Place(part) > 5 => Trusted(u) \/ SharedPart \in p.errors \/ Follows(u, p.offers)
      <4>1. ~p.disturbed /\ Place(p.at) > 0 /\ p.at \notin {"closed", "record"}
        BY <1>1, <1>2, <2>1, <2>4
      <4> QED
        BY <4>1 DEF PageFine
    <3>2. Place(x.at) > 5 => Place(part) > 5 \/ part = SharedPart
      <4>1. Place(x.at) > 5 => Place(part) > 5 \/ Place(part) = Place(SharedPart)
        BY <1>2, <1>5
      <4> QED
        BY <1>2, <4>1, PartFacts
    <3> QED
      BY <1>5, <2>1, <2>4, <3>1, <3>2
  <2> QED
    BY <1>1, <1>5, <2>1, <2>2, <2>3, <2>4 DEF PageFine
<1>6. ASSUME NEW x, IsPage(x), x.at = next, x.there = p.there, x.errors = p.errors \cup {part},
             \A f \in PageFields \ {"at", "there", "errors"} : x[f] = p[f]
      PROVE  PageFine(u, x)
  <2>1. x.seen = p.seen /\ x.data = p.data /\ x.offers = p.offers /\ x.outcome = p.outcome /\ x.disturbed = p.disturbed
    BY <1>6 DEF PageFields
  <2>2. PageTyped(x)
    BY <1>1, <1>2, <1>3, <1>6, <2>1 DEF PageTyped
  <2>3. \A n \in AllParts : Place(n) < Place(x.at) \/ x.outcome = "page" => n \in x.there \cup x.errors
    BY <1>1, <1>4, <1>6, <2>1 DEF PageFine
  <2>4. ASSUME ~x.disturbed
        PROVE  /\ x.data # "empty" /\ x.seen = record /\ Page!Visible(u) /\ (Trusted(u) \/ share[u] # {})
               /\ Place(x.at) > 5 => Trusted(u) \/ SharedPart \in x.errors \/ Follows(u, x.offers)
    <3>1. /\ p.data # "empty" /\ p.seen = record /\ Page!Visible(u) /\ (Trusted(u) \/ share[u] # {})
          /\ Place(part) > 5 => Trusted(u) \/ SharedPart \in p.errors \/ Follows(u, p.offers)
      <4>1. ~p.disturbed /\ Place(p.at) > 0 /\ p.at \notin {"closed", "record"}
        BY <1>1, <1>2, <2>1, <2>4
      <4> QED
        BY <4>1 DEF PageFine
    <3>2. Place(x.at) > 5 => Place(part) > 5 \/ part = SharedPart
      <4>1. Place(x.at) > 5 => Place(part) > 5 \/ Place(part) = Place(SharedPart)
        BY <1>2, <1>6
      <4> QED
        BY <1>2, <4>1, PartFacts
    <3> QED
      BY <1>6, <2>1, <2>4, <3>1, <3>2
  <2> QED
    BY <1>1, <1>6, <2>1, <2>2, <2>3, <2>4 DEF PageFine
<1>7. ASSUME Page!MustFail(u, part, p) PROVE PageInv'
  <2> DEFINE q == [p EXCEPT !.errors = @ \cup {part}]
             x == [q EXCEPT !.at = next]
  <2>1. pagePage' = [pagePage EXCEPT ![u] = x] /\ UNCHANGED <<record, rights, level, share, changes>>
    BY <1>7 DEF Page!MustFail, Page!To, next
  <2>2. IsPage(q) /\ q.errors = p.errors \cup {part} /\ \A f \in PageFields \ {"errors"} : q[f] = p[f]
    BY <1>1 DEF IsPage, PageFields
  <2> HIDE DEF q
  <2>3. IsPage(x) /\ x.at = next /\ \A f \in PageFields \ {"at"} : x[f] = q[f]
    BY <2>2 DEF IsPage, PageFields
  <2> HIDE DEF x
  <2>4. PageFine(u, x)
    <3>1. x.there = p.there /\ x.errors = p.errors \cup {part} /\ \A f \in PageFields \ {"at", "there", "errors"} : x[f] = p[f]
      BY <2>2, <2>3 DEF PageFields
    <3> QED
      BY <1>6, <2>3, <3>1
  <2> QED
    BY <2>1, <2>4, PageMoves
<1>8. ASSUME Page!Fetched(u, part, p), part = SharedPart /\ ~p.disturbed => Trusted(u) \/ Follows(u, p.offers)
      PROVE  PageInv'
  <2> DEFINE q == [p EXCEPT !.there = @ \cup {part}]
             x == [q EXCEPT !.at = next]
  <2>1. pagePage' = [pagePage EXCEPT ![u] = x] /\ UNCHANGED <<record, rights, level, share, changes>>
    BY <1>8 DEF Page!Fetched, Page!To, next
  <2>2. IsPage(q) /\ q.there = p.there \cup {part} /\ \A f \in PageFields \ {"there"} : q[f] = p[f]
    BY <1>1 DEF IsPage, PageFields
  <2> HIDE DEF q
  <2>3. IsPage(x) /\ x.at = next /\ \A f \in PageFields \ {"at"} : x[f] = q[f]
    BY <2>2 DEF IsPage, PageFields
  <2> HIDE DEF x
  <2>4. PageFine(u, x)
    <3>1. x.there = p.there \cup {part} /\ x.errors = p.errors /\ \A f \in PageFields \ {"at", "there", "errors"} : x[f] = p[f]
      BY <2>2, <2>3 DEF PageFields
    <3> QED
      BY <1>5, <1>8, <2>3, <3>1
  <2> QED
    BY <2>1, <2>4, PageMoves
<1> QED
  BY <1>7, <1>8

\* What was read for a part that is under way changes the page and no more.
LEMMA PageLearns ==
  ASSUME NEW u, NEW p, PageFine(u, p), p.at \in AllParts, NEW q, IsPage(q),
         q.at = p.at, q.seen = p.seen, q.there = p.there, q.outcome = p.outcome, q.disturbed = p.disturbed,
         p.errors \subseteq q.errors, q.errors \subseteq Page!Named,
         q.data \in {"row", "empty"} \/ q.data = p.data,
         q.data = p.data \/ (Page!Visible(u) => q.data = "row"),
         q.offers = p.offers \/ (Place(p.at) <= 5 /\ q.offers \in {Unset, NoRow} \cup OfferSets)
  PROVE  PageFine(u, q)
<1>1. Place(p.at) \in 1..10 /\ p.at \notin {"closed", "record", "access"} /\ p.outcome = "none"
  BY PartFacts DEF PageFine, AllParts
<1>2. PageTyped(q)
  BY DEF PageFine, PageTyped
<1>3. \A n \in AllParts : Place(n) < Place(q.at) \/ q.outcome = "page" => n \in q.there \cup q.errors
  BY DEF PageFine
<1>4. ASSUME ~q.disturbed
      PROVE  /\ q.data # "empty" /\ q.seen = record /\ Page!Visible(u) /\ (Trusted(u) \/ share[u] # {})
             /\ Place(q.at) > 5 => Trusted(u) \/ SharedPart \in q.errors \/ Follows(u, q.offers)
  <2>1. Place(p.at) > 0 /\ ~p.disturbed
    BY <1>1, <1>4
  <2>2. /\ p.data # "empty" /\ p.seen = record /\ Page!Visible(u) /\ (Trusted(u) \/ share[u] # {})
        /\ Place(p.at) > 5 => Trusted(u) \/ SharedPart \in p.errors \/ Follows(u, p.offers)
    BY <1>1, <2>1 DEF PageFine
  <2>3. Place(q.at) > 5 => q.offers = p.offers
    BY <1>1
  <2> QED
    BY <2>2, <2>3
<1> QED
  BY <1>1, <1>2, <1>3, <1>4 DEF PageFine

LEMMA OpenKeeps ==
  ASSUME PageInv, NEW u \in Reader, Page!Open(u) PROVE PageInv'
<1> DEFINE x == [Page!NoPage EXCEPT !.at = "record"]
<1>1. pagePage' = [pagePage EXCEPT ![u] = x] /\ UNCHANGED <<record, rights, level, share, changes>>
  BY DEF Page!Open, Page!To
<1>2. IsPage(x) /\ x.at = "record" /\ \A f \in PageFields \ {"at"} : x[f] = Page!NoPage[f]
  BY NoPageIsOne DEF PageTyped, IsPage, PageFields
<1> HIDE DEF x
<1>3. PageFine(u, x)
  <2>1. PageTyped(x)
    BY <1>2, NoPageIsOne DEF PageTyped, PageFields
  <2>2. Place("record") = 0
    BY PartFacts
  <2>3. \A n \in AllParts : ~(Place(n) < 0)
    BY NoneBefore
  <2>4. x.at = "record" /\ x.outcome = "none" /\ x.data = "list"
    BY <1>2, NoPageIsOne DEF PageFields
  <2> QED
    BY <2>1, <2>2, <2>3, <2>4 DEF PageFine
<1> QED
  BY <1>1, <1>3, PageMoves

\* A page ends with nothing to show.
LEMMA EndKeeps ==
  ASSUME PageInv, NEW u \in Reader, NEW outcome \in {"no layout", "failed"}, Page!End(u, outcome) PROVE PageInv'
<1> DEFINE p == pagePage[u]
           q == [p EXCEPT !.outcome = outcome]
           x == [q EXCEPT !.at = "closed"]
<1>1. pagePage' = [pagePage EXCEPT ![u] = x] /\ UNCHANGED <<record, rights, level, share, changes>>
  BY DEF Page!End, Page!To
<1>2. PageFine(u, p) /\ IsPage(p)
  BY DEF PageInv, PageFine, PageTyped
<1> HIDE DEF p
<1>3. IsPage(q) /\ q.outcome = outcome /\ \A f \in PageFields \ {"outcome"} : q[f] = p[f]
  BY <1>2 DEF IsPage, PageFields
<1> HIDE DEF q
<1>4. IsPage(x) /\ x.at = "closed" /\ \A f \in PageFields \ {"at"} : x[f] = q[f]
  BY <1>3 DEF IsPage, PageFields
<1> HIDE DEF x
<1>5. /\ x.data = p.data /\ x.there = p.there /\ x.errors = p.errors /\ x.offers = p.offers /\ x.disturbed = p.disturbed
      /\ x.outcome = outcome
  BY <1>3, <1>4 DEF PageFields
<1>6. PageFine(u, x)
  <2>0. Place("closed") = 0
    BY PartFacts
  <2>1. ~(0 > 0) /\ ~(0 > 5)
    BY ZeroIsNoPlace
  <2>5. x.outcome # "page"
    <3>1. outcome # "page"
      OBVIOUS
    <3> QED
      BY <1>5, <3>1
  <2>2. \A n \in AllParts : ~(Place(n) < 0)
    BY NoneBefore
  <2>3. PageTyped(x)
    BY <1>2, <1>4, <1>5 DEF PageFine, PageTyped
  <2>4. ~x.disturbed => x.data # "empty"
    BY <1>2, <1>5 DEF PageFine
  <2> QED
    BY <1>4, <1>5, <2>0, <2>1, <2>2, <2>3, <2>4, <2>5 DEF PageFine
<1> QED
  BY <1>1, <1>6, PageMoves

LEMMA ReadRecordKeeps ==
  ASSUME PageInv, NEW u \in Reader, Page!ReadRecord(u) PROVE PageInv'
<1>1. CASE Page!Denied(u) \/ ~Page!Visible(u) \/ record.state # "live"
  BY <1>1, EndKeeps DEF Page!ReadRecord
<1>2. CASE ~(Page!Denied(u) \/ ~Page!Visible(u) \/ record.state # "live")
  <2> DEFINE p == pagePage[u]
             q == [p EXCEPT !.seen = record]
             x == [q EXCEPT !.at = "access"]
  <2>1. /\ pagePage' = [pagePage EXCEPT ![u] = x] /\ UNCHANGED <<record, rights, level, share, changes>>
        /\ p.at = "record" /\ Page!Visible(u)
    BY <1>2 DEF Page!ReadRecord, Page!To
  <2>2. PageFine(u, p) /\ IsPage(p)
    BY DEF PageInv, PageFine, PageTyped
  <2> HIDE DEF p
  <2>3. IsPage(q) /\ q.seen = record /\ \A f \in PageFields \ {"seen"} : q[f] = p[f]
    BY <2>2 DEF IsPage, PageFields
  <2> HIDE DEF q
  <2>4. IsPage(x) /\ x.at = "access" /\ \A f \in PageFields \ {"at"} : x[f] = q[f]
    BY <2>3 DEF IsPage, PageFields
  <2> HIDE DEF x
  <2>5. /\ x.data = p.data /\ x.there = p.there /\ x.errors = p.errors /\ x.offers = p.offers /\ x.disturbed = p.disturbed
        /\ x.outcome = p.outcome /\ x.seen = record
    BY <2>3, <2>4 DEF PageFields
  <2>6. PageFine(u, x)
    <3>1. Place("access") = 0
      BY PartFacts
    <3>2. \A n \in AllParts : ~(Place(n) < 0)
      BY NoneBefore
    <3>3. PageTyped(x)
      BY <2>2, <2>4, <2>5 DEF PageFine, PageTyped
    <3>4. (~x.disturbed => x.data # "empty") /\ x.outcome = "none"
      BY <2>1, <2>2, <2>5 DEF PageFine
    <3> QED
      BY <2>1, <2>4, <2>5, <3>1, <3>2, <3>3, <3>4 DEF PageFine
  <2> QED
    BY <2>1, <2>6, PageMoves
<1> QED
  BY <1>1, <1>2

LEMMA CheckAccessKeeps ==
  ASSUME PageInv, NEW u \in Reader, Page!CheckAccess(u) PROVE PageInv'
<1>1. CASE ~(u \in Admin \/ u \in {pagePage[u].seen.owner, pagePage[u].seen.assignee} \/ share[u] # {})
  BY <1>1, EndKeeps DEF Page!CheckAccess
<1>2. CASE u \in Admin \/ u \in {pagePage[u].seen.owner, pagePage[u].seen.assignee} \/ share[u] # {}
  <2> DEFINE p == pagePage[u]
             x == [p EXCEPT !.at = "Layout"]
  <2>1. /\ pagePage' = [pagePage EXCEPT ![u] = x] /\ UNCHANGED <<record, rights, level, share, changes>>
        /\ p.at = "access"
    BY <1>2 DEF Page!CheckAccess, Page!To
  <2>2. PageFine(u, p) /\ IsPage(p)
    BY DEF PageInv, PageFine, PageTyped
  <2>3. ~p.disturbed => p.seen = record /\ Page!Visible(u) /\ (Trusted(u) \/ share[u] # {})
    BY <1>2, <2>1, <2>2 DEF PageFine, Trusted
  <2> HIDE DEF p
  <2>4. IsPage(x) /\ x.at = "Layout" /\ \A f \in PageFields \ {"at"} : x[f] = p[f]
    BY <2>2 DEF IsPage, PageFields
  <2> HIDE DEF x
  <2>5. /\ x.data = p.data /\ x.there = p.there /\ x.errors = p.errors /\ x.offers = p.offers /\ x.disturbed = p.disturbed
        /\ x.outcome = p.outcome /\ x.seen = p.seen
    BY <2>4 DEF PageFields
  <2>6. PageFine(u, x)
    <3>1. Place("Layout") = 1 /\ "Layout" \in AllParts
      BY DEF Place, AllParts
    <3>2. \A n \in AllParts : ~(Place(n) < 1)
      BY NoneBefore
    <3>3. PageTyped(x)
      BY <2>2, <2>4, <2>5, <3>1 DEF PageFine, PageTyped
    <3>4. (~x.disturbed => x.data # "empty") /\ x.outcome = "none"
      BY <2>1, <2>2, <2>5 DEF PageFine
    <3>5. ~(Place(x.at) > 5)
      BY <2>4, <3>1
    <3> QED
      BY <2>3, <2>4, <2>5, <3>1, <3>2, <3>3, <3>4, <3>5 DEF PageFine
  <2> QED
    BY <2>1, <2>6, PageMoves
<1> QED
  BY <1>1, <1>2

LEMMA ReadLayoutKeeps ==
  ASSUME PageInv, NEW u \in Reader, Page!ReadLayout(u) PROVE PageInv'
<1> DEFINE p == pagePage[u]
<1>1. PageFine(u, p) /\ IsPage(p) /\ p.at = "Layout" /\ "Layout" \in AllParts /\ "Layout" # SharedPart
  BY DEF PageInv, PageFine, PageTyped, Page!ReadLayout, AllParts, SharedPart
<1>2. CASE Page!End(u, "no layout")
  BY <1>2, EndKeeps
<1>3. CASE Page!Fails(u, "Layout", p)
  BY <1>1, <1>3, PartDone DEF Page!Fails
<1>4. ASSUME NEW slow \in BOOLEAN, NEW lost \in SUBSET {"Field level permissions"},
             LET q == [p EXCEPT !.data = IF Page!Visible(u) THEN "row" ELSE "empty", !.errors = @ \cup lost]
             IN  IF slow THEN Page!Fails(u, "Layout", q) ELSE Page!Fetched(u, "Layout", q)
      PROVE  PageInv'
  <2> DEFINE d == IF Page!Visible(u) THEN "row" ELSE "empty"
             q == [p EXCEPT !.data = d, !.errors = @ \cup lost]
  <2>1. IF slow THEN Page!Fails(u, "Layout", q) ELSE Page!Fetched(u, "Layout", q)
    BY <1>4
  <2>2. d \in {"row", "empty"} /\ (Page!Visible(u) => d = "row")
    OBVIOUS
  <2> HIDE DEF p, d
  <2>3. IsPage(q) /\ q.data = d /\ q.errors = p.errors \cup lost /\ \A f \in PageFields \ {"data", "errors"} : q[f] = p[f]
    BY <1>1 DEF IsPage, PageFields
  <2> HIDE DEF q
  <2>4. /\ q.at = p.at /\ q.seen = p.seen /\ q.there = p.there /\ q.outcome = p.outcome /\ q.disturbed = p.disturbed
        /\ q.offers = p.offers
    BY <2>3 DEF PageFields
  <2>5. p.errors \subseteq q.errors /\ q.errors \subseteq Page!Named
    BY <1>1, <2>3, PartFacts DEF PageFine, PageTyped
  <2>6. PageFine(u, q)
    BY <1>1, <2>2, <2>3, <2>4, <2>5, PageLearns
  <2> QED
    BY <1>1, <2>1, <2>4, <2>6, PartDone DEF Page!Fails
<1> QED
  <2> HIDE DEF p
  <2>1. \/ Page!End(u, "no layout") \/ Page!Fails(u, "Layout", p)
        \/ \E slow \in BOOLEAN, lost \in SUBSET {"Field level permissions"} :
             LET q == [p EXCEPT !.data = IF Page!Visible(u) THEN "row" ELSE "empty", !.errors = @ \cup lost]
             IN  IF slow THEN Page!Fails(u, "Layout", q) ELSE Page!Fetched(u, "Layout", q)
    BY Zenon DEF Page!ReadLayout, p
  <2> QED
    BY <1>2, <1>3, <1>4, <2>1

LEMMA FetchPartKeeps ==
  ASSUME PageInv, NEW u \in Reader, NEW part, Page!FetchPart(u, part) PROVE PageInv'
<1>1. part \in AllParts /\ part # SharedPart
  BY PartFacts DEF Page!FetchPart, Page!Plain, SharedPart
<1> QED
  BY <1>1, PartDone DEF Page!FetchPart, Page!Fails, PageInv

LEMMA ReadPermissionsKeeps ==
  ASSUME PageInv, NEW u \in Reader, Page!ReadPermissions(u) PROVE PageInv'
<1> DEFINE p == pagePage[u]
           q == [p EXCEPT !.offers = rights[u]]
<1>1. PageFine(u, p) /\ IsPage(p) /\ p.at = "Permission" /\ "Permission" \in AllParts /\ "Permission" # SharedPart
  BY DEF PageInv, PageFine, PageTyped, Page!ReadPermissions, AllParts, SharedPart
<1>2. CASE Page!Fails(u, "Permission", p)
  BY <1>1, <1>2, PartDone DEF Page!Fails
<1>3. CASE Page!Fetched(u, "Permission", q)
  <2>1. rights[u] \in {Unset, NoRow} \cup OfferSets
    BY DeskAssumption DEF PageInv, Page!PreviewAssumption, OfferSets
  <2>2. Place("Permission") = 4
    BY DEF Place
  <2> HIDE DEF p
  <2>3. IsPage(q) /\ q.offers = rights[u] /\ \A f \in PageFields \ {"offers"} : q[f] = p[f]
    BY <1>1 DEF IsPage, PageFields
  <2> HIDE DEF q
  <2>4. /\ q.at = p.at /\ q.seen = p.seen /\ q.there = p.there /\ q.outcome = p.outcome /\ q.disturbed = p.disturbed
        /\ q.errors = p.errors /\ q.data = p.data
    BY <2>3 DEF PageFields
  <2>5. p.errors \subseteq q.errors /\ q.errors \subseteq Page!Named
    BY <1>1, <2>4 DEF PageFine, PageTyped
  <2>6. PageFine(u, q)
    BY <1>1, <2>1, <2>2, <2>3, <2>4, <2>5, PageLearns
  <2> QED
    BY <1>1, <1>3, <2>4, <2>6, PartDone
<1> QED
  BY <1>2, <1>3, Zenon DEF Page!ReadPermissions

LEMMA AdjustOffersKeeps ==
  ASSUME PageInv, NEW u \in Reader, Page!AdjustOffers(u) PROVE PageInv'
<1> DEFINE p == pagePage[u]
           adj == Page!Adjusted(u)
           q == [p EXCEPT !.offers = adj]
<1>1. PageFine(u, p) /\ IsPage(p) /\ p.at = SharedPart /\ SharedPart \in AllParts /\ Place(SharedPart) = 5
  BY PartFacts DEF PageInv, PageFine, PageTyped, Page!AdjustOffers, SharedPart
<1>2. CASE Page!MustFail(u, SharedPart, p)
  BY <1>1, <1>2, PartDone
<1>3. CASE share[u] = {} /\ Page!Fetched(u, SharedPart, p)
  <2>1. ~p.disturbed => Trusted(u)
    BY <1>1, <1>3 DEF PageFine
  <2> QED
    BY <1>1, <1>3, <2>1, PartDone
<1>4. CASE p.offers # Unset /\ Page!Fetched(u, SharedPart, q)
  <2>1. p.offers = NoRow \/ p.offers \in OfferSets
    BY <1>1, <1>4 DEF PageFine, PageTyped
  <2>2. adj \in OfferSets /\ "delete" \notin adj /\ ("edit" \in adj => "write" \in share[u])
    <3>1. CASE p.offers = NoRow
      BY <3>1 DEF Page!Adjusted, OfferSets
    <3>2. CASE p.offers # NoRow
      <4>1. adj = p.offers \ ({"delete"} \cup (IF "write" \in share[u] THEN {} ELSE {"edit"}))
        BY <3>2 DEF Page!Adjusted
      <4> HIDE DEF adj
      <4> QED
        BY <2>1, <3>2, <4>1 DEF OfferSets
    <3> QED
      BY <3>1, <3>2
  <2> HIDE DEF p, adj
  <2>3. IsPage(q) /\ q.offers = adj /\ \A f \in PageFields \ {"offers"} : q[f] = p[f]
    BY <1>1 DEF IsPage, PageFields
  <2> HIDE DEF q
  <2>4. /\ q.at = p.at /\ q.seen = p.seen /\ q.there = p.there /\ q.outcome = p.outcome /\ q.disturbed = p.disturbed
        /\ q.errors = p.errors /\ q.data = p.data
    BY <2>3 DEF PageFields
  <2>5. p.errors \subseteq q.errors /\ q.errors \subseteq Page!Named
    BY <1>1, <2>4 DEF PageFine, PageTyped
  <2>6. PageFine(u, q)
    BY <1>1, <2>2, <2>3, <2>4, <2>5, PageLearns
  <2>7. Follows(u, q.offers)
    BY <2>2, <2>3 DEF Follows
  <2> QED
    BY <1>1, <1>4, <2>4, <2>6, <2>7, PartDone
<1> QED
  BY <1>2, <1>3, <1>4, Zenon DEF Page!AdjustOffers, Page!Fails, SharedPart

LEMMA ReadTelephonyKeeps ==
  ASSUME PageInv, NEW u \in Reader, Page!ReadTelephony(u) PROVE PageInv'
<1> DEFINE p == pagePage[u]
<1>1. /\ PageFine(u, p) /\ IsPage(p) /\ p.at = "Telephony config" /\ "Telephony config" \in AllParts
      /\ "Telephony config" # SharedPart
  BY DEF PageInv, PageFine, PageTyped, Page!ReadTelephony, AllParts, SharedPart
<1>2. CASE Page!Fails(u, "Telephony config", p)
  BY <1>1, <1>2, PartDone DEF Page!Fails
<1>3. ASSUME NEW calls, LET q == [p EXCEPT !.calls = calls]
                        IN  Page!Fails(u, "Telephony config", q) \/ Page!Fetched(u, "Telephony config", q)
      PROVE  PageInv'
  <2> DEFINE q == [p EXCEPT !.calls = calls]
  <2>1. Page!Fails(u, "Telephony config", q) \/ Page!Fetched(u, "Telephony config", q)
    BY <1>3
  <2> HIDE DEF p
  <2>3. IsPage(q) /\ \A f \in PageFields \ {"calls"} : q[f] = p[f]
    BY <1>1 DEF IsPage, PageFields
  <2> HIDE DEF q
  <2>4. /\ q.at = p.at /\ q.seen = p.seen /\ q.there = p.there /\ q.outcome = p.outcome /\ q.disturbed = p.disturbed
        /\ q.errors = p.errors /\ q.data = p.data /\ q.offers = p.offers
    BY <2>3 DEF PageFields
  <2>5. p.errors \subseteq q.errors /\ q.errors \subseteq Page!Named
    BY <1>1, <2>4 DEF PageFine, PageTyped
  <2>6. PageFine(u, q)
    BY <1>1, <2>3, <2>4, <2>5, PageLearns
  <2> QED
    BY <1>1, <2>1, <2>4, <2>6, PartDone DEF Page!Fails
<1> QED
  BY <1>2, <1>3, Zenon DEF Page!ReadTelephony

LEMMA BuildKeeps ==
  ASSUME PageInv, NEW u \in Reader, Page!Build(u) PROVE PageInv'
<1> DEFINE p == pagePage[u]
<1>1. CASE p.data = "list" \/ Unset = p.offers \/ Unset = p.calls
  BY <1>1, EndKeeps DEF Page!Build
<1>2. CASE ~(p.data = "list" \/ Unset = p.offers \/ Unset = p.calls)
  <2>0. PICK done \in SUBSET Page!Computed :
          Page!To(u, "closed", [p EXCEPT !.there = @ \cup done, !.outcome = "page"])
    BY <1>2 DEF Page!Build
  <2> DEFINE q == [p EXCEPT !.there = @ \cup done, !.outcome = "page"]
             x == [q EXCEPT !.at = "closed"]
  <2>1. /\ pagePage' = [pagePage EXCEPT ![u] = x] /\ UNCHANGED <<record, rights, level, share, changes>>
        /\ p.at = "build"
    BY <2>0 DEF Page!Build, Page!To
  <2>2. PageFine(u, p) /\ IsPage(p)
    BY DEF PageInv, PageFine, PageTyped
  <2> HIDE DEF p
  <2>3. IsPage(q) /\ q.outcome = "page" /\ q.there = p.there \cup done
        /\ \A f \in PageFields \ {"outcome", "there"} : q[f] = p[f]
    BY <2>2 DEF IsPage, PageFields
  <2> HIDE DEF q
  <2>4. IsPage(x) /\ x.at = "closed" /\ \A f \in PageFields \ {"at"} : x[f] = q[f]
    BY <2>3 DEF IsPage, PageFields
  <2> HIDE DEF x
  <2>5. /\ x.data = p.data /\ x.there = p.there \cup done /\ x.errors = p.errors /\ x.offers = p.offers /\ x.disturbed = p.disturbed
        /\ x.outcome = "page"
    BY <2>3, <2>4 DEF PageFields
  <2>6. PageFine(u, x)
    <3>1. \A n \in AllParts : n \in x.there \cup x.errors
      <4>1. Place("build") = 11
        BY PartFacts
      <4>2. \A n \in AllParts : Place(n) < 11
        BY PlacesEnd
      <4> QED
        BY <2>1, <2>2, <2>5, <4>1, <4>2 DEF PageFine
    <3>2. PageTyped(x)
      BY <2>2, <2>4, <2>5 DEF PageFine, PageTyped
    <3>3. ASSUME ~x.disturbed
          PROVE  /\ x.data # "empty" /\ (Trusted(u) \/ share[u] # {})
                 /\ Trusted(u) \/ SharedPart \in x.errors \/ Follows(u, x.offers)
      <4>1. Place(p.at) > 0 /\ Place(p.at) > 5
        BY <2>1, BuildIsLast
      <4> QED
        BY <2>2, <2>5, <3>3, <4>1 DEF PageFine
    <3> QED
      BY <1>2, <2>4, <2>5, <3>1, <3>2, <3>3 DEF PageFine, p
  <2> QED
    BY <2>1, <2>6, PageMoves
<1> QED
  BY <1>1, <1>2

LEMMA ChangeKeeps ==
  ASSUME PageInv, Page!Change PROVE PageInv'
<1>1. /\ record' \in [state : {"live", "bin", "gone"}, owner : PageUser, assignee : PageUser]
      /\ rights' \in [Reader -> Rights] /\ level' \in Page!Level /\ share' \in [Reader -> Page!Mask]
  <2>1. CASE \E s \in {"bin", "gone"} : record' = [record EXCEPT !.state = s] /\ UNCHANGED <<rights, share>>
    BY <2>1 DEF PageInv, Page!Change
  <2>2. CASE \E u \in PageUser : record' = [record EXCEPT !.owner = u] /\ UNCHANGED <<rights, share>>
    BY <2>2 DEF PageInv, Page!Change
  <2>3. CASE \E u \in Reader, m \in Page!Mask : share' = [share EXCEPT ![u] = m] /\ UNCHANGED <<record, rights>>
    BY <2>3 DEF PageInv, Page!Change
  <2>4. CASE \E u \in Reader, r \in Rights : rights' = [rights EXCEPT ![u] = r] /\ UNCHANGED <<record, share>>
    BY <2>4 DEF PageInv, Page!Change
  <2> QED
    BY <2>1, <2>2, <2>3, <2>4 DEF Page!Change
<1>2. changes' \in 0..MaxChanges
  BY DeskAssumption DEF PageInv, Page!Change, Page!PreviewAssumption
<1>3. pagePage' = [u \in Reader |-> [pagePage[u] EXCEPT !.disturbed = TRUE]]
  BY DEF Page!Change
<1>4. ASSUME NEW u \in Reader PROVE PageFine(u, pagePage[u])'
  <2> DEFINE p == pagePage[u]
             x == [p EXCEPT !.disturbed = TRUE]
  <2>1. pagePage'[u] = x
    BY <1>3
  <2>2. PageFine(u, p) /\ IsPage(p)
    BY DEF PageInv, PageFine, PageTyped
  <2> HIDE DEF p
  <2>3. IsPage(x) /\ x.disturbed = TRUE /\ \A f \in PageFields \ {"disturbed"} : x[f] = p[f]
    BY <2>2 DEF IsPage, PageFields
  <2> HIDE DEF x
  <2>4. /\ x.at = p.at /\ x.data = p.data /\ x.there = p.there /\ x.errors = p.errors /\ x.offers = p.offers
        /\ x.outcome = p.outcome
    BY <2>3 DEF PageFields
  <2>5. PageTyped(x)
    BY <2>2, <2>3, <2>4 DEF PageFine, PageTyped
  <2> QED
    BY <2>1, <2>2, <2>3, <2>4, <2>5 DEF PageFine
<1> QED
  BY <1>1, <1>2, <1>3, <1>4 DEF PageInv

LEMMA PageKept == ASSUME PageInv, [Page!Next]_pageVars PROVE PageInv'
<1>1. CASE UNCHANGED pageVars
  BY <1>1 DEF pageVars, PageInv, PageFine, Trusted, Follows, Page!Visible, Page!MayRead
<1> QED
  BY <1>1, ChangeKeeps, OpenKeeps, ReadRecordKeeps, CheckAccessKeeps, ReadLayoutKeeps, ReadPermissionsKeeps,
     AdjustOffersKeeps, ReadTelephonyKeeps, BuildKeeps, FetchPartKeeps DEF Page!Next

LEMMA PagesAre == ASSUME PageInv PROVE Page!TypeOK /\ Page!OffersFollowShares /\ Page!PageTellsWhatIsMissing
<1>1. Page!TypeOK
  <2>1. AllParts \subseteq Page!Named
    BY PartFacts
  <2> QED
    BY <2>1 DEF Page!TypeOK, PageInv, PageFine, PageTyped, OfferSets
<1>2. Page!OffersFollowShares
  BY DEF Page!OffersFollowShares, PageInv, PageFine, Trusted, Follows, Page!Shown, Page!Offered, SharedPart
<1>3. Page!PageTellsWhatIsMissing
  <2>1. Page!Named \ {"Field level permissions"} \subseteq AllParts
    BY PartFacts
  <2> QED
    BY <2>1 DEF Page!PageTellsWhatIsMissing, Page!Untold, PageInv, PageFine, PageTyped, Page!Shown
<1> QED
  BY <1>1, <1>2, <1>3

\* A page offers somebody who neither owns the record nor is assigned to it no deletion, and an edit
\* only with a share for writing, unless shares could not be read or changed while it was built;
\* and it names each of its parts that is missing, but for the roll-ups and formulas.
THEOREM PageTheorem == Spec => []PageHolds
<1> DEFINE Inv == service = "page" => PageInv
<1>1. Init => Inv
  BY OnePartAtFirst, PageAtFirst
<1>2. Inv /\ [Next]_vars => Inv'
  BY OnePart, PageKept
<1>3. Inv => PageHolds
  BY PagesAre DEF PageHolds
<1> HIDE DEF Inv
<1> QED
  BY <1>1, <1>2, <1>3, PTL DEF Spec


-----------------------------------------------------------------------------
\* Exports

Failed(o) == [object |-> o, what |-> "failed", rows |-> 0]

\* The audit batch has one entry for each of some objects, and tells of every sheet of theirs
\* that was cut short.
Accounts(S) ==
  /\ \A e \in audit : e.object \in S
  /\ \A o \in S : \E e \in audit : e.object = o
  /\ \A e, d \in audit : e.object = d.object => e = d
  /\ \A e \in audit : e.what = "exported" => e.object \in DOMAIN sheets /\ sheets[e.object].rows = e.rows
  /\ \A o \in S : o \in DOMAIN sheets /\ sheets[o].rows # Export!Available(o) => Failed(o) \in audit

\* What is known of a workbook of objects at each step.
WorkInv ==
  /\ exportPc = "start" => selected = {} /\ valid = {} /\ skipped = {} /\ exportCurrent = {}
                             /\ DOMAIN sheets = {} /\ audit = {}
  /\ exportPc = "validate" => selected = todo \cup valid \cup skipped
                                /\ todo \cap (valid \cup skipped) = {} /\ valid \cap skipped = {}
                                /\ exportCurrent = {} /\ DOMAIN sheets = {} /\ audit = {}
  /\ exportPc \in {"export", "save", "flush", "send"} => selected = valid \cup skipped /\ valid \cap skipped = {}
  /\ exportPc = "export" => todo \subseteq valid /\ exportCurrent \subseteq todo
                              /\ exportCurrent \subseteq DOMAIN sheets
                              /\ DOMAIN sheets \subseteq (valid \ todo) \cup exportCurrent
                              /\ Accounts(valid \ todo)
  /\ exportPc \in {"save", "flush", "send"} => DOMAIN sheets \subseteq valid /\ Accounts(valid)

ExportTyped ==
  /\ present \subseteq Sheet /\ selected \subseteq Sheet /\ todo \subseteq Sheet /\ valid \subseteq Sheet
  /\ skipped \subseteq Sheet /\ exportCurrent \subseteq Sheet /\ Cardinality(exportCurrent) <= 1
  /\ DOMAIN sheets \subseteq Sheet
  /\ \A o \in DOMAIN sheets : sheets[o].rows \in Nat /\ sheets[o].cols \in Export!Columns
  /\ audit \subseteq Export!Entry /\ trail \subseteq Export!Entry
  /\ report \in ReportKind \cup {None} /\ shown \subseteq SheetRow
  /\ exportPc \in {"start", "validate", "export", "save", "flush", "send", "done"}
  /\ file \in {"none", "held", "gone"}
  /\ exportAnswer \in {"none", "file", "refused", "failed"}
  /\ begun \in BOOLEAN

ExportInv ==
  /\ ExportTyped
  /\ exportPc \in {"start", "validate", "export"} => report = None
  /\ Export!ExportHonoursFilters
  /\ begun => exportPc = "send" \/ (exportPc = "done" /\ file = "gone")
  /\ report = None => WorkInv

LEMMA SheetsCounted == \A S : Export!Cardinality(S) = Cardinality(S)
BY DEF Export!Cardinality, Cardinality

LEMMA ExportKnown ==
  /\ \A o \in Sheet : Export!Available(o) \in Nat /\ Export!ExportFields(o) \in Export!Columns
  /\ ReportKind \subseteq Export!ReportRecord /\ None \notin ReportKind
  /\ STREAM_BATCH_SIZE \in Nat
<1>1. ReportKind \subseteq Export!ReportRecord /\ None \notin ReportKind
  BY DeskAssumption DEF Export!ExportAssumption
<1>2. STREAM_BATCH_SIZE \in Nat /\ MAX_ROWS_PER_OBJECT \in Nat
  BY DeskAssumption DEF Export!ExportAssumption
<1>3. \A o \in Sheet : About[o] \in Export!ObjectRecord
  BY DeskAssumption DEF Export!ExportAssumption
<1>4. ASSUME NEW o \in Sheet PROVE Export!Available(o) \in Nat
  <2>1. About[o].rows \in Nat /\ About[o].visible \in Nat
    BY <1>3 DEF Export!ObjectRecord
  <2> QED
    BY <1>2, <2>1 DEF Export!Available, Export!Least
<1>5. ASSUME NEW o \in Sheet PROVE Export!ExportFields(o) \in Export!Columns
  <2>1. About[o].setup \in BOOLEAN /\ About[o].computed \in BOOLEAN /\ About[o].permitted \in {"real", "other", "none"}
    BY <1>3 DEF Export!ObjectRecord
  <2> QED
    BY <2>1 DEF Export!ExportFields, Export!Columns
<1> QED
  BY <1>1, <1>2, <1>4, <1>5

LEMMA ExportAtFirst == ASSUME Export!Init PROVE ExportInv
<1>1. Cardinality({}) = 0
  BY FS_EmptySet
<1>2. DOMAIN sheets = {}
  BY DEF Export!Init
<1>3. ExportTyped
  <2>1. present \subseteq Sheet /\ report = None /\ shown = {} /\ audit = {} /\ trail = {} /\ begun = FALSE
        /\ exportPc = "start" /\ file = "none" /\ exportAnswer = "none"
    BY DEF Export!Init
  <2>2. selected = {} /\ todo = {} /\ valid = {} /\ skipped = {} /\ exportCurrent = {}
    BY DEF Export!Init
  <2>3. \A o \in DOMAIN sheets : sheets[o].rows \in Nat /\ sheets[o].cols \in Export!Columns
    BY <1>2
  <2>4. Cardinality(exportCurrent) <= 1
    BY <1>1, <2>2
  <2>5. DOMAIN sheets \subseteq Sheet
    BY <1>2
  <2> QED
    BY <2>1, <2>2, <2>3, <2>4, <2>5 DEF ExportTyped
<1>4. WorkInv
  BY <1>2 DEF Export!Init, WorkInv
<1> QED
  BY <1>3, <1>4 DEF Export!Init, ExportInv, Export!ExportHonoursFilters

\* The sheet of an object is added or filled, those of the others stay.
LEMMA SheetAdded ==
  ASSUME NEW o \in Sheet, NEW n \in Nat, DOMAIN sheets \subseteq Sheet, Export!AddSheet(o, n)
  PROVE  /\ DOMAIN sheets' = DOMAIN sheets \cup {o}
         /\ sheets'[o] = [rows |-> n, cols |-> Export!ExportFields(o)]
         /\ \A x \in DOMAIN sheets \ {o} : sheets'[x] = sheets[x]
BY DEF Export!AddSheet

LEMMA SelectKept == ASSUME ExportInv, NEW S \in SUBSET Sheet, Export!Select(S) PROVE ExportInv'
BY DEF ExportInv, WorkInv, ExportTyped, Export!ExportHonoursFilters, Export!Select

LEMMA ValidateKept == ASSUME ExportInv, NEW o \in Sheet, Export!Validate(o) PROVE ExportInv'
<1>1. todo' = todo \ {o} /\ o \in todo /\ exportPc = "validate" /\ exportPc' = exportPc
  BY DEF Export!Validate
<1>2. \/ valid' = valid \cup {o} /\ UNCHANGED skipped
      \/ skipped' = skipped \cup {o} /\ UNCHANGED valid
  BY DEF Export!Validate
<1>3. UNCHANGED <<present, selected, exportCurrent, sheets, audit, trail, report, shown, file, exportAnswer, begun>>
  BY DEF Export!Validate
<1>4. ExportTyped'
  BY <1>1, <1>2, <1>3 DEF ExportInv, ExportTyped
<1>5. (report = None => WorkInv)'
  BY <1>1, <1>2, <1>3 DEF ExportInv, WorkInv
<1> QED
  BY <1>1, <1>3, <1>4, <1>5 DEF ExportInv, Export!ExportHonoursFilters

LEMMA EndValidationKept == ASSUME ExportInv, Export!EndValidation PROVE ExportInv'
<1>1. exportPc = "validate" /\ todo = {}
      /\ UNCHANGED <<present, selected, valid, skipped, exportCurrent, sheets, audit, trail, report, shown, file, begun>>
  BY DEF Export!EndValidation
<1>2. \/ exportPc' = "done" /\ exportAnswer' = "refused" /\ UNCHANGED todo
      \/ exportPc' = "export" /\ todo' = valid /\ UNCHANGED exportAnswer
  BY DEF Export!EndValidation
<1>3. ExportTyped'
  BY <1>1, <1>2 DEF ExportInv, ExportTyped
<1>4. (report = None => WorkInv)'
  BY <1>1, <1>2 DEF ExportInv, WorkInv, Accounts
<1> QED
  BY <1>1, <1>2, <1>3, <1>4 DEF ExportInv, Export!ExportHonoursFilters

LEMMA OpenSheetKept == ASSUME ExportInv, NEW o \in Sheet, Export!OpenSheet(o) PROVE ExportInv'
<1>1. exportPc = "export" /\ exportCurrent = {} /\ o \in todo /\ exportCurrent' = {o}
      /\ UNCHANGED <<present, selected, todo, valid, skipped, audit, trail, report, shown, exportPc, file, exportAnswer, begun>>
  BY DEF Export!OpenSheet
<1>2. PICK n \in Nat : Export!AddSheet(o, n)
  BY ExportKnown DEF Export!OpenSheet
<1>3. /\ DOMAIN sheets' = DOMAIN sheets \cup {o}
      /\ sheets'[o] = [rows |-> n, cols |-> Export!ExportFields(o)]
      /\ \A x \in DOMAIN sheets \ {o} : sheets'[x] = sheets[x]
  BY <1>2, SheetAdded DEF ExportInv, ExportTyped
<1>4. ExportTyped'
  <2>1. Cardinality({o}) = 1
    BY FS_Singleton
  <2>2. \A x \in DOMAIN sheets' : sheets'[x].rows \in Nat /\ sheets'[x].cols \in Export!Columns
    BY <1>3, ExportKnown DEF ExportInv, ExportTyped
  <2> QED
    BY <1>1, <1>3, <2>1, <2>2 DEF ExportInv, ExportTyped
<1>5. ASSUME report = None PROVE WorkInv'
  <2>1. WorkInv /\ o \notin valid \ todo /\ o \notin DOMAIN sheets
    BY <1>1, <1>5 DEF ExportInv, WorkInv
  <2>2. \A x \in valid \ todo : (x \in DOMAIN sheets' <=> x \in DOMAIN sheets) /\ (x \in DOMAIN sheets => sheets'[x] = sheets[x])
    BY <1>3, <2>1
  <2>3. Accounts(valid \ todo)
    BY <1>1, <2>1 DEF WorkInv
  <2>4. \A e \in audit : e.object \in valid \ todo
    BY <2>3 DEF Accounts
  <2>5. Accounts(valid \ todo)'
    BY <1>1, <2>2, <2>3, <2>4 DEF Accounts, Export!Available, Export!Streams, Export!Least
  <2> QED
    BY <1>1, <1>3, <2>1, <2>5 DEF WorkInv
<1> QED
  BY <1>1, <1>4, <1>5 DEF ExportInv, Export!ExportHonoursFilters

LEMMA WriteBatchKept == ASSUME ExportInv, NEW o \in Sheet, Export!WriteBatch(o) PROVE ExportInv'
<1>1. exportPc = "export" /\ exportCurrent = {o}
      /\ UNCHANGED <<present, selected, todo, valid, skipped, exportCurrent, audit, trail, report, shown, exportPc, file,
                     exportAnswer, begun>>
  BY DEF Export!WriteBatch
<1>2. PICK n \in Nat \cup {sheets[o].rows + STREAM_BATCH_SIZE} : Export!AddSheet(o, n)
  BY ExportKnown DEF Export!WriteBatch, Export!Least
<1>3. report = None /\ WorkInv /\ o \in DOMAIN sheets /\ o \in todo
  BY <1>1 DEF ExportInv, WorkInv
<1>4. sheets[o].rows + STREAM_BATCH_SIZE \in Nat
  BY <1>3, ExportKnown DEF ExportInv, ExportTyped
<1>5. /\ DOMAIN sheets' = DOMAIN sheets \cup {o}
      /\ sheets'[o] = [rows |-> n, cols |-> Export!ExportFields(o)]
      /\ \A x \in DOMAIN sheets \ {o} : sheets'[x] = sheets[x]
  BY <1>2, <1>4, SheetAdded DEF ExportInv, ExportTyped
<1>6. ExportTyped'
  <2>1. \A x \in DOMAIN sheets' : sheets'[x].rows \in Nat /\ sheets'[x].cols \in Export!Columns
    BY <1>4, <1>5, ExportKnown DEF ExportInv, ExportTyped
  <2> QED
    BY <1>1, <1>5, <2>1 DEF ExportInv, ExportTyped
<1>7. Accounts(valid \ todo)'
  <2>1. o \notin valid \ todo /\ Accounts(valid \ todo)
    BY <1>1, <1>3 DEF WorkInv
  <2>2. \A x \in valid \ todo : (x \in DOMAIN sheets' <=> x \in DOMAIN sheets) /\ (x \in DOMAIN sheets => sheets'[x] = sheets[x])
    BY <1>5, <2>1
  <2>3. \A e \in audit : e.object \in valid \ todo
    BY <2>1 DEF Accounts
  <2> QED
    BY <1>1, <2>1, <2>2, <2>3 DEF Accounts, Export!Available, Export!Streams, Export!Least
<1>8. WorkInv'
  BY <1>1, <1>3, <1>5, <1>7 DEF WorkInv
<1> QED
  BY <1>1, <1>6, <1>8 DEF ExportInv, Export!ExportHonoursFilters

\* An entry is added for an object that had none.
LEMMA Accounted ==
  ASSUME ExportInv, WorkInv, exportPc = "export", NEW o \in todo, NEW e \in Export!Entry, e.object = o,
         todo' = todo \ {o}, audit' = audit \cup {e}, UNCHANGED <<valid, sheets>>,
         e.what = "exported" => o \in DOMAIN sheets /\ sheets[o].rows = e.rows,
         o \in DOMAIN sheets /\ sheets[o].rows # Export!Available(o) => e = Failed(o)
  PROVE  Accounts(valid \ todo)'
<1> DEFINE S == valid \ todo
           T == S \cup {o}
<1>1. valid' \ todo' = T /\ o \notin S
  BY DEF WorkInv
<1>2. Accounts(S)
  BY DEF WorkInv
<1> HIDE DEF S
<1>3. /\ \A x \in audit' : x.object \in T
      /\ \A x \in T : \E d \in audit' : d.object = x
  BY <1>2 DEF Accounts
<1>4. \A x, d \in audit' : x.object = d.object => x = d
  BY <1>1, <1>2 DEF Accounts
<1>5. \A x \in audit' : x.what = "exported" => x.object \in DOMAIN sheets' /\ sheets'[x.object].rows = x.rows
  BY <1>2 DEF Accounts
<1>6. \A x \in T : x \in DOMAIN sheets' /\ sheets'[x].rows # Export!Available(x) => Failed(x) \in audit'
  BY <1>2 DEF Accounts
<1> QED
  BY <1>1, <1>3, <1>4, <1>5, <1>6 DEF Accounts, Failed, Export!Available, Export!Streams, Export!Least

LEMMA CloseSheetKept == ASSUME ExportInv, NEW o \in Sheet, Export!CloseSheet(o) PROVE ExportInv'
<1> DEFINE e == [object |-> o, what |-> "exported", rows |-> sheets[o].rows]
<1>1. exportPc = "export" /\ exportCurrent = {o} /\ exportCurrent' = {} /\ todo' = todo \ {o} /\ audit' = audit \cup {e}
      /\ sheets[o].rows = Export!Available(o)
      /\ UNCHANGED <<present, selected, valid, skipped, sheets, trail, report, shown, exportPc, file, exportAnswer, begun>>
  BY DEF Export!CloseSheet
<1>2. report = None /\ WorkInv /\ o \in DOMAIN sheets /\ o \in todo
  BY <1>1 DEF ExportInv, WorkInv
<1>3. e \in Export!Entry /\ e.object = o /\ e.rows = sheets[o].rows
  BY <1>2 DEF ExportInv, ExportTyped, Export!Entry
<1> HIDE DEF e
<1>4. ExportTyped'
  <2>1. Cardinality({}) = 0
    BY FS_EmptySet
  <2> QED
    BY <1>1, <1>3, <2>1 DEF ExportInv, ExportTyped
<1>5. Accounts(valid \ todo)'
  BY <1>1, <1>2, <1>3, Accounted
<1>6. WorkInv'
  BY <1>1, <1>2, <1>5 DEF WorkInv
<1> QED
  BY <1>1, <1>4, <1>6 DEF ExportInv, Export!ExportHonoursFilters

LEMMA FailObjectKept == ASSUME ExportInv, NEW o \in Sheet, Export!FailObject(o) PROVE ExportInv'
<1>1. exportPc = "export" /\ exportCurrent \in {{}, {o}} /\ exportCurrent' = {} /\ o \in todo /\ todo' = todo \ {o}
      /\ audit' = audit \cup {Failed(o)}
      /\ UNCHANGED <<present, selected, valid, skipped, sheets, trail, report, shown, exportPc, file, exportAnswer, begun>>
  BY DEF Export!FailObject, Failed
<1>2. report = None /\ WorkInv
  BY <1>1 DEF ExportInv
<1>3. Failed(o) \in Export!Entry /\ Failed(o).object = o /\ Failed(o).what # "exported"
  BY DEF Failed, Export!Entry
<1>4. ExportTyped'
  <2>1. Cardinality({}) = 0
    BY FS_EmptySet
  <2> QED
    BY <1>1, <1>3, <2>1 DEF ExportInv, ExportTyped
<1>5. Accounts(valid \ todo)'
  BY <1>1, <1>2, <1>3, Accounted
<1>6. WorkInv'
  BY <1>1, <1>2, <1>5 DEF WorkInv
<1> QED
  BY <1>1, <1>4, <1>6 DEF ExportInv, Export!ExportHonoursFilters

LEMMA EndExportKept == ASSUME ExportInv, Export!EndExport PROVE ExportInv'
<1>1. exportPc = "export" /\ todo = {} /\ exportPc' = "save"
      /\ UNCHANGED <<present, selected, todo, valid, skipped, exportCurrent, sheets, audit, trail, report, shown, file,
                     exportAnswer, begun>>
  BY DEF Export!EndExport
<1>2. report = None /\ WorkInv
  BY <1>1 DEF ExportInv
<1>3. exportCurrent = {} /\ valid \ todo = valid
  BY <1>1, <1>2 DEF WorkInv
<1>4. WorkInv'
  BY <1>1, <1>2, <1>3 DEF WorkInv, Accounts, Export!Available, Export!Streams, Export!Least
<1> QED
  BY <1>1, <1>4 DEF ExportInv, ExportTyped, Export!ExportHonoursFilters

LEMMA ExportReportKept == ASSUME ExportInv, NEW q \in ReportKind, Export!ExportReport(q) PROVE ExportInv'
<1>1. exportPc = "start" /\ exportPc' = "save" /\ report' = q
      /\ UNCHANGED <<present, selected, todo, valid, skipped, exportCurrent, sheets, audit, trail, file, exportAnswer, begun>>
  BY DEF Export!ExportReport
<1>2. PICK kept \in SUBSET SheetRow :
        /\ q.left = "carried" => kept = {r \in SheetRow : SheetAttr[r].left}
        /\ shown' = IF Export!FastPath(q) THEN SheetRow ELSE Export!ReportRows(q) \cap kept
  BY DEF Export!ExportReport
<1>3. q # None
  BY ExportKnown
<1>4. ASSUME NEW r \in shown'
      PROVE  /\ SheetAttr[r].passes \cap q.filters = q.filters
             /\ q.left = "carried" => SheetAttr[r].left
  <2>1. CASE Export!FastPath(q)
    BY <2>1 DEF Export!FastPath, Export!Unfiltered
  <2>2. CASE ~Export!FastPath(q)
    <3>1. r \in Export!ReportRows(q) /\ r \in kept
      BY <1>2, <1>4, <2>2
    <3>2. q.filters \subseteq SheetAttr[r].passes
      BY <3>1 DEF Export!ReportRows
    <3> QED
      BY <1>2, <3>1, <3>2
  <2> QED
    BY <2>1, <2>2
<1>5. shown' \subseteq SheetRow
  BY <1>2 DEF Export!ReportRows
<1>6. Export!ExportHonoursFilters'
  BY <1>1, <1>4 DEF Export!ExportHonoursFilters
<1> QED
  BY <1>1, <1>3, <1>5, <1>6 DEF ExportInv, ExportTyped

LEMMA FailReportKept == ASSUME ExportInv, Export!FailReport PROVE ExportInv'
<1>1. exportPc = "start" /\ exportPc' = "done" /\ exportAnswer' = "failed"
      /\ UNCHANGED <<present, selected, todo, valid, skipped, exportCurrent, sheets, audit, trail, report, shown, file, begun>>
  BY DEF Export!FailReport
<1>2. ExportTyped' /\ WorkInv'
  BY <1>1 DEF ExportInv, ExportTyped, WorkInv
<1> QED
  BY <1>1, <1>2 DEF ExportInv, Export!ExportHonoursFilters

\* The steps that leave the workbook and its audit batch alone.
LEMMA FileStepsKept ==
  ASSUME ExportInv,
         \/ Export!FlushAudit \/ Export!Save \/ Export!Send \/ Export!Read \/ Export!Close
         \/ \E o \in Sheet : Export!DropTable(o)
  PROVE  ExportInv'
<1>1. UNCHANGED <<selected, todo, valid, skipped, exportCurrent, sheets, audit, report, shown>>
  BY DEF Export!FlushAudit, Export!Save, Export!Send, Export!Read, Export!Close, Export!DropTable
<1>2. \/ exportPc' = exportPc
      \/ exportPc = "save" /\ exportPc' \in {"flush", "done"}
      \/ exportPc = "flush" /\ exportPc' = "send"
      \/ exportPc = "send" /\ exportPc' = "done"
  BY DEF Export!FlushAudit, Export!Save, Export!Send, Export!Read, Export!Close, Export!DropTable
<1>3. present' \subseteq Sheet /\ trail' \subseteq Export!Entry /\ begun' \in BOOLEAN
      /\ file' \in {"none", "held", "gone"} /\ exportAnswer' \in {"none", "file", "refused", "failed"}
  <2>1. CASE Export!FlushAudit
    BY <2>1 DEF ExportInv, ExportTyped, Export!FlushAudit
  <2>2. CASE Export!Save \/ Export!Send
    BY <2>2 DEF ExportInv, ExportTyped, Export!Save, Export!Send
  <2>3. CASE Export!Read \/ Export!Close
    BY <2>3 DEF ExportInv, ExportTyped, Export!Read, Export!Close
  <2>4. CASE \E o \in Sheet : Export!DropTable(o)
    BY <2>4 DEF ExportInv, ExportTyped, Export!DropTable
  <2> QED
    BY <2>1, <2>2, <2>3, <2>4
<1>4. ExportTyped'
  BY <1>1, <1>2, <1>3 DEF ExportInv, ExportTyped
<1>5. begun' => exportPc' = "send" \/ (exportPc' = "done" /\ file' = "gone")
  <2>1. CASE Export!FlushAudit \/ Export!Save
    BY <2>1 DEF ExportInv, ExportTyped, Export!FlushAudit, Export!Save
  <2>2. CASE Export!Send \/ Export!Read \/ Export!Close
    BY <2>2 DEF ExportInv, ExportTyped, Export!Send, Export!Read, Export!Close
  <2>3. CASE \E o \in Sheet : Export!DropTable(o)
    BY <2>3 DEF ExportInv, ExportTyped, Export!DropTable
  <2> QED
    BY <2>1, <2>2, <2>3
<1>6. ASSUME report = None PROVE WorkInv'
  <2>1. WorkInv
    BY <1>6 DEF ExportInv
  <2> QED
    BY <1>1, <1>2, <2>1 DEF WorkInv, Accounts, Export!Available, Export!Streams, Export!Least
<1> QED
  BY <1>1, <1>2, <1>4, <1>5, <1>6 DEF ExportInv, Export!ExportHonoursFilters

LEMMA ExportKept == ASSUME ExportInv, [Export!Next]_exportVars PROVE ExportInv'
<1>1. CASE UNCHANGED exportVars
  BY <1>1 DEF exportVars, ExportInv, ExportTyped, WorkInv, Accounts, Export!Available, Export!Streams, Export!Least,
              Export!ExportHonoursFilters
<1> QED
  BY <1>1, SelectKept, ValidateKept, EndValidationKept, OpenSheetKept, WriteBatchKept, CloseSheetKept, FailObjectKept,
     EndExportKept, ExportReportKept, FailReportKept, FileStepsKept DEF Export!Next

LEMMA ExportsAre ==
  ASSUME ExportInv
  PROVE  Export!TypeOK /\ Export!WorkbookIsAccounted /\ Export!ExportHonoursFilters /\ Export!BegunFilesGo
<1>1. Export!TypeOK
  <2>1. {present, selected, todo, valid, skipped, exportCurrent} \subseteq SUBSET Sheet
    BY DEF ExportInv, ExportTyped
  <2> QED
    BY <2>1, SheetsCounted DEF ExportInv, ExportTyped, Export!TypeOK
<1>2. ASSUME exportPc \in {"flush", "send"}, report = None PROVE Export!WorkbookIsAccounted
  <2>1. selected = valid \cup skipped /\ valid \cap skipped = {} /\ DOMAIN sheets \subseteq valid /\ Accounts(valid)
    BY <1>2 DEF ExportInv, WorkInv
  <2>2. selected \ skipped = valid
    BY <2>1
  <2>3. {e.object : e \in audit} = valid
    BY <2>1 DEF Accounts
  <2>4. ASSUME NEW o \in valid PROVE Cardinality({e \in audit : e.object = o}) = 1
    <3>1. PICK d \in audit : d.object = o
      BY <2>1 DEF Accounts
    <3>2. {e \in audit : e.object = o} = {d}
      BY <2>1, <3>1 DEF Accounts
    <3> QED
      BY <3>2, FS_Singleton
  <2>5. \A o \in DOMAIN sheets : sheets[o].rows # Export!Available(o) => Failed(o) \in audit
    BY <2>1 DEF Accounts
  <2>6. \A e \in audit : e.what = "exported" => sheets[e.object].rows = e.rows
    BY <2>1 DEF Accounts
  <2>7. selected = skipped \cup {e.object : e \in audit}
    BY <2>1, <2>3
  <2>8. \A o \in selected \ skipped : Cardinality({e \in audit : e.object = o}) = 1
    BY <2>2, <2>4
  <2>9. \A o \in DOMAIN sheets : sheets[o].rows # Export!Available(o) => [object |-> o, what |-> "failed", rows |-> 0] \in audit
    BY <2>5 DEF Failed
  <2> QED
    BY <2>6, <2>7, <2>8, <2>9, SheetsCounted DEF Export!WorkbookIsAccounted
<1>3. Export!BegunFilesGo
  BY DEF ExportInv, Export!BegunFilesGo
<1>4. Export!WorkbookIsAccounted
  BY <1>2 DEF Export!WorkbookIsAccounted
<1> QED
  BY <1>1, <1>3, <1>4 DEF ExportInv

\* The audit trail accounts for each selected object of a workbook, as failed if its sheet is cut
\* short; the rows of an exported report pass its filters, as a logic without NOT joins them; and no
\* file is left behind by a client that began to read it.
THEOREM ExportsTheorem == Spec => []ExportsHold
<1> DEFINE Inv == service = "export" => ExportInv
<1>1. Init => Inv
  BY OnePartAtFirst, ExportAtFirst
<1>2. Inv /\ [Next]_vars => Inv'
  BY OnePart, ExportKept
<1>3. Inv => ExportsHold
  BY ExportsAre DEF ExportsHold
<1> HIDE DEF Inv
<1> QED
  BY <1>1, <1>2, <1>3, PTL DEF Spec

-----------------------------------------------------------------------------
\* Reports: what is known of the constants and of a request

LEMMA RowsCounted ==
  /\ \A S : Answer!Cardinality(S) = Cardinality(S)
  /\ \A S : Answer!IsFiniteSet(S) <=> IsFiniteSet(S)
BY DEF Answer!Cardinality, Cardinality, Answer!IsFiniteSet, IsFiniteSet

LEMMA RowsKnown ==
  /\ IsFiniteSet(Row) /\ IsFiniteSet(Parent) /\ IsFiniteSet(Parent \cup {Null})
  /\ Null \notin Parent /\ Null \notin Nat /\ Null \notin Answer!Filter
  /\ \A r \in Row : Attr[r].parent \in Parent \cup {Null}
  /\ Label \in [Parent \cup {Null} -> Parent \cup {Null}] /\ Label[Null] = Null
  /\ \A S \in SUBSET Row : S # Null
  /\ \A S \in SUBSET Parent : S # Null
  /\ \A q \in Requests : q \in Answer!AnyRequest /\ (q.filter # Null => Answer!WellFormed(q.filter))
                           /\ (q.dlimit = Null => q.doffset = 0)
<1>1. IsFiniteSet(Row) /\ IsFiniteSet(Parent)
  BY DeskAssumption, RowsCounted DEF Answer!RollupAssumption
<1>2. IsFiniteSet(Parent \cup {Null})
  BY <1>1, FS_AddElement
<1>3. Null \notin Parent /\ Null \notin Nat
  BY DeskAssumption DEF Answer!RollupAssumption
<1>4. Null \notin Answer!Filter /\ (\A S \in SUBSET Row : S # Null) /\ (\A S \in SUBSET Parent : S # Null)
      /\ Label \in [Parent \cup {Null} -> Parent \cup {Null}] /\ Label[Null] = Null
  BY DeskAssumption DEF Answer!ReportAssumption
<1>5. \A q \in Requests : q \in Answer!AnyRequest /\ (q.filter # Null => Answer!WellFormed(q.filter))
                           /\ (q.dlimit = Null => q.doffset = 0)
  BY DeskAssumption DEF Answer!ReportAssumption
<1>6. \A r \in Row : Attr[r].parent \in Parent \cup {Null}
  BY DeskAssumption DEF Answer!RollupAssumption
<1> QED
  BY <1>1, <1>2, <1>3, <1>4, <1>5, <1>6

LEMMA CapsKnown ==
  /\ {REPORT_MAX_DETAIL_ROWS, REPORT_MAX_CHILDREN_PER_PARENT, COMPUTED_FILTER_FETCH_CAP,
      COMPUTED_AGG_REFETCH_CAP, PREVIEW_LIMIT} \subseteq Nat \ {0}
  /\ REPORT_MAX_DETAIL_ROWS \in Nat \ {0} /\ REPORT_MAX_CHILDREN_PER_PARENT \in Nat \ {0}
  /\ COMPUTED_FILTER_FETCH_CAP \in Nat \ {0} /\ COMPUTED_AGG_REFETCH_CAP \in Nat \ {0}
  /\ PREVIEW_LIMIT \in Nat /\ 1 < PREVIEW_LIMIT /\ PREVIEW_LIMIT <= REPORT_MAX_DETAIL_ROWS
  /\ MaxWrites \in Nat
BY DeskAssumption DEF Answer!ReportAssumption

LEMMA RequestKnown ==
  ASSUME req \in Requests
  PROVE  /\ req.kind \in {"saved", "preview"} /\ req.limit \in Nat \cup {Null} /\ req.dlimit \in Nat \cup {Null}
         /\ req.doffset \in Nat /\ req.group \in {"none", "key", "label", "date"}
         /\ req.filter \in Answer!Filter \cup {Null}
         /\ req.full \in BOOLEAN /\ req.skipSummary \in BOOLEAN /\ req.skipDetails \in BOOLEAN
         /\ req.skipCount \in BOOLEAN /\ req.fits \in BOOLEAN /\ req.limited \in BOOLEAN /\ req.direct \in BOOLEAN
         /\ req.dlimit = Null => req.doffset = 0
<1>1. req \in Answer!AnyRequest /\ (req.dlimit = Null => req.doffset = 0)
  BY RowsKnown
<1> QED
  BY <1>1 DEF Answer!AnyRequest, Answer!Limit

\* A page is the whole, if it is the first one and shorter than it may be.
LEMMA PageFacts ==
  ASSUME NEW S, IsFiniteSet(S), NEW n \in Nat \cup {Null}, NEW o \in Nat, NEW T \in Answer!Page(S, n, o)
  PROVE  /\ T \subseteq S /\ IsFiniteSet(T) /\ Cardinality(T) \in Nat /\ Cardinality(S) \in Nat
         /\ Cardinality(T) <= Cardinality(S)
         /\ n # Null => Cardinality(T) <= n
         /\ o = 0 /\ (n # Null => Cardinality(T) < n) => T = S
         /\ o = 0 /\ n # Null /\ Cardinality(T) # Cardinality(S) => Cardinality(T) = n
<1>1. Cardinality(S) \in Nat
  BY FS_CardinalityType
<1>2. T \subseteq S
  BY DEF Answer!Page
<1>3. IsFiniteSet(T) /\ Cardinality(T) <= Cardinality(S) /\ (Cardinality(T) = Cardinality(S) => T = S)
  BY <1>2, FS_Subset
<1>4. Cardinality(T) \in Nat
  BY <1>3, FS_CardinalityType
<1> DEFINE left == IF Cardinality(S) > o THEN Cardinality(S) - o ELSE 0
<1>5. Cardinality(T) = IF n # Null /\ n < left THEN n ELSE left
  BY RowsCounted DEF Answer!Page
<1>6. left \in Nat /\ (o = 0 => left = Cardinality(S))
  BY <1>1
<1> HIDE DEF left
<1> QED
  BY <1>1, <1>2, <1>3, <1>4, <1>5, <1>6, RowsKnown

\* The first rows of each parent are among them, and are all if none has more than that.
LEMMA CapFacts ==
  ASSUME NEW D \in SUBSET Row, NEW T \in Answer!CapPerParent(D)
  PROVE  /\ T \subseteq D
         /\ (\A k \in Answer!Key : Cardinality({r \in D : Answer!KeyOf(r) = k}) <= REPORT_MAX_CHILDREN_PER_PARENT)
              => T = D
<1>1. T \subseteq D
  BY DEF Answer!CapPerParent
<1>2. SUFFICES ASSUME NEW r \in D,
                      \A k \in Answer!Key : Cardinality({x \in D : Answer!KeyOf(x) = k}) <= REPORT_MAX_CHILDREN_PER_PARENT
               PROVE  r \in T
  BY <1>1
<1> DEFINE k == Answer!KeyOf(r)
           mine == {x \in D : Answer!KeyOf(x) = k}
<1>3. k \in Answer!Key
  BY RowsKnown DEF Answer!KeyOf, Answer!Key
<1>4. IsFiniteSet(mine) /\ Cardinality(mine) \in Nat
  BY RowsKnown, FS_Subset, FS_CardinalityType
<1>5. Cardinality(mine) <= REPORT_MAX_CHILDREN_PER_PARENT
  BY <1>2, <1>3
<1>6. Cardinality(T \cap mine) = Cardinality(mine)
  <2>1. Cardinality(T \cap mine) = IF Cardinality(mine) > REPORT_MAX_CHILDREN_PER_PARENT
                                    THEN REPORT_MAX_CHILDREN_PER_PARENT ELSE Cardinality(mine)
    BY <1>3, RowsCounted DEF Answer!CapPerParent
  <2> HIDE DEF mine
  <2> QED
    BY <2>1, <1>4, <1>5, CapsKnown
<1>7. T \cap mine = mine
  BY <1>4, <1>6, FS_Subset
<1> QED
  BY <1>7

-----------------------------------------------------------------------------
\* Reports: a computed filter

FilterFacts(f) ==
  /\ f.on \in {"own", "parent"} /\ f.kind \in {"formula", "rollup"} /\ f.type \in {"SUM", "COUNT", "MIN"}
  /\ f.op \in {"gt", "lt", "null"} /\ f.exact \in BOOLEAN /\ f.stored \in BOOLEAN /\ f.crit \in BOOLEAN
  /\ f.shown \in BOOLEAN

LEMMA FilterKnown == ASSUME NEW f \in Answer!Filter PROVE FilterFacts(f)
BY DEF Answer!Filter, FilterFacts

\* What a filter became in SQL is a set of rows or of parents.
LEMMA ConvertTyped ==
  ASSUME NEW f \in Answer!Filter, NEW S \in SUBSET Row
  PROVE  Answer!ConvertRollupFilter(f, S) \in {Null} \cup (SUBSET Row) \cup (SUBSET Parent)
<1> DEFINE direct == IF f.kind = "rollup" THEN Answer!MatchingByAggregation(f, S) ELSE Answer!MatchingByFormula(f)
           column == IF direct = Null THEN Answer!MatchingByColumn(f) ELSE direct
<1>1. direct \in {Null} \cup SUBSET Parent
  BY DEF Answer!MatchingByAggregation, Answer!MatchingByFormula, Answer!Inline
<1>2. Answer!MatchingByColumn(f) \in {Null} \cup SUBSET Parent
  BY DEF Answer!MatchingByColumn
<1>3. column \in {Null} \cup SUBSET Parent
  BY <1>1, <1>2
<1>4. Answer!MatchingInPython(f, S, column) \in {Null} \cup SUBSET Parent
  <2> HIDE DEF column
  <2> QED
    BY <1>3 DEF Answer!MatchingInPython
<1>5. Answer!ConvertDotted(f, S) \in {column, Answer!MatchingInPython(f, S, column)}
  BY DEF Answer!ConvertDotted
<1>6. Answer!ConvertBare(f, S) \in {Null} \cup SUBSET Row
  BY DEF Answer!ConvertBare, Answer!Inline
<1> QED
  BY <1>3, <1>4, <1>5, <1>6 DEF Answer!ConvertRollupFilter

\* A filter that agrees with the value shown.
Agrees(f) == ~f.crit /\ (f.exact \/ ~f.stored) /\ (f.op = "null" => f.kind = "rollup" /\ f.type = "COUNT")

LEMMA RollupShown ==
  ASSUME NEW f, NEW S, NEW p, ~f.crit
  PROVE  /\ Answer!Counted(f, p, S) = Answer!Children(p, S)
         /\ Answer!EvaluateRollup(f, p, S) =
              (IF Answer!SqlAggregate(f.type, Answer!Children(p, S)) = Null THEN 0
               ELSE Answer!SqlAggregate(f.type, Answer!Children(p, S)))
         /\ \A ps : p \in ps => Answer!EvaluateRollupBatch(f, ps, S)[p] = Answer!EvaluateRollup(f, p, S)
<1>1. Answer!Counted(f, p, S) = Answer!Children(p, S)
  BY DEF Answer!Counted, Answer!Children
<1> QED
  BY <1>1 DEF Answer!EvaluateRollup, Answer!EvaluateRollupBatch

\* What SQL selects, where the filter agrees: parents whose value, as it is shown, passes.
LEMMA AggregationRight ==
  ASSUME NEW f \in Answer!Filter, Agrees(f), f.kind = "rollup", NEW S \in SUBSET Row,
         NEW p \in Parent, Answer!MatchingByAggregation(f, S) # Null, p \in Answer!MatchingByAggregation(f, S)
  PROVE  Answer!Holds(f.op, Answer!EvaluateRollup(f, p, S))
<1> DEFINE v == Answer!SqlAggregate(f.type, Answer!Children(p, S))
<1>1. Answer!Holds(f.op, v)
  BY DEF Answer!MatchingByAggregation
<1>2. Answer!EvaluateRollup(f, p, S) = IF v = Null THEN 0 ELSE v
  BY RollupShown DEF Agrees
<1>3. f.type = "COUNT" => v # Null
  <2>1. Cardinality(Answer!Children(p, S)) \in Nat
    BY RowsKnown, FS_Subset, FS_CardinalityType DEF Answer!Children
  <2> QED
    BY <2>1, RowsKnown, RowsCounted DEF Answer!SqlAggregate
<1> HIDE DEF v
<1>4. v # Null
  BY <1>1, <1>3, FilterKnown DEF Answer!Holds, Agrees, FilterFacts
<1> QED
  BY <1>1, <1>2, <1>4

LEMMA PythonRight ==
  ASSUME NEW f \in Answer!Filter, Agrees(f), NEW S \in SUBSET Row, NEW other, NEW p \in Parent,
         p \in Answer!MatchingInPython(f, S, other), Answer!MatchingInPython(f, S, other) # other
  PROVE  Answer!Holds(f.op, Answer!EvaluateRollup(f, p, S))
BY RollupShown DEF Answer!MatchingInPython, Agrees

LEMMA DottedRight ==
  ASSUME NEW f \in Answer!Filter, Agrees(f), f.on = "parent", NEW S \in SUBSET Row, NEW p \in Parent,
         Answer!ConvertDotted(f, S) # Null, p \in Answer!ConvertDotted(f, S)
  PROVE  Answer!Holds(f.op, IF f.kind = "rollup" THEN Answer!EvaluateRollup(f, p, S) ELSE FormulaValue[p])
<1> DEFINE sql == Answer!MatchingByAggregation(f, S)
<1>1. CASE f.kind = "rollup" /\ sql # Null /\ sql # {}
  BY <1>1, AggregationRight DEF Answer!ConvertDotted
<1>2. CASE f.kind = "rollup" /\ sql \in {Null, {}}
  <2>1. sql = Null => Answer!MatchingByColumn(f) = Null
    BY <1>2, RowsKnown DEF Answer!MatchingByAggregation, Answer!MatchingByColumn, Agrees, Answer!Filter
  <2>2. Answer!ConvertDotted(f, S) = Answer!MatchingInPython(f, S, sql)
    BY <1>2, <2>1 DEF Answer!ConvertDotted
  <2>3. Answer!MatchingInPython(f, S, sql) # sql
    BY <2>2, <1>2
  <2> QED
    BY <1>2, <2>2, <2>3, PythonRight
<1>3. CASE f.kind # "rollup"
  <2>1. f.exact
    BY <1>3 DEF Answer!ConvertDotted, Answer!MatchingByFormula, Answer!MatchingByColumn, Agrees, Answer!Filter
  <2>2. f.op # "null" /\ f.kind = "formula"
    BY <1>3 DEF Agrees, Answer!Filter
  <2>3. p \in Answer!Inline(f, Parent, FormulaValue)
    BY <1>3, <2>1, <2>2, RowsKnown DEF Answer!ConvertDotted, Answer!MatchingByFormula, Answer!Inline
  <2> QED
    BY <1>3, <2>2, <2>3 DEF Answer!Inline
<1> QED
  BY <1>1, <1>2, <1>3

\* What Python is left with, it tests on the value shown.
LEMMA NothingSelected ==
  ASSUME NEW f \in Answer!Filter, Agrees(f), f.on = "parent", NEW S \in SUBSET Row, Answer!ConvertDotted(f, S) = Null
  PROVE  /\ f.op # "null" /\ Answer!Membership(f, S) = Null
<1> DEFINE sql == Answer!MatchingByAggregation(f, S)
<1>1. CASE f.kind = "rollup"
  <2>1. sql = Null
    <3>1. SUFFICES ASSUME sql # Null PROVE FALSE
      OBVIOUS
    <3>2. {} # Null
      BY RowsKnown
    <3>3. Answer!MatchingInPython(f, S, {}) # Null
      BY RowsKnown, <3>2 DEF Answer!MatchingInPython
    <3>4. Answer!ConvertDotted(f, S) = IF sql = {} THEN Answer!MatchingInPython(f, S, {}) ELSE sql
      BY <1>1, <3>1 DEF Answer!ConvertDotted
    <3> QED
      BY <3>1, <3>3, <3>4
  <2>2. f.type # "COUNT" /\ ~f.exact
    BY <1>1, <2>1, RowsKnown DEF Answer!MatchingByAggregation
  <2>3. Answer!MatchingByColumn(f) = Null /\ f.op # "null"
    BY <2>2 DEF Answer!MatchingByColumn, Agrees
  <2> QED
    BY <2>1, <2>3 DEF Answer!Membership
<1>2. CASE f.kind # "rollup"
  <2>1. f.op # "null"
    BY <1>2 DEF Agrees
  <2>2. Answer!MatchingByColumn(f) = Null
    BY <1>2 DEF Answer!ConvertDotted
  <2> QED
    BY <1>2, <2>1, <2>2 DEF Answer!Membership
<1> QED
  BY <1>1, <1>2

\* What the filter became in SQL, by the rows of the table.
Converted == IF req.filter = Null THEN Null ELSE Answer!ConvertRollupFilter(req.filter, reportTable)

\* Rows that are read and pass what is left of the filter have a value that passes.
LEMMA PassesShown ==
  ASSUME req \in Requests, req.filter # Null, Agrees(req.filter), reportTable \subseteq Row, ids = Converted,
         NEW D, D \subseteq Answer!Readable(reportTable), NEW r \in Answer!Filtered(D)
  PROVE  Answer!Holds(req.filter.op, Answer!ShownValue(req.filter, r, reportTable))
<1> DEFINE f == req.filter
           p == Attr[r].parent
<1>1. f \in Answer!Filter /\ FilterFacts(f) /\ Answer!WellFormed(f)
  BY RequestKnown, RowsKnown, FilterKnown
<1>2. ids = Answer!ConvertRollupFilter(f, reportTable)
  BY DEF Converted
<1>3. r \in D
  BY DEF Answer!Filtered, Answer!ApplyComputedFilters
<1>4. r \in Row /\ r \in reportTable /\ (ids # Null => Answer!Selects(f, ids, r))
  BY <1>3 DEF Answer!Readable, Answer!Where
<1>5. p \in Parent \cup {Null} /\ Null \notin Parent
  BY <1>4, RowsKnown
<1>6. f.on = "own" => f.kind = "formula" /\ f.op # "null" /\ Answer!ShownValue(f, r, reportTable) = Attr[r].amount
  BY <1>1 DEF Answer!WellFormed, Agrees, Answer!ShownValue
<1>7. f.on = "parent" /\ p # Null => Answer!ShownValue(f, r, reportTable) =
        IF f.kind = "rollup" THEN Answer!EvaluateRollup(f, p, reportTable) ELSE FormulaValue[p]
  <2> SUFFICES ASSUME f.on = "parent", p # Null
               PROVE  Answer!ShownValue(f, r, reportTable) =
                        IF f.kind = "rollup" THEN Answer!EvaluateRollup(f, p, reportTable) ELSE FormulaValue[p]
    OBVIOUS
  <2>1. CASE f.kind = "rollup"
    <3>1. Answer!ShownValue(f, r, reportTable) = Answer!EvaluateRollupBatch(f, {p}, reportTable)[p]
      BY <2>1 DEF Answer!ShownValue
    <3>2. Answer!EvaluateRollupBatch(f, {p}, reportTable)[p] = Answer!EvaluateRollup(f, p, reportTable)
      <4>1. ~f.crit /\ p \in {p}
        BY DEF Agrees
      <4> HIDE DEF f, p
      <4> QED
        BY <4>1, RollupShown
    <3> QED
      BY <2>1, <3>1, <3>2
  <2>2. CASE f.kind = "formula"
    BY <2>2 DEF Answer!ShownValue
  <2> QED
    BY <1>1, <2>1, <2>2 DEF FilterFacts
<1>8. CASE ids # Null /\ f.on = "own"
  <2>1. ids = Answer!Inline(f, reportTable, [x \in reportTable |-> Attr[x].amount])
    BY <1>2, <1>8 DEF Answer!ConvertRollupFilter, Answer!ConvertBare
  <2>2. r \in ids
    BY <1>4, <1>8 DEF Answer!Selects
  <2>3. Answer!Holds(f.op, Attr[r].amount)
    BY <1>4, <1>6, <1>8, <2>1, <2>2 DEF Answer!Inline
  <2> QED
    BY <1>6, <1>8, <2>3
<1>9. CASE ids # Null /\ f.on = "parent"
  <2>1. ids = Answer!ConvertDotted(f, reportTable)
    BY <1>2, <1>9 DEF Answer!ConvertRollupFilter
  <2>2. p \in ids
    BY <1>4, <1>9 DEF Answer!Selects
  <2>3. ids \subseteq Parent
    BY <1>9, <2>1, RowsKnown DEF Answer!ConvertDotted, Answer!MatchingByAggregation, Answer!MatchingByFormula,
          Answer!MatchingByColumn, Answer!MatchingInPython, Answer!Inline
  <2> QED
    BY <1>1, <1>5, <1>7, <1>9, <2>1, <2>2, <2>3, DottedRight
<1>10. CASE ids = Null
  <2> DEFINE chosen == Answer!Membership(f, reportTable)
  <2>1. r \in Answer!ApplyComputedFilters(f, D, reportTable)
    BY <1>10 DEF Answer!Filtered, Answer!pending
  <2>2. f.on = "own" => chosen = Null
    BY DEF Answer!Membership
  <2>3. f.on = "parent" => f.op # "null" /\ chosen = Null
    BY <1>1, <1>2, <1>10, NothingSelected DEF Answer!ConvertRollupFilter
  <2>4. Answer!Holds(f.op, Answer!EnsureValue(f, r, reportTable))
    BY <1>1, <2>1, <2>2, <2>3 DEF Answer!ApplyComputedFilters, FilterFacts
  <2>5. f.op # "null"
    BY <1>1, <1>6, <2>3 DEF FilterFacts
  <2>6. Answer!EnsureValue(f, r, reportTable) # Null
    BY <1>1, <2>4, <2>5 DEF Answer!Holds, FilterFacts
  <2>7. Answer!EnsureValue(f, r, reportTable) = Answer!ShownValue(f, r, reportTable)
    <3>1. CASE f.shown \/ f.on = "own"
      BY <3>1 DEF Answer!EnsureValue
    <3>2. CASE ~(f.shown \/ f.on = "own") /\ f.kind = "rollup" /\ p # Null
      <4>1. Answer!EnsureValue(f, r, reportTable) = Answer!EvaluateRollup(f, p, reportTable)
        BY <3>2 DEF Answer!EnsureValue
      <4> QED
        BY <1>1, <1>7, <3>2, <4>1 DEF FilterFacts
    <3>3. CASE ~(f.shown \/ f.on = "own") /\ (f.kind # "rollup" \/ p = Null)
      BY <1>1, <2>6, <3>3 DEF Answer!EnsureValue, FilterFacts
    <3> QED
      BY <3>1, <3>2, <3>3
  <2> QED
    BY <2>4, <2>7
<1> QED
  BY <1>1, <1>8, <1>9, <1>10 DEF FilterFacts

-----------------------------------------------------------------------------
\* Reports: what holds after every step

ReportTyped ==
  /\ reportTable \subseteq Row /\ writes \in 0..MaxWrites /\ req \in Requests
  /\ reportPc \in {"convert", "probe", "details", "filter", "summary", "cells", "count", "groups", "answer", "done"}
  /\ ids \in {Null} \cup (SUBSET Row) \cup (SUBSET Parent)
  /\ reportParents \subseteq Parent
  /\ fetched \in Nat
  /\ details \subseteq Row /\ scope \subseteq Row
  /\ truncated \in BOOLEAN
  /\ DOMAIN groups \subseteq Answer!Key
  /\ groups \in [DOMAIN groups -> SUBSET Row] /\ cells \in [DOMAIN groups -> SUBSET Row]
  /\ found \in Nat \cup {Null} /\ reportTotal \in Nat \cup {Null} /\ groupTotal \in Nat \cup {Null}

\* What the steps to come will set is not set yet.
ReportPhases ==
  /\ reportPc \in {"convert", "probe"} => reportParents = {}
  /\ reportPc \in {"convert", "probe", "details"} => details = {}
  /\ reportPc \in {"convert", "probe", "details", "filter", "summary"} => DOMAIN groups = {}
  /\ reportPc \in {"convert", "probe", "details", "filter", "summary", "cells", "count"} => reportTotal = Null
  /\ reportParents # {} => Answer!probed

\* Before the filters of Python, the details are all there was to choose from, or the report is cut.
WholePage == reportPc = "filter" /\ ~Answer!paging /\ ~truncated => details = scope

\* While nobody writes, what was read is what is there.
StillRead ==
  Answer!quiet => /\ reportPc # "convert" => ids = Converted
                  /\ details \subseteq Answer!Readable(reportTable)

ReportInv ==
  ReportTyped /\ ReportPhases /\ WholePage /\ Answer!LeftOutIsTold /\ StillRead /\ Answer!FilterMatchesShownValue

LEMMA SameView ==
  ASSUME UNCHANGED <<reportTable, req, ids>>
  PROVE  /\ Answer!Readable(reportTable)' = Answer!Readable(reportTable)
         /\ Converted' = Converted /\ Answer!pending' = Answer!pending /\ Answer!probed' = Answer!probed
         /\ Answer!saved' = Answer!saved /\ Answer!paging' = Answer!paging /\ Answer!grouped' = Answer!grouped
<1>1. Answer!saved' = Answer!saved /\ Answer!paging' = Answer!paging /\ Answer!grouped' = Answer!grouped
  BY DEF Answer!saved, Answer!paging, Answer!grouped
<1>2. Answer!pending' = Answer!pending /\ Answer!probed' = Answer!probed
  BY <1>1 DEF Answer!pending, Answer!probed
<1>3. Converted' = Converted
  BY DEF Converted
<1>4. Answer!Where(reportTable)' = Answer!Where(reportTable)
  BY <1>1 DEF Answer!Where, Answer!PreviewHides
<1>5. Answer!Readable(reportTable)' = Answer!Readable(reportTable)
  BY <1>4 DEF Answer!Readable
<1> QED
  BY <1>1, <1>2, <1>3, <1>5

LEMMA LimitsKnown ==
  ASSUME req \in Requests
  PROVE  /\ Answer!DetailLimit \in Nat \cup {Null} /\ Answer!FetchLimit \in Nat \cup {Null}
         /\ Answer!FetchLimit = Null <=> Answer!DetailLimit = Null
         /\ Answer!FetchLimit # Null => Answer!DetailLimit <= Answer!FetchLimit
         /\ ~Answer!saved => Answer!DetailLimit # Null
         /\ ~Answer!paging => req.doffset = 0
         /\ Null \notin Nat
<1>1. Answer!DetailLimit \in Nat \cup {Null} /\ (~Answer!saved => Answer!DetailLimit # Null)
  BY RequestKnown, CapsKnown, RowsKnown
     DEF Answer!DetailLimit, Answer!SavedLimit, Answer!PreviewLimit, Answer!paging, Answer!saved
<1>2. ~Answer!paging => req.doffset = 0
  BY RequestKnown DEF Answer!paging
<1> QED
  BY <1>1, <1>2, CapsKnown, RowsKnown DEF Answer!FetchLimit

LEMMA RowSets == \A S \in SUBSET Row : IsFiniteSet(S) /\ Cardinality(S) \in Nat
BY RowsKnown, FS_Subset, FS_CardinalityType

LEMMA ReportAtFirst == ASSUME Answer!Init PROVE ReportInv
<1>1. StartTables \subseteq SUBSET Row /\ MaxWrites \in Nat
  BY DeskAssumption DEF Answer!ReportAssumption
<1>2. ReportTyped
  <2>1. groups = [g \in {} |-> {}] /\ cells = [g \in {} |-> {}] /\ DOMAIN groups = {}
    BY DEF Answer!Init, Answer!NoGroups
  <2>2. groups \in [DOMAIN groups -> SUBSET Row] /\ cells \in [DOMAIN groups -> SUBSET Row]
    BY <2>1
  <2>3. DOMAIN groups \subseteq Answer!Key
    BY <2>1
  <2> QED
    <3>1. reportTable \subseteq Row /\ writes = 0 /\ req \in Requests /\ reportPc = "convert" /\ ids = Null
      BY <1>1 DEF Answer!Init
    <3>2. reportParents = {} /\ fetched = 0 /\ details = {} /\ scope = {} /\ truncated = FALSE
      BY DEF Answer!Init
    <3>3. found = Null /\ reportTotal = Null /\ groupTotal = Null
      BY DEF Answer!Init
    <3>4. writes \in 0..MaxWrites
      BY <1>1, <3>1
    <3> QED
      BY <2>2, <2>3, <3>1, <3>2, <3>3, <3>4 DEF ReportTyped
<1>3. ReportPhases
  BY DEF Answer!Init, Answer!NoGroups, ReportPhases
<1> QED
  BY <1>2, <1>3 DEF Answer!Init, ReportInv, WholePage, StillRead, Answer!LeftOutIsTold, Answer!FilterMatchesShownValue

LEMMA FiltersConverted == ASSUME ReportInv, Answer!ConvertFilters PROVE ReportInv'
<1>1. ids' = Converted
  BY DEF Answer!ConvertFilters, Converted
<1>2. Converted \in {Null} \cup (SUBSET Row) \cup (SUBSET Parent)
  BY ConvertTyped, RequestKnown DEF ReportInv, ReportTyped, Converted
<1>3. ReportTyped'
  BY <1>1, <1>2 DEF ReportInv, ReportTyped, Answer!ConvertFilters, Answer!Goto, Answer!Key
<1>4. ReportPhases'
  BY DEF ReportInv, ReportPhases, Answer!ConvertFilters, Answer!Goto, Answer!probed, Answer!saved, Answer!grouped
<1>5. WholePage' /\ Answer!LeftOutIsTold' /\ Answer!FilterMatchesShownValue'
  BY DEF Answer!ConvertFilters, Answer!Goto, WholePage, Answer!LeftOutIsTold, Answer!FilterMatchesShownValue
<1>6. details' = {}
  BY DEF ReportInv, ReportPhases, Answer!ConvertFilters, Answer!Goto
<1>7. Converted' = Converted
  BY DEF Answer!ConvertFilters, Converted
<1> QED
  BY <1>1, <1>3, <1>4, <1>5, <1>6, <1>7 DEF ReportInv, StillRead

LEMMA ParentsProbed == ASSUME ReportInv, Answer!ProbeParents PROVE ReportInv'
<1> DEFINE keys == {Answer!KeyOf(r) : r \in Answer!Readable(reportTable)}
<1>1. keys \subseteq Parent \cup {Null}
  BY RowsKnown DEF ReportInv, ReportTyped, Answer!KeyOf, Answer!Readable, Answer!Where
<1>2. reportParents' \subseteq Parent /\ (reportParents' # {} => Answer!probed)
  <2>1. CASE Answer!probed
    BY <1>1, <2>1 DEF Answer!ProbeParents, Answer!Page
  <2>2. CASE ~Answer!probed
    BY <2>2 DEF Answer!ProbeParents, ReportInv, ReportTyped, ReportPhases
  <2> QED
    BY <2>1, <2>2
<1>3. ReportTyped'
  BY <1>2 DEF ReportInv, ReportTyped, Answer!ProbeParents, Answer!Goto, Answer!Key
<1>4. ReportPhases'
  BY <1>2 DEF ReportInv, ReportPhases, Answer!ProbeParents, Answer!Goto, Answer!probed, Answer!saved, Answer!grouped
<1>5. WholePage' /\ Answer!LeftOutIsTold' /\ Answer!FilterMatchesShownValue'
  BY DEF Answer!ProbeParents, Answer!Goto, WholePage, Answer!LeftOutIsTold, Answer!FilterMatchesShownValue
<1>6. StillRead'
  <2>1. UNCHANGED <<reportTable, req, ids, writes, details>> /\ reportPc # "convert"
    BY DEF Answer!ProbeParents, Answer!Goto
  <2> QED
    BY <2>1, SameView DEF ReportInv, StillRead, Answer!quiet
<1> QED
  BY <1>3, <1>4, <1>5, <1>6 DEF ReportInv

\* What the details are chosen from.
Chosen == IF Answer!ByParent THEN Answer!InParents(Answer!Readable(reportTable)) ELSE Answer!Readable(reportTable)

\* The two ways of the statement of the details.
LEMMA Fetched ==
  ASSUME ReportInv, Answer!FetchDetails
  PROVE  \/ Answer!NoDetails /\ details' = {} /\ scope' = {} /\ UNCHANGED <<fetched, truncated>>
         \/ /\ ~Answer!NoDetails
            /\ \E page \in Answer!Page(Chosen, Answer!FetchLimit, req.doffset) :
                 /\ details' \in (IF Answer!probed /\ ~Answer!paging THEN Answer!CapPerParent(page) ELSE {page})
                 /\ scope' = Chosen /\ fetched' = Cardinality(page)
                 /\ truncated' = (details' # page
                      \/ (Answer!Reached(Cardinality(details'), Answer!DetailLimit) /\ (Answer!saved \/ ~Answer!paging)))
BY RowsCounted DEF Answer!FetchDetails, Chosen

LEMMA ChosenKnown ==
  ASSUME ReportInv
  PROVE  Chosen \subseteq Answer!Readable(reportTable) /\ Chosen \subseteq Row /\ IsFiniteSet(Chosen)
<1>1. Chosen \subseteq Answer!Readable(reportTable)
  BY DEF Chosen, Answer!InParents
<1>2. Answer!Readable(reportTable) \subseteq Row
  BY DEF ReportInv, ReportTyped, Answer!Readable, Answer!Where
<1> QED
  BY <1>1, <1>2, RowSets

\* A page that is not told to be cut is the whole.
LEMMA DetailsFetched == ASSUME ReportInv, Answer!FetchDetails PROVE ReportInv'
<1> USE DEF ReportInv
<1>1. UNCHANGED <<reportTable, req, ids, writes, reportParents, groups, cells, found, reportTotal, groupTotal>>
      /\ reportPc = "details" /\ reportPc' = "filter"
  BY DEF Answer!FetchDetails, Answer!Goto
<1>2. /\ details' \subseteq Answer!Readable(reportTable) /\ details' \subseteq Row /\ scope' \subseteq Row
      /\ fetched' \in Nat /\ truncated' \in BOOLEAN
      /\ ~Answer!paging /\ ~truncated' => details' = scope'
  <2>1. CASE Answer!NoDetails /\ details' = {} /\ scope' = {} /\ UNCHANGED <<fetched, truncated>>
    BY <2>1 DEF ReportTyped
  <2>2. ASSUME NEW page \in Answer!Page(Chosen, Answer!FetchLimit, req.doffset),
               details' \in (IF Answer!probed /\ ~Answer!paging THEN Answer!CapPerParent(page) ELSE {page}),
               scope' = Chosen, fetched' = Cardinality(page),
               truncated' = (details' # page
                 \/ (Answer!Reached(Cardinality(details'), Answer!DetailLimit) /\ (Answer!saved \/ ~Answer!paging)))
        PROVE  /\ details' \subseteq Answer!Readable(reportTable) /\ details' \subseteq Row /\ scope' \subseteq Row
               /\ fetched' \in Nat /\ truncated' \in BOOLEAN
               /\ ~Answer!paging /\ ~truncated' => details' = scope'
    <3>1. req \in Requests /\ req.doffset \in Nat
      BY RequestKnown DEF ReportTyped
    <3>2. page \subseteq Chosen /\ page \subseteq Row /\ Cardinality(page) \in Nat
      <4>1. Answer!FetchLimit \in Nat \cup {Null} /\ IsFiniteSet(Chosen) /\ Chosen \subseteq Row
        BY <3>1, ChosenKnown, LimitsKnown
      <4>2. page \subseteq Chosen /\ Cardinality(page) \in Nat
        BY <3>1, <4>1, PageFacts
      <4> QED
        BY <4>1, <4>2
    <3>3. details' \subseteq page
      BY <2>2, <3>2, CapFacts
    <3>4. ASSUME ~Answer!paging, ~truncated' PROVE details' = scope'
      <4>1. details' = page /\ ~Answer!Reached(Cardinality(page), Answer!DetailLimit)
        BY <2>2, <3>4
      <4>2. Answer!FetchLimit # Null => Cardinality(page) < Answer!FetchLimit
        BY <3>1, <3>2, <4>1, LimitsKnown DEF Answer!Reached
      <4>3. page = Chosen
        BY <3>1, <3>4, <4>2, ChosenKnown, PageFacts, LimitsKnown
      <4> QED
        BY <2>2, <4>1, <4>3
    <3> QED
      BY <2>2, <3>2, <3>3, <3>4, ChosenKnown
  <2> QED
    BY <2>1, <2>2, Fetched
<1>3. ReportTyped'
  BY <1>1, <1>2 DEF ReportTyped, Answer!Key
<1>4. ReportPhases'
  BY <1>1 DEF ReportPhases, Answer!probed, Answer!saved, Answer!grouped
<1>5. WholePage' /\ Answer!LeftOutIsTold' /\ Answer!FilterMatchesShownValue'
  BY <1>1, <1>2 DEF WholePage, Answer!LeftOutIsTold, Answer!FilterMatchesShownValue, Answer!paging
<1>6. StillRead'
  BY <1>1, <1>2, SameView DEF StillRead, Answer!quiet
<1> QED
  BY <1>3, <1>4, <1>5, <1>6

LEMMA FilteredPart == \A D : Answer!Filtered(D) \subseteq D
BY DEF Answer!Filtered, Answer!ApplyComputedFilters

LEMMA DetailsFiltered == ASSUME ReportInv, Answer!FilterDetails PROVE ReportInv'
<1> USE DEF ReportInv
<1>1. UNCHANGED <<reportTable, req, ids, writes, reportParents, fetched, groups, cells, reportTotal, groupTotal>>
      /\ reportPc = "filter" /\ reportPc' = "summary" /\ scope' = Answer!Filtered(scope)
  BY DEF Answer!FilterDetails, Answer!Goto
<1>2. Answer!Filtered(details) \subseteq Row /\ IsFiniteSet(Answer!Filtered(details))
      /\ Cardinality(Answer!Filtered(details)) \in Nat
  BY FilteredPart, RowSets DEF ReportTyped
<1>3. /\ details' \subseteq Answer!Filtered(details) /\ found' \in Nat \cup {Null}
      /\ truncated' = (truncated \/ details' # Answer!Filtered(details))
  <2>1. CASE ~Answer!saved /\ Answer!pending
    BY <1>2, <2>1, RowsCounted DEF Answer!FilterDetails, Answer!TrimPreview, Answer!Page
  <2>2. CASE ~(~Answer!saved /\ Answer!pending)
    <3>1. details' = Answer!Filtered(details) /\ found' = found /\ truncated' = truncated
      BY <2>2 DEF Answer!FilterDetails
    <3> QED
      BY <3>1 DEF ReportTyped
  <2> QED
    BY <2>1, <2>2
<1>4. ReportTyped'
  BY <1>1, <1>2, <1>3, FilteredPart DEF ReportTyped, Answer!Key
<1>5. ReportPhases'
  BY <1>1 DEF ReportPhases, Answer!probed, Answer!saved, Answer!grouped
<1>6. WholePage' /\ Answer!LeftOutIsTold'
  <2>1. ~Answer!paging /\ ~truncated' => details = scope
    BY <1>1, <1>3 DEF WholePage
  <2>2. ~truncated' => details' = Answer!Filtered(details)
    BY <1>3
  <2> QED
    BY <1>1, <2>1, <2>2 DEF WholePage, Answer!LeftOutIsTold, Answer!paging
<1>7. StillRead'
  BY <1>1, <1>3, FilteredPart, SameView DEF StillRead, Answer!quiet
<1>8. Answer!FilterMatchesShownValue'
  <2>1. SUFFICES ASSUME Answer!quiet, req.filter # Null, Agrees(req.filter), NEW r \in details'
                 PROVE  Answer!Holds(req.filter.op, Answer!ShownValue(req.filter, r, reportTable))
    BY <1>1 DEF Answer!FilterMatchesShownValue, Answer!quiet, Agrees
  <2>2. ids = Converted /\ details \subseteq Answer!Readable(reportTable)
    BY <1>1, <2>1 DEF StillRead
  <2> QED
    BY <1>3, <2>1, <2>2, PassesShown DEF ReportTyped
<1> QED
  BY <1>4, <1>5, <1>6, <1>7, <1>8

\* After the filters, rows are only taken away, and that is told.
LEMMA LaterKept ==
  ASSUME ReportInv, UNCHANGED <<reportTable, req, ids, writes, reportParents, fetched, scope, found>>,
         reportPc \in {"summary", "cells", "count", "groups", "answer"}, reportPc' \in {"cells", "count", "groups", "answer", "done"},
         details' \subseteq details, truncated' \in BOOLEAN, ~truncated' => ~truncated /\ details' = details,
         DOMAIN groups' \subseteq Answer!Key, groups' \in [DOMAIN groups' -> SUBSET Row],
         cells' \in [DOMAIN groups' -> SUBSET Row],
         reportTotal' \in Nat \cup {Null}, groupTotal' \in Nat \cup {Null},
         reportPc' \in {"cells", "count"} => reportTotal' = Null
  PROVE  ReportInv'
<1> USE DEF ReportInv
<1>1. ReportTyped'
  BY DEF ReportTyped, Answer!Key
<1>2. ReportPhases'
  BY DEF ReportPhases, Answer!probed, Answer!saved, Answer!grouped
<1>3. WholePage' /\ Answer!LeftOutIsTold'
  BY DEF WholePage, Answer!LeftOutIsTold, Answer!paging
<1>4. StillRead'
  BY SameView DEF StillRead, Answer!quiet
<1>5. Answer!FilterMatchesShownValue'
  <2>1. reportPc \notin {"convert", "probe", "details", "filter"}
    OBVIOUS
  <2> QED
    BY <2>1 DEF Answer!FilterMatchesShownValue, Answer!quiet
<1> QED
  BY <1>1, <1>2, <1>3, <1>4, <1>5

LEMMA LabelsKnown ==
  ASSUME ReportTyped
  PROVE  /\ \A r \in Row : Answer!LabelOf(r) \in Answer!Key /\ Answer!KeyOf(r) \in Answer!Key
         /\ Answer!Readable(reportTable) \subseteq reportTable /\ reportTable \subseteq Row
         /\ Answer!Where(reportTable) \subseteq reportTable
         /\ Answer!Summarized \subseteq Answer!Readable(reportTable)
<1>1. \A r \in Row : Answer!LabelOf(r) \in Answer!Key /\ Answer!KeyOf(r) \in Answer!Key
  BY RowsKnown DEF Answer!LabelOf, Answer!KeyOf, Answer!Key
<1>2. Answer!Readable(reportTable) \subseteq reportTable /\ reportTable \subseteq Row
      /\ Answer!Where(reportTable) \subseteq reportTable
  BY DEF ReportTyped, Answer!Readable, Answer!Where
<1>3. Answer!Summarized \subseteq Answer!Readable(reportTable)
  BY DEF Answer!Summarized, Answer!SavedSource, Answer!PreviewSource, Answer!InParents
<1> QED
  BY <1>1, <1>2, <1>3

\* The groups of the summary are among the labels of the rows it is of.
LEMMA SummaryIs ==
  ASSUME ReportInv, Answer!Summarize
  PROVE  \/ /\ Answer!grouped /\ ~Answer!LaterPage /\ ~req.skipSummary
            /\ \E page \in Answer!Page({Answer!LabelOf(r) : r \in Answer!Summarized}, Answer!SummaryLimit, 0) :
                 /\ groups' = [g \in page |-> {r \in Answer!Summarized : Answer!LabelOf(r) = g}]
                 /\ cells' = [g \in page |-> {}]
         \/ ~(Answer!grouped /\ ~Answer!LaterPage /\ ~req.skipSummary) /\ groups' = groups /\ cells' = cells
BY DEF Answer!Summarize

LEMMA Summarizes == ASSUME ReportInv, Answer!Summarize PROVE ReportInv'
<1>1. UNCHANGED <<reportTable, writes, req, ids, reportParents, fetched, details, scope, truncated, found, reportTotal, groupTotal>>
      /\ reportPc = "summary" /\ reportPc' = "cells"
  BY DEF Answer!Summarize, Answer!Goto
<1>2. /\ DOMAIN groups' \subseteq Answer!Key /\ groups' \in [DOMAIN groups' -> SUBSET Row]
      /\ cells' \in [DOMAIN groups' -> SUBSET Row]
  <2>1. ASSUME NEW page \in Answer!Page({Answer!LabelOf(r) : r \in Answer!Summarized}, Answer!SummaryLimit, 0),
               groups' = [g \in page |-> {r \in Answer!Summarized : Answer!LabelOf(r) = g}],
               cells' = [g \in page |-> {}]
        PROVE  /\ DOMAIN groups' \subseteq Answer!Key /\ groups' \in [DOMAIN groups' -> SUBSET Row]
               /\ cells' \in [DOMAIN groups' -> SUBSET Row]
    <3>1. page \subseteq Answer!Key /\ Answer!Summarized \subseteq Row
      BY LabelsKnown DEF Answer!Page, ReportInv
    <3> QED
      BY <2>1, <3>1
  <2> QED
    BY <2>1, SummaryIs DEF ReportInv, ReportTyped
<1>3. truncated' \in BOOLEAN /\ reportTotal' \in Nat \cup {Null} /\ groupTotal' \in Nat \cup {Null} /\ reportTotal' = Null
  BY <1>1 DEF ReportInv, ReportTyped, ReportPhases
<1> QED
  BY <1>1, <1>2, <1>3, LaterKept

LEMMA CellsFilled == ASSUME ReportInv, Answer!FillCells PROVE ReportInv'
<1>1. UNCHANGED <<reportTable, writes, req, ids, reportParents, fetched, details, scope, groups, found, reportTotal, groupTotal>>
      /\ reportPc = "cells" /\ reportPc' = "count"
  BY DEF Answer!FillCells, Answer!Goto
<1>2. \A D : D \subseteq Row => Answer!Bucket(D) \in [DOMAIN groups -> SUBSET Row]
  BY DEF Answer!Bucket
<1>3. cells' \in [DOMAIN groups -> SUBSET Row] /\ truncated' \in BOOLEAN /\ (~truncated' => ~truncated)
  <2>1. CASE DOMAIN groups = {}
    BY <2>1 DEF Answer!FillCells, ReportInv, ReportTyped
  <2>2. CASE DOMAIN groups # {} /\ Answer!saved
    <3>1. Answer!SavedCells
      BY <2>2 DEF Answer!FillCells
    <3>2. Answer!Refetch \subseteq Row
      BY LabelsKnown DEF ReportInv, Answer!Refetch, Answer!InParents
    <3>3. \A page : page \in Answer!Page(Answer!Refetch, COMPUTED_AGG_REFETCH_CAP, 0) => Answer!Filtered(page) \subseteq Row
      BY <3>2, FilteredPart DEF Answer!Page
    <3> QED
      BY <1>2, <3>1, <3>3 DEF Answer!SavedCells, ReportInv, ReportTyped
  <2>3. CASE DOMAIN groups # {} /\ ~Answer!saved
    <3>1. Answer!PreviewCells
      BY <2>3 DEF Answer!FillCells
    <3>2. \A page : page \in Answer!Page(Answer!PreviewSource, REPORT_MAX_DETAIL_ROWS, 0) => page \subseteq Row
      BY <2>3, LabelsKnown DEF ReportInv, Answer!Page, Answer!Summarized
    <3> QED
      BY <1>2, <3>1, <3>2 DEF Answer!PreviewCells, ReportInv, ReportTyped
  <2> QED
    BY <2>1, <2>2, <2>3
<1>4. groups \in [DOMAIN groups -> SUBSET Row] /\ DOMAIN groups \subseteq Answer!Key /\ reportTotal' \in Nat \cup {Null}
      /\ groupTotal' \in Nat \cup {Null} /\ reportTotal' = Null
  BY <1>1 DEF ReportInv, ReportTyped, ReportPhases
<1> QED
  BY <1>1, <1>3, <1>4, LaterKept

LEMMA KeySets == \A S \in SUBSET Answer!Key : IsFiniteSet(S) /\ Cardinality(S) \in Nat
BY RowsKnown, FS_Subset, FS_CardinalityType DEF Answer!Key

LEMMA RowsCount == ASSUME ReportInv, Answer!CountRows PROVE ReportInv'
<1>1. UNCHANGED <<reportTable, writes, req, ids, reportParents, fetched, details, scope, groups, cells, found, groupTotal>>
      /\ reportPc = "count" /\ reportPc' = "groups"
  BY DEF Answer!CountRows, Answer!Goto
<1>2. Answer!Counts \in Nat
  BY RowSets, RowsCounted, LabelsKnown DEF ReportInv, Answer!Counts
<1>3. reportTotal' \in Nat \cup {Null} /\ truncated' \in BOOLEAN /\ (~truncated' => ~truncated)
  <2>1. CASE Answer!NoCount
    BY <2>1 DEF Answer!CountRows, ReportInv, ReportTyped
  <2>2. CASE ~Answer!NoCount /\ Answer!saved
    BY <1>2, <2>2 DEF Answer!CountRows, Answer!SavedTotal, ReportInv, ReportTyped
  <2>3. CASE ~Answer!NoCount /\ ~Answer!saved
    BY <1>2, <2>3 DEF Answer!CountRows, Answer!PreviewTotal, ReportInv, ReportTyped
  <2> QED
    BY <2>1, <2>2, <2>3
<1>4. /\ groups' \in [DOMAIN groups' -> SUBSET Row] /\ cells' \in [DOMAIN groups' -> SUBSET Row]
      /\ DOMAIN groups' \subseteq Answer!Key /\ groupTotal' \in Nat \cup {Null}
  BY <1>1 DEF ReportInv, ReportTyped
<1> QED
  BY <1>1, <1>3, <1>4, LaterKept

LEMMA GroupsCount == ASSUME ReportInv, Answer!CountGroups PROVE ReportInv'
<1>1. UNCHANGED <<reportTable, writes, req, ids, reportParents, fetched, details, scope, truncated, groups, cells, found>>
      /\ reportPc = "groups" /\ reportPc' = "answer"
  BY DEF Answer!CountGroups, Answer!Goto
<1>2. /\ groups \in [DOMAIN groups -> SUBSET Row] /\ cells \in [DOMAIN groups -> SUBSET Row]
      /\ DOMAIN groups \subseteq Answer!Key /\ details \subseteq Row /\ truncated \in BOOLEAN
      /\ groupTotal \in Nat \cup {Null} /\ reportTotal \in Nat \cup {Null}
  BY DEF ReportInv, ReportTyped
<1>3. Cardinality(UNION {groups[g] : g \in DOMAIN groups}) \in Nat
  BY <1>2, RowSets
<1>4. Cardinality(details) \in Nat /\ Cardinality(DOMAIN groups) \in Nat
      /\ Cardinality(IF req.skipSummary THEN details ELSE DOMAIN groups) \in Nat
  BY <1>2, RowSets, KeySets
<1>5. Answer!DirectGroupCount \in Nat \cup {Null}
  <2>1. ({Answer!KeyOf(r) : r \in Answer!Where(reportTable)} \ {Null}) \subseteq Answer!Key
    BY LabelsKnown DEF ReportInv
  <2> QED
    BY <2>1, KeySets, RowsCounted DEF Answer!DirectGroupCount
<1>6. Cardinality({Answer!KeyOf(r) : r \in details} \ {Null}) \in Nat
  <2>1. ({Answer!KeyOf(r) : r \in details} \ {Null}) \subseteq Answer!Key
    BY <1>2, LabelsKnown DEF ReportInv
  <2> QED
    BY <2>1, KeySets
<1>7. reportTotal' \in Nat \cup {Null} /\ groupTotal' \in Nat \cup {Null}
  <2>1. CASE ~Answer!grouped \/ Answer!NoCount
    BY <1>2, <2>1 DEF Answer!CountGroups
  <2>2. CASE ~(~Answer!grouped \/ Answer!NoCount) /\ Answer!saved
    <3>1. Answer!SavedGroupTotal
      BY <2>2 DEF Answer!CountGroups
    <3> QED
      BY <1>2, <1>3, <1>4, <1>5, <3>1, RowsCounted DEF Answer!SavedGroupTotal
  <2>3. CASE ~(~Answer!grouped \/ Answer!NoCount) /\ ~Answer!saved
    <3>1. Answer!PreviewGroupTotal
      BY <2>3 DEF Answer!CountGroups
    <3> QED
      BY <1>2, <1>5, <1>6, <3>1, RowsCounted DEF Answer!PreviewGroupTotal
  <2> QED
    BY <2>1, <2>2, <2>3
<1> QED
  BY <1>1, <1>2, <1>7, LaterKept

\* The last cap takes rows and groups away.
LEMMA LastCap ==
  ASSUME ReportInv, Answer!Answer
  PROVE  /\ details' \subseteq details /\ DOMAIN groups' \subseteq DOMAIN groups
         /\ groups' = [g \in DOMAIN groups' |-> groups[g]] /\ cells' = [g \in DOMAIN groups' |-> cells[g]]
         /\ truncated' \in BOOLEAN
         /\ ~truncated' => ~truncated /\ details' = details /\ DOMAIN groups' = DOMAIN groups
<1>1. groups = [g \in DOMAIN groups |-> groups[g]] /\ cells = [g \in DOMAIN groups |-> cells[g]] /\ truncated \in BOOLEAN
  BY DEF ReportInv, ReportTyped
<1>2. CASE Answer!saved
  BY <1>1, <1>2 DEF Answer!Answer
<1>3. CASE ~Answer!saved
  <2> DEFINE cap == IF Answer!paging THEN req.dlimit ELSE PREVIEW_LIMIT
  <2>1. PICK D \in Answer!Page(details, cap, 0), L \in Answer!Page(DOMAIN groups, cap, 0) :
          /\ details' = D /\ groups' = [g \in L |-> groups[g]] /\ cells' = [g \in L |-> cells[g]]
          /\ truncated' = (truncated \/ D # details \/ L # DOMAIN groups)
    BY <1>3 DEF Answer!Answer
  <2> HIDE DEF cap
  <2>2. D \subseteq details /\ L \subseteq DOMAIN groups
    BY DEF Answer!Page
  <2>3. DOMAIN groups' = L
    BY <2>1
  <2> QED
    BY <1>1, <2>1, <2>2, <2>3
<1> QED
  BY <1>2, <1>3

LEMMA Answers == ASSUME ReportInv, Answer!Answer PROVE ReportInv'
<1>1. UNCHANGED <<reportTable, writes, req, ids, reportParents, fetched, scope, found, reportTotal, groupTotal>>
      /\ reportPc = "answer" /\ reportPc' = "done"
  BY DEF Answer!Answer, Answer!Goto
<1>2. reportTotal' \in Nat \cup {Null} /\ groupTotal' \in Nat \cup {Null}
  BY <1>1 DEF ReportInv, ReportTyped
<1>3. /\ groups' \in [DOMAIN groups' -> SUBSET Row] /\ cells' \in [DOMAIN groups' -> SUBSET Row]
      /\ DOMAIN groups' \subseteq Answer!Key
  BY LastCap DEF ReportInv, ReportTyped
<1> QED
  BY <1>1, <1>2, <1>3, LastCap, LaterKept

LEMMA Written == ASSUME ReportInv, Answer!Write PROVE ReportInv' /\ ~Answer!quiet'
<1> USE DEF ReportInv
<1>1. UNCHANGED <<req, reportPc, ids, reportParents, fetched, details, scope, truncated, groups, cells, found, reportTotal, groupTotal>>
      /\ writes' = writes + 1 /\ writes < MaxWrites /\ reportTable' \subseteq Row
  BY DEF Answer!Write, ReportTyped
<1>2. writes' \in 0..MaxWrites /\ writes' # 0
  BY <1>1, CapsKnown DEF ReportTyped
<1>3. ReportTyped'
  BY <1>1, <1>2 DEF ReportTyped, Answer!Key
<1>4. ReportPhases'
  BY <1>1 DEF ReportPhases, Answer!probed, Answer!saved, Answer!grouped
<1>5. WholePage' /\ Answer!LeftOutIsTold'
  BY <1>1 DEF WholePage, Answer!LeftOutIsTold, Answer!paging
<1>6. StillRead' /\ Answer!FilterMatchesShownValue'
  BY <1>2 DEF StillRead, Answer!FilterMatchesShownValue, Answer!quiet
<1> QED
  BY <1>2, <1>3, <1>4, <1>5, <1>6 DEF Answer!quiet

LEMMA ReportStays == ASSUME ReportInv, UNCHANGED reportVars PROVE ReportInv'
<1> USE DEF ReportInv, reportVars
<1>1. ReportTyped' /\ ReportPhases'
  BY DEF ReportTyped, ReportPhases, Answer!Key, Answer!probed, Answer!saved, Answer!grouped
<1>2. WholePage' /\ Answer!LeftOutIsTold' /\ Answer!FilterMatchesShownValue'
  BY DEF WholePage, Answer!LeftOutIsTold, Answer!paging, Answer!FilterMatchesShownValue, Answer!quiet
<1>3. StillRead'
  BY SameView DEF StillRead, Answer!quiet
<1> QED
  BY <1>1, <1>2, <1>3

LEMMA ReportKept == ASSUME ReportInv, [Answer!Next]_reportVars PROVE ReportInv'
<1>1. Answer!Done => UNCHANGED reportVars
  BY DEF Answer!Done, Answer!vars, reportVars
<1> QED
  BY <1>1, FiltersConverted, ParentsProbed, DetailsFetched, DetailsFiltered, Summarizes, CellsFilled, RowsCount,
     GroupsCount, Answers, Written, ReportStays DEF Answer!Next, Answer!Step

-----------------------------------------------------------------------------
\* Reports: the rows of the details, of the summary and of the total, while nobody writes

Keys == {Answer!KeyOf(r) : r \in Answer!Readable(reportTable)}
LabelsOf(S) == {Answer!LabelOf(r) : r \in S}
Passing == Answer!Filtered(Answer!Readable(reportTable))
Before(S) == reportPc \in S

\* A preview that is not cut is shorter than it may be.
ShortDetails ==
  ~Answer!saved /\ ~Answer!paging /\ ~Answer!pending /\ ~truncated /\ ~Before({"convert", "probe", "details"})
    => Cardinality(details) < PREVIEW_LIMIT

\* Without a limit the parents are all there are; a preview without parents has rows without one alone.
ParentsAre ==
  Answer!probed /\ ~Before({"convert", "probe"}) =>
    /\ Answer!saved /\ req.limit = Null => reportParents = Keys \ {Null}
    /\ ~Answer!saved /\ reportParents = {} => Keys \subseteq {Null}

DetailsAre ==
  ~Answer!pending /\ ~Before({"convert", "probe", "details"}) =>
    details \subseteq scope /\ scope = (IF Answer!NoDetails THEN {} ELSE Chosen)

\* A preview that Python filters has read every row, or some parent has more than are kept.
AllRead ==
  Before({"filter"}) /\ ~Answer!saved /\ Answer!pending /\ fetched < Answer!FetchLimit /\ ~Answer!LaterPage =>
    details = Answer!Readable(reportTable) \/ (truncated /\ Answer!ManyOfOneParent)

AllFound ==
  ~Before({"convert", "probe", "details", "filter"}) /\ ~Answer!saved /\ Answer!pending =>
    /\ found \in Nat /\ Cardinality(details) <= found
    /\ fetched < Answer!FetchLimit /\ ~Answer!LaterPage =>
         found = Cardinality(Passing) \/ (truncated /\ Answer!ManyOfOneParent)

GroupsAreRows == \A g \in DOMAIN groups : groups[g] = {r \in Answer!Summarized : Answer!LabelOf(r) = g}

LabelsAre ==
  /\ DOMAIN groups \subseteq LabelsOf(Answer!Summarized)
  /\ Answer!saved /\ req.full /\ req.limit = Null /\ DOMAIN groups # {} => DOMAIN groups = LabelsOf(Answer!Summarized)

RowsInv ==
  /\ ShortDetails
  /\ Answer!quiet => ParentsAre /\ DetailsAre /\ AllRead /\ AllFound /\ GroupsAreRows /\ LabelsAre

LEMMA SameRows ==
  ASSUME UNCHANGED <<reportTable, req, ids, reportParents>>
  PROVE  /\ Keys' = Keys /\ Passing' = Passing /\ Chosen' = Chosen
         /\ Answer!NoDetails' = Answer!NoDetails /\ Answer!Summarized' = Answer!Summarized
         /\ LabelsOf(Answer!Summarized)' = LabelsOf(Answer!Summarized)
         /\ Answer!FetchLimit' = Answer!FetchLimit /\ Answer!LaterPage' = Answer!LaterPage
         /\ Answer!ManyOfOneParent' = Answer!ManyOfOneParent
         /\ \A r : Answer!LabelOf(r)' = Answer!LabelOf(r)
<1>1. Answer!ByParent' = Answer!ByParent
  BY SameView DEF Answer!ByParent
<1>2. Chosen' = Chosen /\ Answer!NoDetails' = Answer!NoDetails
  BY <1>1, SameView DEF Chosen, Answer!InParents, Answer!NoDetails
<1>3. Answer!Summarized' = Answer!Summarized
  BY SameView DEF Answer!Summarized, Answer!SavedSource, Answer!PreviewSource, Answer!InParents
<1>4. \A r : Answer!LabelOf(r)' = Answer!LabelOf(r)
  BY DEF Answer!LabelOf, Answer!KeyOf
<1>5. Answer!DetailLimit' = Answer!DetailLimit
  BY SameView DEF Answer!DetailLimit, Answer!SavedLimit, Answer!PreviewLimit
<1>6. Answer!FetchLimit' = Answer!FetchLimit /\ Answer!LaterPage' = Answer!LaterPage
  BY <1>5, SameView DEF Answer!FetchLimit, Answer!LaterPage
<1>7. Answer!ManyOfOneParent' = Answer!ManyOfOneParent
  BY SameView DEF Answer!ManyOfOneParent
<1>8. Keys' = Keys
  BY SameView DEF Keys
<1>9. LabelsOf(Answer!Summarized)' = LabelsOf(Answer!Summarized)
  BY <1>3, <1>4 DEF LabelsOf
<1>10. Passing' = Passing
  BY SameView DEF Passing, Answer!Filtered
<1> QED
  BY <1>2, <1>3, <1>4, <1>6, <1>7, <1>8, <1>9, <1>10

LEMMA RowsAtFirst == ASSUME Answer!Init PROVE RowsInv
BY DEF Answer!Init, Answer!NoGroups, RowsInv, ShortDetails, ParentsAre, DetailsAre, AllRead, AllFound, GroupsAreRows,
       LabelsAre, Before

\* A later step takes rows from the details and groups from the summary, or leaves them.
LEMMA RowsStay ==
  ASSUME ReportInv, RowsInv, UNCHANGED <<reportTable, req, ids, writes, reportParents, fetched, scope, found>>,
         ~Before({"convert", "probe", "details", "filter"}), ~Before({"convert", "probe", "details", "filter"})',
         details' \subseteq details, ~truncated' => ~truncated, truncated' \in BOOLEAN,
         Answer!quiet => GroupsAreRows' /\ LabelsAre'
  PROVE  RowsInv'
<1> USE DEF RowsInv
<1>1. Cardinality(details') <= Cardinality(details) /\ Cardinality(details) \in Nat /\ Cardinality(details') \in Nat
  BY RowSets, FS_Subset DEF ReportInv, ReportTyped
<1>2. ShortDetails'
  BY <1>1, SameView, CapsKnown DEF ShortDetails, Before, ReportInv, ReportTyped
<1>3. Answer!quiet => ParentsAre' /\ DetailsAre'
  BY SameView, SameRows DEF ParentsAre, DetailsAre, Before
<1>4. AllRead'
  BY DEF AllRead, Before
<1>5. Answer!quiet => AllFound'
  <2> SUFFICES ASSUME Answer!quiet, ~Answer!saved, Answer!pending
               PROVE  /\ found \in Nat /\ Cardinality(details') <= found
                      /\ fetched < Answer!FetchLimit /\ ~Answer!LaterPage =>
                           found = Cardinality(Passing) \/ (truncated' /\ Answer!ManyOfOneParent)
    BY SameView, SameRows DEF AllFound
  <2>1. /\ found \in Nat /\ Cardinality(details) <= found
        /\ fetched < Answer!FetchLimit /\ ~Answer!LaterPage =>
             found = Cardinality(Passing) \/ (truncated /\ Answer!ManyOfOneParent)
    BY DEF AllFound
  <2>2. truncated => truncated'
    OBVIOUS
  <2>3. Cardinality(details') <= found
    BY <1>1, <2>1
  <2> QED
    BY <2>1, <2>2, <2>3
<1> QED
  BY <1>2, <1>3, <1>4, <1>5 DEF Answer!quiet

LEMMA NoGroupsYet ==
  ASSUME DOMAIN groups' = {} PROVE GroupsAreRows' /\ LabelsAre'
BY DEF GroupsAreRows, LabelsAre

LEMMA RowsAtConvert == ASSUME ReportInv, RowsInv, Answer!ConvertFilters PROVE RowsInv'
<1>1. reportPc' = "probe" /\ groups' = groups /\ DOMAIN groups = {}
  BY DEF Answer!ConvertFilters, Answer!Goto, ReportInv, ReportPhases
<1>2. GroupsAreRows' /\ LabelsAre'
  BY <1>1, NoGroupsYet
<1> QED
  BY <1>1, <1>2 DEF RowsInv, ShortDetails, ParentsAre, DetailsAre, AllRead, AllFound, Before

LEMMA KeysKnown ==
  ASSUME ReportTyped
  PROVE  Keys \subseteq Answer!Key /\ IsFiniteSet(Keys) /\ Cardinality(Keys) \in Nat
<1>1. Keys \subseteq Answer!Key
  BY LabelsKnown DEF Keys
<1> QED
  BY <1>1, KeySets

\* A preview probes for more than one parent: if it finds none but NULL, there is none.
LEMMA RowsAtProbe == ASSUME ReportInv, RowsInv, Answer!ProbeParents PROVE RowsInv'
<1>1. reportPc' = "details" /\ DOMAIN groups' = {} /\ UNCHANGED <<reportTable, req, ids, writes>>
  BY DEF Answer!ProbeParents, Answer!Goto, ReportInv, ReportPhases
<1>2. GroupsAreRows' /\ LabelsAre'
  BY <1>1, NoGroupsYet
<1>3. ParentsAre'
  <2> SUFFICES ASSUME Answer!probed
               PROVE  /\ Answer!saved /\ req.limit = Null => reportParents' = Keys \ {Null}
                      /\ ~Answer!saved /\ reportParents' = {} => Keys \subseteq {Null}
    BY <1>1, SameView DEF ParentsAre, Keys
  <2> DEFINE limit == IF Answer!saved THEN req.limit ELSE PREVIEW_LIMIT
  <2>1. PICK page \in Answer!Page(Keys, limit, 0) : reportParents' = page \ {Null}
    BY DEF Answer!ProbeParents, Keys
  <2>2. limit \in Nat \cup {Null} /\ IsFiniteSet(Keys)
    BY RequestKnown, CapsKnown, KeysKnown DEF ReportInv, ReportTyped
  <2>3. /\ page \subseteq Keys /\ IsFiniteSet(page) /\ Cardinality(page) \in Nat
        /\ (limit # Null => Cardinality(page) < limit) => page = Keys
    <3> HIDE DEF limit
    <3> QED
      BY <2>2, PageFacts
  <2>4. Answer!saved /\ req.limit = Null => page = Keys
    BY <2>3
  <2>5. ~Answer!saved /\ reportParents' = {} => page = Keys
    <3> SUFFICES ASSUME ~Answer!saved, reportParents' = {} PROVE page = Keys
      OBVIOUS
    <3>1. page \subseteq {Null}
      BY <2>1, <3>1
    <3>2. Cardinality(page) <= 1
      <4>1. IsFiniteSet({Null}) /\ Cardinality({Null}) = 1
        BY FS_Singleton
      <4> QED
        BY <3>1, <4>1, FS_Subset
    <3> QED
      BY <2>3, <3>2, CapsKnown
  <2> QED
    BY <2>1, <2>4, <2>5
<1> QED
  BY <1>1, <1>2, <1>3 DEF RowsInv, ShortDetails, DetailsAre, AllRead, AllFound, Before

LEMMA RowsAtFetch == ASSUME ReportInv, RowsInv, Answer!FetchDetails PROVE RowsInv'
<1> USE DEF ReportInv
<1>1. UNCHANGED <<reportTable, req, ids, writes, reportParents, groups>> /\ reportPc = "details" /\ reportPc' = "filter"
      /\ DOMAIN groups' = {}
  BY DEF Answer!FetchDetails, Answer!Goto, ReportPhases
<1>2. GroupsAreRows' /\ LabelsAre' /\ AllFound'
  BY <1>1, NoGroupsYet DEF AllFound, Before
<1>3. Answer!quiet => ParentsAre'
  BY <1>1, SameView, SameRows DEF RowsInv, ParentsAre, Before
<1>4. req \in Requests /\ req.doffset \in Nat /\ Chosen \subseteq Row /\ IsFiniteSet(Chosen)
  BY RequestKnown, ChosenKnown DEF ReportTyped
<1>5. /\ ~Answer!saved /\ ~Answer!paging /\ ~Answer!pending /\ ~truncated' => Cardinality(details') < PREVIEW_LIMIT
      /\ details' \subseteq scope' /\ scope' = (IF Answer!NoDetails THEN {} ELSE Chosen)
      /\ ~Answer!saved /\ Answer!pending /\ fetched' < Answer!FetchLimit /\ ~Answer!LaterPage =>
           details' = Answer!Readable(reportTable) \/ (truncated' /\ Answer!ManyOfOneParent)
  <2>1. CASE Answer!NoDetails /\ details' = {} /\ scope' = {} /\ UNCHANGED <<fetched, truncated>>
    <3>1. Cardinality(details') = 0
      BY <2>1, FS_EmptySet
    <3>2. ~(~Answer!saved /\ Answer!pending)
      BY <2>1 DEF Answer!NoDetails, Answer!ByParent
    <3> QED
      BY <2>1, <3>1, <3>2, CapsKnown
  <2>2. ASSUME NEW page \in Answer!Page(Chosen, Answer!FetchLimit, req.doffset), ~Answer!NoDetails,
               details' \in (IF Answer!probed /\ ~Answer!paging THEN Answer!CapPerParent(page) ELSE {page}),
               scope' = Chosen, fetched' = Cardinality(page),
               truncated' = (details' # page
                 \/ (Answer!Reached(Cardinality(details'), Answer!DetailLimit) /\ (Answer!saved \/ ~Answer!paging)))
        PROVE  /\ ~Answer!saved /\ ~Answer!paging /\ ~Answer!pending /\ ~truncated' => Cardinality(details') < PREVIEW_LIMIT
               /\ details' \subseteq scope' /\ scope' = (IF Answer!NoDetails THEN {} ELSE Chosen)
               /\ ~Answer!saved /\ Answer!pending /\ fetched' < Answer!FetchLimit /\ ~Answer!LaterPage =>
                    details' = Answer!Readable(reportTable) \/ (truncated' /\ Answer!ManyOfOneParent)
    <3>1. Answer!FetchLimit \in Nat \cup {Null}
      BY <1>4, LimitsKnown
    <3>2. /\ page \subseteq Chosen /\ Cardinality(page) \in Nat
          /\ req.doffset = 0 /\ (Answer!FetchLimit # Null => Cardinality(page) < Answer!FetchLimit) => page = Chosen
      BY <1>4, <3>1, PageFacts
    <3>3. page \in SUBSET Row
      BY <1>4, <3>2
    <3>4. details' \subseteq page
      BY <2>2, <3>3, CapFacts
    <3>5. ASSUME ~Answer!saved, ~Answer!paging, ~Answer!pending, ~truncated'
          PROVE  Cardinality(details') < PREVIEW_LIMIT
      <4>1. Answer!DetailLimit = PREVIEW_LIMIT
        BY <3>5 DEF Answer!DetailLimit, Answer!PreviewLimit
      <4>2. details' = page
        BY <2>2, <3>5
      <4> QED
        <5>1. ~Answer!Reached(Cardinality(details'), Answer!DetailLimit)
          BY <2>2, <3>5
        <5>2. PREVIEW_LIMIT # Null /\ PREVIEW_LIMIT \in Nat /\ Cardinality(details') \in Nat
          BY <3>2, <4>2, CapsKnown, RowsKnown
        <5> QED
          BY <4>1, <5>1, <5>2 DEF Answer!Reached
    <3>6. ASSUME ~Answer!saved, Answer!pending, fetched' < Answer!FetchLimit, ~Answer!LaterPage
          PROVE  details' = Answer!Readable(reportTable) \/ (truncated' /\ Answer!ManyOfOneParent)
      <4>1. req.doffset = 0
        BY <3>6, <1>4, RequestKnown DEF Answer!LaterPage, Answer!paging
      <4>2. Chosen = Answer!Readable(reportTable)
        BY <3>6 DEF Chosen, Answer!ByParent
      <4>3. page = Chosen
        BY <2>2, <3>2, <3>6, <4>1
      <4>4. CASE details' = page
        BY <4>2, <4>3, <4>4
      <4>5. CASE details' # page
        <5>1. Answer!probed /\ ~Answer!paging /\ details' \in Answer!CapPerParent(page)
          BY <2>2, <4>5
        <5>2. PICK k \in Answer!Key :
                ~(Cardinality({r \in page : Answer!KeyOf(r) = k}) <= REPORT_MAX_CHILDREN_PER_PARENT)
          BY <3>3, <4>5, <5>1, CapFacts
        <5>3. Cardinality({r \in page : Answer!KeyOf(r) = k}) \in Nat
          BY <3>3, RowSets
        <5>4. Cardinality({r \in page : Answer!KeyOf(r) = k}) > REPORT_MAX_CHILDREN_PER_PARENT
          BY <5>2, <5>3, CapsKnown
        <5>5. Answer!ManyOfOneParent
          BY <4>2, <4>3, <5>1, <5>4, RowsCounted DEF Answer!ManyOfOneParent
        <5> QED
          BY <2>2, <4>5, <5>5
      <4> QED
        BY <4>4, <4>5
    <3> QED
      BY <2>2, <3>2, <3>4, <3>5, <3>6
  <2> QED
    BY <2>1, <2>2, Fetched
<1>6. ShortDetails'
  BY <1>1, <1>5, SameView DEF ShortDetails
<1>7. DetailsAre'
  BY <1>1, <1>5, SameView, SameRows DEF DetailsAre
<1>8. AllRead'
  BY <1>1, <1>5, SameView, SameRows DEF AllRead
<1> QED
  BY <1>1, <1>2, <1>3, <1>6, <1>7, <1>8 DEF RowsInv, Answer!quiet

LEMMA RowsAtFilter == ASSUME ReportInv, RowsInv, Answer!FilterDetails PROVE RowsInv'
<1> USE DEF ReportInv
<1>1. UNCHANGED <<reportTable, req, ids, writes, reportParents, groups, fetched>> /\ reportPc = "filter" /\ reportPc' = "summary"
      /\ DOMAIN groups' = {} /\ scope' = Answer!Filtered(scope)
  BY DEF Answer!FilterDetails, Answer!Goto, ReportPhases
<1>2. GroupsAreRows' /\ LabelsAre' /\ AllRead'
  BY <1>1, NoGroupsYet DEF AllRead, Before
<1>3. Answer!quiet => ParentsAre'
  BY <1>1, SameView, SameRows DEF RowsInv, ParentsAre, Before
<1>4. ~Answer!pending => details' = details /\ scope' = scope /\ truncated' = truncated
  BY <1>1 DEF Answer!FilterDetails, Answer!Filtered
<1>5. ShortDetails' /\ (Answer!quiet => DetailsAre')
  BY <1>1, <1>4, SameView, SameRows DEF RowsInv, ShortDetails, DetailsAre, Before
<1>6. Answer!quiet => AllFound'
  <2> SUFFICES ASSUME Answer!quiet, ~Answer!saved, Answer!pending
               PROVE  /\ found' \in Nat /\ Cardinality(details') <= found'
                      /\ fetched < Answer!FetchLimit /\ ~Answer!LaterPage =>
                           found' = Cardinality(Passing) \/ (truncated' /\ Answer!ManyOfOneParent)
    BY <1>1, SameView, SameRows DEF AllFound
  <2>1. /\ details' \in Answer!Page(Answer!Filtered(details), Answer!DetailLimit, 0)
        /\ found' = Cardinality(Answer!Filtered(details))
        /\ truncated' = (truncated \/ details' # Answer!Filtered(details))
    BY RowsCounted DEF Answer!FilterDetails, Answer!TrimPreview
  <2>2. Answer!Filtered(details) \subseteq Row
    BY FilteredPart DEF ReportTyped
  <2>3. IsFiniteSet(Answer!Filtered(details)) /\ found' \in Nat
    BY <2>1, <2>2, RowSets
  <2>4. Cardinality(details') <= found'
    BY <2>1, <2>3, FS_Subset DEF Answer!Page
  <2>5. fetched < Answer!FetchLimit /\ ~Answer!LaterPage =>
          details = Answer!Readable(reportTable) \/ (truncated /\ Answer!ManyOfOneParent)
    BY <1>1 DEF RowsInv, AllRead, Before
  <2>6. details = Answer!Readable(reportTable) => found' = Cardinality(Passing)
    BY <2>1 DEF Passing
  <2>7. truncated => truncated'
    BY <2>1
  <2> QED
    BY <2>3, <2>4, <2>5, <2>6, <2>7
<1> QED
  BY <1>1, <1>2, <1>3, <1>5, <1>6 DEF RowsInv, Answer!quiet

LEMMA RowsAtSummary == ASSUME ReportInv, RowsInv, Answer!Summarize PROVE RowsInv'
<1>1. UNCHANGED <<reportTable, writes, req, ids, reportParents, fetched, details, scope, truncated, found>>
      /\ reportPc = "summary" /\ reportPc' = "cells" /\ DOMAIN groups = {} /\ truncated \in BOOLEAN
  BY DEF Answer!Summarize, Answer!Goto, ReportInv, ReportPhases, ReportTyped
<1>2. GroupsAreRows' /\ LabelsAre'
  <2>1. CASE groups' = groups
    BY <1>1, <2>1, NoGroupsYet
  <2>2. ASSUME NEW page \in Answer!Page({Answer!LabelOf(r) : r \in Answer!Summarized}, Answer!SummaryLimit, 0),
               groups' = [g \in page |-> {r \in Answer!Summarized : Answer!LabelOf(r) = g}]
        PROVE  GroupsAreRows' /\ LabelsAre'
    <3>1. DOMAIN groups' = page /\ page \subseteq LabelsOf(Answer!Summarized)
      BY <2>2 DEF Answer!Page, LabelsOf
    <3>2. GroupsAreRows'
      <4>1. \A g \in page : groups'[g] = {r \in Answer!Summarized : Answer!LabelOf(r) = g}
        BY <2>2
      <4> QED
        BY <1>1, <3>1, <4>1, SameRows DEF GroupsAreRows
    <3>3. Answer!saved /\ req.full /\ req.limit = Null => page = LabelsOf(Answer!Summarized)
      <4> SUFFICES ASSUME Answer!saved, req.full, req.limit = Null PROVE page = LabelsOf(Answer!Summarized)
        OBVIOUS
      <4>1. Answer!SummaryLimit = Null
        BY DEF Answer!SummaryLimit
      <4>2. LabelsOf(Answer!Summarized) \subseteq Answer!Key
        BY LabelsKnown DEF LabelsOf, ReportInv
      <4>3. IsFiniteSet(LabelsOf(Answer!Summarized)) /\ page \in Answer!Page(LabelsOf(Answer!Summarized), Null, 0)
        BY <4>1, <4>2, KeySets DEF LabelsOf
      <4> QED
        BY <4>3, PageFacts
    <3> QED
      BY <1>1, <3>1, <3>2, <3>3, SameView, SameRows DEF LabelsAre
  <2> QED
    BY <2>1, <2>2, SummaryIs
<1> QED
  BY <1>1, <1>2, RowsStay DEF Before

LEMMA GroupsStay ==
  ASSUME RowsInv, UNCHANGED <<reportTable, req, ids, reportParents, groups>>
  PROVE  Answer!quiet => GroupsAreRows' /\ LabelsAre'
BY SameView, SameRows DEF RowsInv, GroupsAreRows, LabelsAre

LEMMA RowsLater ==
  ASSUME ReportInv, RowsInv, Answer!FillCells \/ Answer!CountRows \/ Answer!CountGroups
  PROVE  RowsInv'
<1>1. UNCHANGED <<reportTable, writes, req, ids, reportParents, fetched, details, scope, groups, found>>
      /\ reportPc \in {"cells", "count", "groups"} /\ reportPc' \in {"count", "groups", "answer"}
  BY DEF Answer!FillCells, Answer!CountRows, Answer!CountGroups, Answer!Goto
<1>2. truncated \in BOOLEAN
  BY DEF ReportInv, ReportTyped
<1>3. truncated' \in BOOLEAN
  BY CellsFilled, RowsCount, GroupsCount DEF ReportInv, ReportTyped
<1>4. truncated => truncated'
  <2>1. CASE Answer!FillCells
    BY <2>1, <1>2 DEF Answer!FillCells, Answer!SavedCells, Answer!PreviewCells
  <2>2. CASE Answer!CountRows
    BY <2>2, <1>2 DEF Answer!CountRows, Answer!SavedTotal, Answer!PreviewTotal
  <2>3. CASE Answer!CountGroups
    BY <2>3 DEF Answer!CountGroups
  <2> QED
    BY <2>1, <2>2, <2>3
<1> QED
  BY <1>1, <1>2, <1>3, <1>4, GroupsStay, RowsStay DEF Before

LEMMA RowsAtAnswer == ASSUME ReportInv, RowsInv, Answer!Answer PROVE RowsInv'
<1>1. UNCHANGED <<reportTable, writes, req, ids, reportParents, fetched, scope, found>>
      /\ reportPc = "answer" /\ reportPc' = "done" /\ truncated \in BOOLEAN
  BY DEF Answer!Answer, Answer!Goto, ReportInv, ReportTyped
<1>2. Answer!quiet => GroupsAreRows'
  BY <1>1, LastCap, SameRows DEF RowsInv, GroupsAreRows
<1>3. Answer!quiet => LabelsAre'
  <2>1. Answer!saved => DOMAIN groups' = DOMAIN groups
    BY DEF Answer!Answer
  <2> QED
    BY <1>1, <2>1, LastCap, SameView, SameRows DEF RowsInv, LabelsAre
<1> QED
  BY <1>1, <1>2, <1>3, LastCap, RowsStay DEF Before

LEMMA RowsWritten == ASSUME ReportInv, RowsInv, Answer!Write PROVE RowsInv'
<1>1. UNCHANGED <<req, reportPc, ids, details, truncated>> /\ ~Answer!quiet'
  BY Written DEF Answer!Write
<1> QED
  BY <1>1 DEF RowsInv, ShortDetails, Before, Answer!saved, Answer!paging, Answer!pending

LEMMA RowsUnmoved == ASSUME ReportInv, RowsInv, UNCHANGED reportVars PROVE RowsInv'
<1> USE DEF reportVars, RowsInv
<1>1. ShortDetails'
  BY SameView DEF ShortDetails, Before
<1>2. Answer!quiet => ParentsAre' /\ DetailsAre' /\ AllRead' /\ AllFound'
  BY SameView, SameRows DEF ParentsAre, DetailsAre, AllRead, AllFound, Before
<1>3. Answer!quiet => GroupsAreRows' /\ LabelsAre'
  BY GroupsStay
<1> QED
  BY <1>1, <1>2, <1>3 DEF Answer!quiet

LEMMA RowsKept == ASSUME ReportInv, RowsInv, [Answer!Next]_reportVars PROVE RowsInv'
<1>1. Answer!Done => UNCHANGED reportVars
  BY DEF Answer!Done, Answer!vars, reportVars
<1> QED
  BY <1>1, RowsAtConvert, RowsAtProbe, RowsAtFetch, RowsAtFilter, RowsAtSummary, RowsLater, RowsAtAnswer, RowsWritten,
     RowsUnmoved DEF Answer!Next, Answer!Step

-----------------------------------------------------------------------------
\* Reports: cells and totals

LEMMA WholeIfFew ==
  ASSUME NEW S \in SUBSET Row, NEW n \in Nat, NEW T \in Answer!Page(S, n, 0), Cardinality(S) <= n \/ Cardinality(T) < n
  PROVE  T = S
<1>1. IsFiniteSet(S) /\ Cardinality(S) \in Nat
  BY RowSets
<1>2. /\ T \subseteq S /\ IsFiniteSet(T) /\ Cardinality(T) \in Nat /\ Cardinality(T) <= Cardinality(S)
      /\ (Cardinality(T) < n => T = S) /\ (Cardinality(T) # Cardinality(S) => Cardinality(T) = n)
  BY <1>1, PageFacts, RowsKnown
<1>3. Cardinality(T) = Cardinality(S) => T = S
  BY <1>1, <1>2, FS_Subset
<1> QED
  BY <1>1, <1>2, <1>3

\* A row with a label has a key.
LEMMA LabelledHasKey ==
  ASSUME NEW r \in Row, Answer!LabelOf(r) # Null PROVE Answer!KeyOf(r) # Null
BY RowsKnown DEF Answer!LabelOf

\* What a preview reads for its cells is what it counted.
LEMMA PreviewCellsAre ==
  ASSUME ReportInv, RowsInv, Answer!FillCells, ~Answer!saved, Answer!quiet, ~Answer!pending, ~truncated',
         Answer!paging => Cardinality(Answer!Readable(reportTable)) <= REPORT_MAX_DETAIL_ROWS,
         NEW g \in DOMAIN groups, g # Null
  PROVE  cells'[g] = groups[g]
<1>1. reportPc = "cells" /\ ParentsAre /\ DetailsAre /\ LabelsAre /\ GroupsAreRows /\ ShortDetails
  BY DEF RowsInv, Answer!FillCells, Answer!Goto
<1>2. PICK page \in Answer!Page(Answer!PreviewSource, REPORT_MAX_DETAIL_ROWS, 0) :
        cells' = Answer!Bucket(page) /\ truncated' = truncated
  BY DEF Answer!FillCells, Answer!PreviewCells
<1>3. Answer!Summarized = Answer!PreviewSource /\ Answer!PreviewSource \subseteq Answer!Readable(reportTable)
      /\ Answer!Readable(reportTable) \subseteq Row
  BY LabelsKnown DEF ReportInv, Answer!Summarized
<1>4. Cardinality(Answer!PreviewSource) <= REPORT_MAX_DETAIL_ROWS
  <2>1. CASE Answer!paging
    <3>1. Cardinality(Answer!PreviewSource) <= Cardinality(Answer!Readable(reportTable))
      BY <1>3, RowSets, FS_Subset
    <3>2. Cardinality(Answer!PreviewSource) \in Nat /\ Cardinality(Answer!Readable(reportTable)) \in Nat
      BY <1>3, RowSets
    <3> QED
      BY <2>1, <3>1, <3>2, CapsKnown
  <2>2. CASE ~Answer!paging
    <3>1. scope \subseteq details /\ Cardinality(details) < PREVIEW_LIMIT /\ details \subseteq Row
      BY <1>1, <1>2, <2>2 DEF ReportInv, ReportTyped, Answer!LeftOutIsTold, ShortDetails, Before
    <3>2. scope = (IF Answer!NoDetails THEN {} ELSE Chosen)
      BY <1>1 DEF DetailsAre, Before
    <3>3. Answer!ByParent <=> Answer!probed
      BY <2>2 DEF Answer!ByParent
    <3>4. ~(Answer!probed /\ reportParents = {})
      <4>1. SUFFICES ASSUME Answer!probed, reportParents = {} PROVE FALSE
        OBVIOUS
      <4>2. Keys \subseteq {Null}
        BY <1>1, <4>1 DEF ParentsAre, Before
      <4>3. PICK r \in Answer!Summarized : Answer!LabelOf(r) = g
        BY <1>1 DEF LabelsAre, LabelsOf
      <4>4. r \in Row /\ r \in Answer!Readable(reportTable)
        BY <1>3, <4>3
      <4>5. Answer!KeyOf(r) # Null
        BY <4>3, <4>4, LabelledHasKey
      <4>6. Answer!KeyOf(r) \in Keys
        BY <4>4 DEF Keys
      <4> QED
        BY <4>2, <4>5, <4>6
    <3>5. ~Answer!NoDetails
      BY <3>3, <3>4 DEF Answer!NoDetails
    <3>6. Chosen = Answer!PreviewSource
      BY <3>3, <3>4 DEF Chosen, Answer!PreviewSource, ReportInv, ReportPhases
    <3>7. Answer!PreviewSource \subseteq details
      BY <3>1, <3>2, <3>5, <3>6
    <3>8. Cardinality(Answer!PreviewSource) <= Cardinality(details) /\ Cardinality(Answer!PreviewSource) \in Nat
          /\ Cardinality(details) \in Nat
      BY <1>3, <3>1, <3>7, RowSets, FS_Subset
    <3> QED
      BY <3>1, <3>8, CapsKnown
  <2> QED
    BY <2>1, <2>2
<1>5. page = Answer!PreviewSource
  BY <1>3, <1>4, CapsKnown, WholeIfFew
<1>6. cells'[g] = {r \in Answer!PreviewSource : Answer!LabelOf(r) = g}
  BY <1>2, <1>5 DEF Answer!Bucket
<1> QED
  BY <1>1, <1>3, <1>6 DEF GroupsAreRows

\* A saved report takes its cells from the details, or reads the rows of its groups again.
LEMMA SavedCellsAre ==
  ASSUME ReportInv, RowsInv, Answer!FillCells, Answer!saved, Answer!quiet, ~Answer!pending, ~truncated',
         req.full => Answer!paging /\ (req.group = "date" => req.limit = Null),
         NEW g \in DOMAIN groups, g # Null
  PROVE  cells'[g] = groups[g]
<1>1. reportPc = "cells" /\ ParentsAre /\ DetailsAre /\ LabelsAre /\ GroupsAreRows /\ Answer!SavedCells
  BY DEF RowsInv, Answer!FillCells, Answer!Goto
<1>2. groups[g] = {r \in Answer!SavedSource : Answer!LabelOf(r) = g}
  BY <1>1 DEF GroupsAreRows, Answer!Summarized
<1>3. Answer!Readable(reportTable) \subseteq Row
  BY LabelsKnown DEF ReportInv
<1>4. CASE ~Answer!paging /\ reportParents # {} /\ details # {}
  <2>1. cells' = Answer!Bucket(details) /\ ~truncated
    BY <1>1, <1>4 DEF Answer!SavedCells
  <2>2. details \subseteq scope /\ scope = (IF Answer!NoDetails THEN {} ELSE Chosen)
    BY <1>1 DEF DetailsAre, Before
  <2>3. scope \subseteq details
    BY <1>1, <1>4, <2>1 DEF ReportInv, Answer!LeftOutIsTold
  <2>4. scope = Chosen
    BY <1>4, <2>2
  <2>5. Answer!ByParent /\ ~req.full
    BY <1>4 DEF Answer!ByParent, ReportInv, ReportPhases
  <2>6. details = Answer!SavedSource
    BY <1>4, <2>2, <2>3, <2>4, <2>5 DEF Chosen, Answer!SavedSource
  <2>7. cells'[g] = {r \in details : Answer!LabelOf(r) = g}
    BY <2>1 DEF Answer!Bucket
  <2> QED
    BY <1>2, <2>6, <2>7
<1>5. CASE ~(~Answer!paging /\ reportParents # {} /\ details # {})
  <2>1. PICK page \in Answer!Page(Answer!Refetch, COMPUTED_AGG_REFETCH_CAP, 0) :
          cells' = Answer!Bucket(Answer!Filtered(page))
          /\ truncated' = (truncated \/ Cardinality(page) >= COMPUTED_AGG_REFETCH_CAP)
    BY <1>1, <1>5, RowsCounted DEF Answer!SavedCells
  <2>2. Answer!Refetch \subseteq Row /\ Answer!Refetch \subseteq Answer!Readable(reportTable)
    BY <1>3 DEF Answer!Refetch, Answer!InParents
  <2>3. page \subseteq Row
    BY <2>2 DEF Answer!Page
  <2>4. page = Answer!Refetch
    <3>1. Cardinality(page) \in Nat
      BY <2>3, RowSets
    <3>2. Cardinality(page) < COMPUTED_AGG_REFETCH_CAP
      <4>1. ~(Cardinality(page) >= COMPUTED_AGG_REFETCH_CAP)
        BY <2>1
      <4> QED
        BY <3>1, <4>1, CapsKnown
    <3> QED
      BY <2>2, <3>2, CapsKnown, WholeIfFew
  <2>5. Answer!Filtered(page) = page
    BY DEF Answer!Filtered
  <2>6. cells'[g] = {r \in Answer!Refetch : Answer!LabelOf(r) = g}
    BY <2>1, <2>4, <2>5 DEF Answer!Bucket
  <2>7. CASE ~req.full
    <3>1. Answer!Refetch = Answer!SavedSource
      BY <2>7 DEF Answer!Refetch, Answer!SavedSource
    <3> QED
      BY <1>2, <2>6, <3>1
  <2>8. CASE req.full /\ req.group # "date"
    <3>1. g \in DOMAIN groups \ {Null}
      OBVIOUS
    <3>2. Answer!Refetch = {r \in Answer!Readable(reportTable) : Answer!LabelOf(r) \in DOMAIN groups \ {Null}}
      BY <2>8, <3>1 DEF Answer!Refetch
    <3>3. Answer!SavedSource = Answer!Readable(reportTable)
      BY <2>8 DEF Answer!SavedSource
    <3> QED
      BY <1>2, <2>6, <3>1, <3>2, <3>3
  <2>9. CASE req.full /\ req.group = "date"
    <3>1. Answer!SavedSource = Answer!Readable(reportTable) /\ Answer!probed
      BY <2>9 DEF Answer!SavedSource, Answer!probed, Answer!grouped
    <3>2. reportParents = Keys \ {Null}
      BY <1>1, <2>9, <3>1 DEF ParentsAre, Before
    <3>3. Answer!Refetch = IF reportParents # {} THEN Answer!InParents(Answer!Readable(reportTable))
                           ELSE Answer!Readable(reportTable)
      BY <2>9 DEF Answer!Refetch
    <3>4. ASSUME NEW r \in Answer!Readable(reportTable), Answer!LabelOf(r) = g PROVE r \in Answer!Refetch
      <4>1. Answer!KeyOf(r) # Null
        BY <1>3, <3>4, LabelledHasKey
      <4>2. Answer!KeyOf(r) \in reportParents
        BY <3>2, <4>1 DEF Keys
      <4> QED
        BY <3>3, <4>2 DEF Answer!InParents
    <3> QED
      BY <1>2, <2>2, <2>6, <3>1, <3>4
  <2> QED
    BY <2>7, <2>8, <2>9
<1> QED
  BY <1>4, <1>5

LEMMA CellsAtFirst == ASSUME Answer!Init PROVE Answer!CellsAgree
BY DEF Answer!Init, Answer!CellsAgree

LEMMA CellsKept == ASSUME ReportInv, RowsInv, Answer!CellsAgree, [Answer!Next]_reportVars PROVE Answer!CellsAgree'
<1>1. CASE Answer!FillCells
  <2>1. UNCHANGED <<reportTable, writes, req, ids, reportParents, groups>>
    BY <1>1 DEF Answer!FillCells
  <2> QED
    BY <1>1, <2>1, PreviewCellsAre, SavedCellsAre, SameView, RowsCounted DEF Answer!CellsAgree, Answer!quiet
<1>2. CASE Answer!CountRows \/ Answer!CountGroups
  <2>1. UNCHANGED <<reportTable, writes, req, ids, groups, cells>> /\ reportPc \in {"count", "groups"}
    BY <1>2 DEF Answer!CountRows, Answer!CountGroups, Answer!Goto
  <2>2. truncated => truncated'
    BY <1>2 DEF Answer!CountRows, Answer!CountGroups, Answer!SavedTotal, Answer!PreviewTotal
  <2> QED
    BY <2>1, <2>2, SameView DEF Answer!CellsAgree, Answer!quiet
<1>3. CASE Answer!Answer
  <2>1. UNCHANGED <<reportTable, writes, req, ids>> /\ reportPc = "answer"
    BY <1>3 DEF Answer!Answer, Answer!Goto
  <2> QED
    BY <1>3, <2>1, LastCap, SameView DEF Answer!CellsAgree, Answer!quiet
<1>4. CASE Answer!Write
  BY <1>4, Written DEF Answer!CellsAgree
<1>5. CASE UNCHANGED reportVars
  BY <1>5, SameView DEF Answer!CellsAgree, Answer!quiet, reportVars
<1>6. CASE Answer!ConvertFilters \/ Answer!ProbeParents \/ Answer!FetchDetails \/ Answer!FilterDetails \/ Answer!Summarize
  <2>1. reportPc' \notin {"count", "groups", "answer", "done"}
    BY <1>6 DEF Answer!ConvertFilters, Answer!ProbeParents, Answer!FetchDetails, Answer!FilterDetails, Answer!Summarize,
                Answer!Goto
  <2> QED
    BY <2>1 DEF Answer!CellsAgree
<1>7. Answer!Done => UNCHANGED reportVars
  BY DEF Answer!Done, Answer!vars, reportVars
<1> QED
  BY <1>1, <1>2, <1>3, <1>4, <1>5, <1>6, <1>7 DEF Answer!Next, Answer!Step

\* The total counts at least the rows shown.
TotalsAre ==
  Answer!quiet /\ reportTotal # Null /\ ~(Answer!saved /\ Answer!pending /\ req.limit # Null) =>
    /\ reportTotal \in Nat /\ Cardinality(details) <= reportTotal
    /\ ~Answer!saved /\ Answer!pending =>
         \/ reportTotal = Cardinality(Passing)
         \/ truncated /\ (fetched >= Answer!FetchLimit \/ Answer!ManyOfOneParent)

\* Only what is left to Python has no count from SQL.
CountedIs ==
  Before({"groups"}) /\ Answer!saved /\ ~Answer!NoCount /\ ~Answer!pending => reportTotal # Null

TotalInv == TotalsAre /\ CountedIs

LEMMA TotalAtFirst == ASSUME Answer!Init PROVE TotalInv
BY DEF Answer!Init, TotalInv, TotalsAre, CountedIs, Before

LEMMA CountsAll ==
  ASSUME ReportInv, Answer!quiet
  PROVE  Answer!Counts \in Nat /\ Cardinality(details) <= Answer!Counts
<1> DEFINE S == IF req.direct THEN Answer!Where(reportTable) ELSE Answer!Readable(reportTable)
<1>1. S \subseteq Row /\ details \subseteq S
  BY LabelsKnown DEF ReportInv, StillRead, Answer!Readable
<1>2. IsFiniteSet(S) /\ Cardinality(S) \in Nat /\ Cardinality(details) <= Cardinality(S)
  BY <1>1, RowSets, FS_Subset
<1>3. Answer!Counts = Cardinality(S)
  BY RowsCounted DEF Answer!Counts
<1> QED
  BY <1>2, <1>3

LEMMA TotalAtCount == ASSUME ReportInv, RowsInv, TotalInv, Answer!CountRows PROVE TotalInv'
<1>1. UNCHANGED <<reportTable, req, ids, reportParents, writes, fetched, details, found>> /\ reportPc = "count"
      /\ reportPc' = "groups" /\ reportTotal = Null
  BY DEF Answer!CountRows, Answer!Goto, ReportInv, ReportPhases
<1>2. Answer!NoCount' = Answer!NoCount
  BY <1>1, SameView, SameRows DEF Answer!NoCount
<1>3. CountedIs'
  <2> SUFFICES ASSUME Answer!saved, ~Answer!NoCount, ~Answer!pending PROVE reportTotal' # Null
    BY <1>1, <1>2, SameView DEF CountedIs
  <2>1. reportTotal' = Answer!Counts
    BY DEF Answer!CountRows, Answer!SavedTotal
  <2>2. Answer!Counts \in Nat
    BY RowSets, RowsCounted, LabelsKnown DEF ReportInv, Answer!Counts
  <2> QED
    BY <2>1, <2>2, RowsKnown
<1>4. TotalsAre'
  <2> SUFFICES ASSUME Answer!quiet, reportTotal' # Null, ~(Answer!saved /\ Answer!pending /\ req.limit # Null)
               PROVE  /\ reportTotal' \in Nat /\ Cardinality(details) <= reportTotal'
                      /\ ~Answer!saved /\ Answer!pending =>
                           \/ reportTotal' = Cardinality(Passing)
                           \/ truncated' /\ (fetched >= Answer!FetchLimit \/ Answer!ManyOfOneParent)
    BY <1>1, SameView, SameRows DEF TotalsAre, Answer!quiet
  <2>1. ~Answer!NoCount
    BY <1>1 DEF Answer!CountRows
  <2>2. CASE ~Answer!pending
    BY <2>1, <2>2, CountsAll DEF Answer!CountRows, Answer!SavedTotal, Answer!PreviewTotal
  <2>3. CASE Answer!pending /\ Answer!saved
    BY <2>1, <2>3 DEF Answer!CountRows, Answer!SavedTotal
  <2>4. CASE Answer!pending /\ ~Answer!saved
    <3>1. reportTotal' = found /\ truncated' = (truncated \/ fetched >= Answer!FetchLimit)
      BY <2>1, <2>4 DEF Answer!CountRows, Answer!PreviewTotal
    <3>2. /\ found \in Nat /\ Cardinality(details) <= found
          /\ fetched < Answer!FetchLimit /\ ~Answer!LaterPage =>
               found = Cardinality(Passing) \/ (truncated /\ Answer!ManyOfOneParent)
      BY <1>1, <2>4 DEF RowsInv, AllFound, Before
    <3>3. ~Answer!LaterPage
      BY <2>1 DEF Answer!NoCount
    <3>4. fetched < Answer!FetchLimit \/ fetched >= Answer!FetchLimit
      <4>1. req \in Requests /\ fetched \in Nat
        BY DEF ReportInv, ReportTyped
      <4>2. Answer!FetchLimit \in Nat
        BY <2>4, <4>1, LimitsKnown
      <4> QED
        BY <4>1, <4>2
    <3>5. CASE fetched >= Answer!FetchLimit
      BY <2>4, <3>1, <3>2, <3>5
    <3>6. CASE fetched < Answer!FetchLimit
      BY <2>4, <3>1, <3>2, <3>3, <3>6
    <3> QED
      BY <3>4, <3>5, <3>6
  <2> QED
    BY <2>2, <2>3, <2>4
<1> QED
  BY <1>3, <1>4 DEF TotalInv

\* The groups of a full summary without a limit have every row.
LEMMA SummaryHasAll ==
  ASSUME ReportInv, RowsInv, Answer!quiet, Answer!saved, req.full, req.limit = Null, DOMAIN groups # {}
  PROVE  /\ Cardinality(UNION {groups[g] : g \in DOMAIN groups}) \in Nat
         /\ Cardinality(details) <= Cardinality(UNION {groups[g] : g \in DOMAIN groups})
<1> DEFINE all == UNION {groups[g] : g \in DOMAIN groups}
<1>1. all \subseteq Row
  BY DEF ReportInv, ReportTyped
<1>2. Answer!Summarized = Answer!Readable(reportTable) /\ details \subseteq Answer!Readable(reportTable)
  BY DEF Answer!Summarized, Answer!SavedSource, ReportInv, StillRead
<1>3. ASSUME NEW r \in details PROVE r \in all
  <2>1. r \in Answer!Summarized
    BY <1>2
  <2>2. Answer!LabelOf(r) \in DOMAIN groups
    BY <2>1 DEF RowsInv, LabelsAre, LabelsOf
  <2>3. r \in groups[Answer!LabelOf(r)]
    BY <2>1, <2>2 DEF RowsInv, GroupsAreRows
  <2> QED
    BY <2>2, <2>3
<1>4. IsFiniteSet(all) /\ Cardinality(all) \in Nat
  <2> HIDE DEF all
  <2> QED
    BY <1>1, RowSets
<1>5. details \subseteq all
  BY <1>3
<1> HIDE DEF all
<1>6. Cardinality(details) <= Cardinality(all)
  BY <1>4, <1>5, FS_Subset
<1> QED
  BY <1>4, <1>6 DEF all

LEMMA TotalAtGroups == ASSUME ReportInv, RowsInv, TotalInv, Answer!CountGroups PROVE TotalInv'
<1>1. UNCHANGED <<reportTable, req, ids, reportParents, writes, fetched, details, found, truncated, groups>>
      /\ reportPc = "groups" /\ reportPc' = "answer"
  BY DEF Answer!CountGroups, Answer!Goto
<1>2. CASE reportTotal' = reportTotal
  BY <1>1, <1>2, SameView, SameRows DEF TotalInv, TotalsAre, CountedIs, Before, Answer!quiet
<1>3. CASE reportTotal' # reportTotal
  <2>1. Answer!saved /\ ~Answer!NoCount /\ req.full /\ reportTotal = Null /\ DOMAIN groups # {}
        /\ reportTotal' = Cardinality(UNION {groups[g] : g \in DOMAIN groups})
    BY <1>3, RowsCounted DEF Answer!CountGroups, Answer!SavedGroupTotal, Answer!PreviewGroupTotal
  <2>2. Answer!pending
    BY <1>1, <2>1 DEF TotalInv, CountedIs, Before
  <2>3. TotalsAre'
    <3> SUFFICES ASSUME Answer!quiet, req.limit = Null
                 PROVE  reportTotal' \in Nat /\ Cardinality(details) <= reportTotal'
      BY <1>1, <2>1, <2>2, SameView DEF TotalsAre, Answer!quiet
    <3> QED
      BY <2>1, SummaryHasAll
  <2> QED
    BY <1>1, <2>3 DEF TotalInv, CountedIs, Before
<1> QED
  BY <1>2, <1>3

LEMMA TotalKept == ASSUME ReportInv, RowsInv, TotalInv, [Answer!Next]_reportVars PROVE TotalInv'
<1>1. CASE Answer!Answer
  <2>1. UNCHANGED <<reportTable, writes, req, ids, reportParents, fetched, reportTotal>> /\ reportPc' = "done"
    BY <1>1 DEF Answer!Answer, Answer!Goto
  <2>2. /\ Cardinality(details') <= Cardinality(details)
        /\ Cardinality(details) \in Nat /\ Cardinality(details') \in Nat
    BY <1>1, LastCap, RowSets, FS_Subset DEF ReportInv, ReportTyped
  <2>3. truncated => truncated'
    BY <1>1, LastCap
  <2>4. reportTotal # Null => reportTotal \in Nat
    BY DEF ReportInv, ReportTyped
  <2>5. TotalsAre'
    <3> SUFFICES ASSUME Answer!quiet, reportTotal # Null, ~(Answer!saved /\ Answer!pending /\ req.limit # Null)
                 PROVE  /\ reportTotal \in Nat /\ Cardinality(details') <= reportTotal
                        /\ ~Answer!saved /\ Answer!pending =>
                             \/ reportTotal = Cardinality(Passing)
                             \/ truncated' /\ (fetched >= Answer!FetchLimit \/ Answer!ManyOfOneParent)
      BY <2>1, SameView, SameRows DEF TotalsAre, Answer!quiet
    <3>1. /\ Cardinality(details) <= reportTotal
          /\ ~Answer!saved /\ Answer!pending =>
                 \/ reportTotal = Cardinality(Passing)
                 \/ truncated /\ (fetched >= Answer!FetchLimit \/ Answer!ManyOfOneParent)
      BY DEF TotalInv, TotalsAre
    <3>2. Cardinality(details') <= reportTotal
      BY <2>2, <2>4, <3>1
    <3> QED
      BY <2>3, <2>4, <3>1, <3>2
  <2> QED
    BY <2>1, <2>5 DEF TotalInv, CountedIs, Before
<1>2. CASE Answer!Write
  <2>1. UNCHANGED <<req, ids, reportPc, reportTotal>> /\ ~Answer!quiet'
    BY <1>2, Written DEF Answer!Write
  <2>2. Answer!NoCount' = Answer!NoCount /\ Answer!saved' = Answer!saved /\ Answer!pending' = Answer!pending
    BY <2>1 DEF Answer!NoCount, Answer!LaterPage, Answer!paging, Answer!saved, Answer!pending
  <2> QED
    BY <2>1, <2>2 DEF TotalInv, TotalsAre, CountedIs, Before
<1>3. CASE Answer!ConvertFilters \/ Answer!ProbeParents \/ Answer!FetchDetails \/ Answer!FilterDetails
           \/ Answer!Summarize \/ Answer!FillCells
  <2>1. reportTotal' = reportTotal /\ reportPc \in {"convert", "probe", "details", "filter", "summary", "cells"}
        /\ reportPc' # "groups"
    BY <1>3 DEF Answer!ConvertFilters, Answer!ProbeParents, Answer!FetchDetails, Answer!FilterDetails, Answer!Summarize,
                Answer!FillCells, Answer!Goto
  <2>2. reportTotal' = Null
    BY <2>1 DEF ReportInv, ReportPhases
  <2> QED
    BY <2>1, <2>2 DEF TotalInv, TotalsAre, CountedIs, Before
<1>4. CASE UNCHANGED reportVars
  <2>1. Answer!NoCount' = Answer!NoCount
    BY <1>4, SameRows DEF reportVars, Answer!NoCount, Answer!saved
  <2> QED
    BY <1>4, <2>1, SameView, SameRows DEF reportVars, TotalInv, TotalsAre, CountedIs, Before, Answer!quiet
<1>5. Answer!Done => UNCHANGED reportVars
  BY DEF Answer!Done, Answer!vars, reportVars
<1> QED
  BY <1>1, <1>2, <1>3, <1>4, <1>5, TotalAtCount, TotalAtGroups DEF Answer!Next, Answer!Step

LEMMA TotalIs == ASSUME ReportInv, TotalInv PROVE Answer!TotalIsNotShort
<1> SUFFICES ASSUME Answer!quiet, reportTotal # Null, ~(Answer!saved /\ Answer!pending /\ req.limit # Null)
             PROVE  /\ reportTotal >= Cardinality(details)
                    /\ ~Answer!saved /\ Answer!pending =>
                         \/ reportTotal = Cardinality(Passing)
                         \/ truncated /\ (fetched >= Answer!FetchLimit \/ Answer!ManyOfOneParent)
  BY RowsCounted DEF Answer!TotalIsNotShort, Passing
<1>1. Cardinality(details) \in Nat
  BY RowSets DEF ReportInv, ReportTyped
<1> QED
  BY <1>1 DEF TotalInv, TotalsAre

LEMMA ReportTypes == ASSUME ReportInv PROVE Answer!TypeOK
<1>1. {groups, cells} \subseteq [DOMAIN groups -> SUBSET Row] /\ {found, reportTotal, groupTotal} \subseteq Answer!Limit
  BY DEF ReportInv, ReportTyped, Answer!Limit
<1> QED
  BY <1>1 DEF ReportInv, ReportTyped, Answer!TypeOK

\* Unless the client pages, every row that passed the filters is in the answer or the answer says
\* that it is cut, whatever is written between its statements.
THEOREM LeftOutTheorem == Spec => []LeftOutIsTold
<1> DEFINE Inv == service = "report" => ReportInv
<1>1. Init => Inv
  BY OnePartAtFirst, ReportAtFirst
<1>2. Inv /\ [Next]_vars => Inv'
  BY OnePart, ReportKept
<1>3. Inv => LeftOutIsTold
  BY ReportTypes DEF LeftOutIsTold, ReportInv
<1> HIDE DEF Inv
<1> QED
  BY <1>1, <1>2, <1>3, PTL DEF Spec

\* While nobody writes, the details have rows whose shown value passes the filter on a computed
\* field, where its way into SQL is exact.
THEOREM FilterTheorem == Spec => []FilterMatchesShownValue
<1> DEFINE Inv == service = "report" => ReportInv
<1>1. Init => Inv
  BY OnePartAtFirst, ReportAtFirst
<1>2. Inv /\ [Next]_vars => Inv'
  BY OnePart, ReportKept
<1>3. Inv => FilterMatchesShownValue
  BY DEF FilterMatchesShownValue, ReportInv
<1> HIDE DEF Inv
<1> QED
  BY <1>1, <1>2, <1>3, PTL DEF Spec

\* The cells of formulas and roll-ups are computed over the rows that the group counts, while
\* nobody writes, nothing is cut and no filter is left to Python.
THEOREM CellsTheorem == Spec => []CellsAgree
<1> DEFINE Inv == service = "report" => ReportInv /\ RowsInv /\ Answer!CellsAgree
<1>1. Init => Inv
  BY OnePartAtFirst, ReportAtFirst, RowsAtFirst, CellsAtFirst
<1>2. Inv /\ [Next]_vars => Inv'
  BY OnePart, ReportKept, RowsKept, CellsKept
<1>3. Inv => CellsAgree
  BY DEF CellsAgree
<1> HIDE DEF Inv
<1> QED
  BY <1>1, <1>2, <1>3, PTL DEF Spec

\* While nobody writes, the total is not less than the rows shown, and a preview that filters in
\* Python counts every row that matches, or says that it is cut.
THEOREM TotalTheorem == Spec => []TotalIsNotShort
<1> DEFINE Inv == service = "report" => ReportInv /\ RowsInv /\ TotalInv
<1>1. Init => Inv
  BY OnePartAtFirst, ReportAtFirst, RowsAtFirst, TotalAtFirst
<1>2. Inv /\ [Next]_vars => Inv'
  BY OnePart, ReportKept, RowsKept, TotalKept
<1>3. Inv => TotalIsNotShort
  BY TotalIs DEF TotalIsNotShort
<1> HIDE DEF Inv
<1> QED
  BY <1>1, <1>2, <1>3, PTL DEF Spec
=============================================================================
