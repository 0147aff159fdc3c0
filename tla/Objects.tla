-------------------------------- MODULE Objects --------------------------------
(***************************************************************************)
(* Custom objects, profiles and apps of a tenant (post_customobject,       *)
(* delete_customobject, new_profile, create_app): the rows of object and   *)
(* their tables, the permissions of every profile on every object, and the *)
(* objects that apps show as tabs.  Each operation is one transaction at   *)
(* READ COMMITTED; post_customobject checks the name before its own.       *)
(***************************************************************************)
EXTENDS Integers, FiniteSets

CONSTANTS Request, Object, Profile, MaxIds,
  App,           \* apps an administrator may create
  sales          \* the app every custom object is added to

ObjectsAssumption == sales \notin App /\ MaxIds \in Nat /\ Object # {} /\ Profile # {}

VARIABLES
  objects,       \* name -> id of its row
  tables,        \* names that have a table
  profiles, grants,  \* object_permissions: ids and profiles
  tabs,          \* app -> names
  request, made,
  \* History: names two requests worked on at a time, pairs of an object and a profile
  \* made at a time, names a new app was given without an object.
  crossed, missed, late

vars == <<objects, tables, profiles, grants, tabs, request, made, crossed, missed, late>>

Ids == 1..MaxIds
ObjectChange == [step : {"idle", "insert", "commit"},
                 op : {"create", "delete", "profile"}, name : Object, id : 0..MaxIds,
                 seen : SUBSET Profile, profile : Profile, copied : SUBSET Ids]

TypeOK ==
  /\ DOMAIN objects \subseteq Object /\ \A o \in DOMAIN objects : objects[o] \in Ids
  /\ tables \subseteq Object /\ profiles \subseteq Profile /\ grants \subseteq Ids \X Profile
  /\ DOMAIN tabs \subseteq App \cup {sales} /\ \A a \in DOMAIN tabs : tabs[a] \subseteq Object
  /\ request \in [Request -> ObjectChange] /\ made \in 0..MaxIds
  /\ crossed \cup late \subseteq Object /\ missed \subseteq Ids \X Profile

Idle == [step |-> "idle", op |-> "create", name |-> CHOOSE o \in Object : TRUE, id |-> 0,
         seen |-> {}, profile |-> CHOOSE p \in Profile : TRUE, copied |-> {}]

\* A tenant starts with one profile here; its standard objects are never deleted.
Init ==
  /\ objects = <<>> /\ tables = {} /\ \E p \in Profile : profiles = {p}
  /\ grants = {} /\ tabs = [a \in {sales} |-> {}]
  /\ request = [r \in Request |-> Idle] /\ made = 0
  /\ crossed = {} /\ missed = {} /\ late = {}

at(r, step) == request[r].step = step
ids == {objects[o] : o \in DOMAIN objects}
OpenOn(o) == {q \in Request : ~at(q, "idle") /\ request[q].op # "profile" /\ request[q].name = o}
Crosses(o) == crossed' = IF OpenOn(o) # {} THEN crossed \cup {o} ELSE crossed
Done(r) == request' = [request EXCEPT ![r] = Idle]
store == <<objects, tables, profiles, grants, tabs>>

----------------------------------------------------------------------------
\* post_customobject

\* The name is looked up in a statement of its own.
AskObject(r, o) ==
  /\ at(r, "idle") /\ o \notin DOMAIN objects
  /\ request' = [request EXCEPT ![r] = [Idle EXCEPT !.step = "insert", !.name = o]]
  /\ Crosses(o)
  /\ UNCHANGED <<store, made, missed, late>>

\* Mutant: only the creator's profile is granted.
CreatorOnly == {CHOOSE p \in profiles : TRUE}

Snapshot == profiles

Copying == {q \in Request : at(q, "commit") /\ request[q].op = "profile"}

\* The profiles are read, then the row is inserted; a row of the name that is being inserted
\* or deleted is waited for, and one that is there refuses it (Fail).
InsertObject(r) ==
  /\ at(r, "insert") /\ request[r].name \notin DOMAIN objects /\ made < MaxIds
  /\ OpenOn(request[r].name) \cap {q \in Request : at(q, "commit")} = {}
  /\ made' = made + 1
  /\ request' = [request EXCEPT ![r].step = "commit", ![r].id = made + 1, ![r].seen = Snapshot]
  /\ missed' = missed \cup {<<made + 1, request[q].profile>> : q \in Copying}
  /\ UNCHANGED <<store, crossed, late>>

\* Table, layouts, permissions and tab, with the row.
CreateObject(r) ==
  /\ at(r, "commit") /\ request[r].op = "create"
  /\ LET o == request[r].name IN
       /\ objects' = [n \in DOMAIN objects \cup {o} |-> IF n = o THEN request[r].id ELSE objects[n]]
       /\ tables' = tables \cup {o}
       /\ grants' = grants \cup {request[r].id} \X request[r].seen
       /\ tabs' = [tabs EXCEPT ![sales] = @ \cup {o}]
       /\ late' = late \ {o}
  /\ Done(r)
  /\ UNCHANGED <<profiles, made, crossed, missed>>

----------------------------------------------------------------------------
\* delete_customobject

BeginDelete(r, o) ==
  /\ at(r, "idle") /\ o \in DOMAIN objects
  /\ request' = [request EXCEPT ![r] = [Idle EXCEPT !.step = "commit", !.op = "delete", !.name = o,
                    !.id = objects[o]]]
  /\ Crosses(o)
  /\ UNCHANGED <<store, made, missed, late>>

\* Mutant: the tab is taken out of the sales app, where it was put.
FromSales(o) == tabs' = [tabs EXCEPT ![sales] = @ \ {o}]

remove_tab_from_apps(o) == tabs' = [a \in DOMAIN tabs |-> tabs[a] \ {o}]

\* The rows by the id that was read, the table and the tabs by name.  A profile that
\* copies the object's permissions is waited for.
DeleteObject(r) ==
  /\ at(r, "commit") /\ request[r].op = "delete"
  /\ \A q \in Copying : request[r].id \notin request[q].copied
  /\ LET o == request[r].name IN
       /\ objects' = [n \in {m \in DOMAIN objects : objects[m] # request[r].id} |-> objects[n]]
       /\ tables' = tables \ {o}
       /\ grants' = {g \in grants : g[1] # request[r].id}
       /\ remove_tab_from_apps(o)
  /\ Done(r)
  /\ UNCHANGED <<profiles, made, crossed, missed, late>>

----------------------------------------------------------------------------
\* new_profile and create_app

\* The rows of an existing profile are read and written for the new one.
BeginProfile(r, base, p) ==
  /\ at(r, "idle") /\ base \in profiles /\ p \notin profiles
  /\ \A q \in Copying : request[q].profile # p
  /\ request' = [request EXCEPT ![r] = [Idle EXCEPT !.step = "commit", !.op = "profile", !.profile = p,
                    !.copied = {i \in Ids : <<i, base>> \in grants}]]
  /\ missed' = missed \cup {<<i, p>> : i \in {j \in Ids : <<j, base>> \in missed}}
        \cup {<<request[q].id, p>> : q \in {s \in Request : at(s, "commit") /\ request[s].op = "create"}}
  /\ UNCHANGED <<store, made, crossed, late>>

NewProfile(r) ==
  /\ at(r, "commit") /\ request[r].op = "profile"
  /\ profiles' = profiles \cup {request[r].profile}
  /\ grants' = grants \cup request[r].copied \X {request[r].profile}
  /\ Done(r)
  /\ UNCHANGED <<objects, tables, tabs, made, crossed, missed, late>>

\* The tabs are the request's: what the administrator chose from.
CreateApp(a, S) ==
  /\ a \notin DOMAIN tabs
  /\ tabs' = [b \in DOMAIN tabs \cup {a} |-> IF b = a THEN S ELSE tabs[b]]
  /\ late' = late \cup (S \ DOMAIN objects)
  /\ crossed' = crossed \cup {o \in S : OpenOn(o) # {}}
  /\ UNCHANGED <<objects, tables, profiles, grants, request, made, missed>>

\* Mutant: the table is made outside the transaction.
TableKept(r) ==
  tables' = IF at(r, "commit") /\ request[r].op = "create" THEN tables \cup {request[r].name} ELSE tables

RolledBack(r) == tables' = tables

Fail(r) ==
  /\ ~at(r, "idle")
  /\ RolledBack(r) /\ Done(r)
  /\ UNCHANGED <<objects, profiles, grants, tabs, made, crossed, missed, late>>

Next ==
  \/ \E r \in Request :
       \/ \E o \in Object : AskObject(r, o) \/ BeginDelete(r, o)
       \/ InsertObject(r) \/ CreateObject(r) \/ DeleteObject(r)
       \/ \E base, p \in Profile : BeginProfile(r, base, p)
       \/ NewProfile(r) \/ Fail(r)
  \/ \E a \in App, S \in SUBSET Object : CreateApp(a, S)

Spec == Init /\ [][Next]_vars

----------------------------------------------------------------------------

\* Every object has its table and no table is without an object, and every tab names an
\* object, whatever fails; but for names two requests worked on at a time, and tabs that
\* a new app was given late.
ObjectsAreWhole ==
  /\ \A o \in Object \ crossed : o \in DOMAIN objects <=> o \in tables
  /\ \A a \in DOMAIN tabs : tabs[a] \subseteq DOMAIN objects \cup crossed \cup late

\* Every profile has permissions on every object, however profiles and objects come, but
\* for pairs that were made at a time and the profiles copied from those.
GrantsAreComplete == ids \X profiles \subseteq grants \cup missed
=============================================================================
