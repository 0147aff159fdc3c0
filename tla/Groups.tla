-------------------------------- MODULE Groups --------------------------------
(***************************************************************************)
(* User groups (utils/usergroup_utils.py): a patch replaces the members of *)
(* a group, table by table, in one transaction; a workflow that notifies a *)
(* group follows the groups within it (workflow_executor.py).              *)
(***************************************************************************)
EXTENDS Integers, Sequences, FiniteSets, SequencesExt

CONSTANTS
  Group, User,       \* groups, users
  Active,            \* users who are active
  Patcher, Resolver, \* requests that patch, workflows that notify
  Selection,         \* the sets of links that a patch may name
  MaxPatches,        \* bound: patches
  None

\* Rows of user_group_users and user_group_public_groups (user_group_profiles is as the first).
Link == ({"user"} \X User) \cup ({"group"} \X Group)
Kind == {"user", "group"}

GroupsAssumption ==
  /\ Active \subseteq User /\ Selection \subseteq SUBSET Link
  /\ None \notin Patcher \cup Group /\ MaxPatches \in Nat

VARIABLES
  members,           \* the committed rows of each group
  lock,              \* who holds the lock of the group's own row
  patch, resolution,
  last,              \* the last patch that was committed
  begun              \* patches so far

vars == <<members, lock, patch, resolution, last, begun>>

NoPatch == [group |-> None, named |-> FALSE, listed |-> {}, chosen |-> {}, todo |-> <<>>,
            add |-> {}, remove |-> {}, disturbed |-> FALSE]
NoResolution == [found |-> {}, queue |-> {}, told |-> {}, open |-> FALSE, from |-> {}, steady |-> FALSE]

TypeOK ==
  /\ begun \in 0..MaxPatches /\ members \in [Group -> SUBSET Link] /\ lock \in [Group -> Patcher \cup {None}]
  /\ \A p \in Patcher \cup {None} : LET r == IF p = None THEN last ELSE patch[p] IN
       /\ r.group \in Group \cup {None} /\ r.add \cup r.remove \cup r.chosen \subseteq Link
       /\ r.listed \subseteq Kind /\ Range(r.todo) \subseteq {"name"} \cup Kind
  /\ \A w \in Resolver : resolution[w].found \subseteq Group /\ resolution[w].told \subseteq Active

Init ==
  /\ members \in [Group -> Selection] /\ lock = [g \in Group |-> None]
  /\ patch = [p \in Patcher |-> NoPatch] /\ resolution = [w \in Resolver |-> NoResolution] /\ last = NoPatch
  /\ begun = 0

Of(kind, links) == {l \in links : l[1] = kind}
Running(p) == patch[p].group # None

----------------------------------------------------------------------------
\* patch_user_group

\* The order in which the tables are synchronised.
InTurn(kinds) ==
  (IF "user" \in kinds THEN <<"user">> ELSE <<>>) \o (IF "group" \in kinds THEN <<"group">> ELSE <<>>)

\* The plain lists name every table: a list left out counts as empty.  child_tables name some
\* tables, and are looked at only when the patch has a name.
Begin(p, g, named, listed, chosen) ==
  /\ ~Running(p) /\ begun < MaxPatches /\ begun' = begun + 1
  /\ patch' = [patch EXCEPT ![p] =
       [NoPatch EXCEPT !.group = g, !.named = named, !.listed = listed,
                       !.chosen = {l \in chosen : l[1] \in listed},
                       !.todo = (IF named THEN <<"name">> ELSE <<>>) \o InTurn(listed)]]
  /\ last' = NoPatch
  /\ UNCHANGED <<members, lock, resolution>>

\* Mutant: the row is not locked.
NoLock(p) ==
  /\ Running(p) /\ patch[p].todo # <<>> /\ Head(patch[p].todo) = "name"
  /\ patch' = [patch EXCEPT ![p].todo = Tail(@)]
  /\ UNCHANGED <<members, lock, resolution, last, begun>>

\* The UPDATE of the group's row waits for another's and keeps others waiting.
UpdateName(p) ==
  /\ Running(p) /\ patch[p].todo # <<>> /\ Head(patch[p].todo) = "name"
  /\ lock[patch[p].group] = None
  /\ lock' = [lock EXCEPT ![patch[p].group] = p]
  /\ patch' = [patch EXCEPT ![p].todo = Tail(@)]
  /\ UNCHANGED <<members, resolution, last, begun>>

\* One table: the rows that are committed now are compared with those chosen.
SyncTable(p) ==
  /\ Running(p) /\ patch[p].todo # <<>> /\ Head(patch[p].todo) # "name"
  /\ LET kind    == Head(patch[p].todo)
         current == Of(kind, members[patch[p].group])
         chosen  == Of(kind, patch[p].chosen)
     IN  patch' = [patch EXCEPT ![p].todo = Tail(@), ![p].add = @ \cup (chosen \ current),
                                ![p].remove = @ \cup (current \ chosen)]
  /\ UNCHANGED <<members, lock, resolution, last, begun>>

Unlocked(p) == [g \in Group |-> IF lock[g] = p THEN None ELSE lock[g]]

\* Another patch of g that commits now disturbs those that have read, unless both hold names.
Disturbed(p) ==
  [q \in Patcher |->
     IF q = p THEN NoPatch
     ELSE IF patch[q].group = patch[p].group /\ ~(patch[p].named /\ patch[q].named)
          THEN [patch[q] EXCEPT !.disturbed = TRUE] ELSE patch[q]]

Commit(p) ==
  /\ Running(p) /\ patch[p].todo = <<>>
  /\ members' = [members EXCEPT ![patch[p].group] = (@ \cup patch[p].add) \ patch[p].remove]
  /\ lock' = Unlocked(p)
  /\ patch' = Disturbed(p)
  /\ resolution' = [w \in Resolver |->
       IF resolution[w].open THEN [resolution[w] EXCEPT !.steady = FALSE] ELSE NoResolution]
  /\ last' = [patch[p] EXCEPT !.add = {}, !.remove = {}]
  /\ UNCHANGED begun

\* Any error undoes the transaction and is answered with success = False.
Fail(p) ==
  /\ Running(p)
  /\ lock' = Unlocked(p) /\ patch' = [patch EXCEPT ![p] = NoPatch]
  /\ UNCHANGED <<members, resolution, last, begun>>

----------------------------------------------------------------------------
\* _resolve_user_ids

Subgroups(G) == UNION {{l[2] : l \in Of("group", members[g])} : g \in G}
UsersOf(G) == (UNION {{l[2] : l \in Of("user", members[g])} : g \in G}) \cap Active

Notify(w, G) ==
  /\ ~resolution[w].open
  /\ resolution' = [resolution EXCEPT ![w] =
       [found |-> G, queue |-> G, told |-> {}, open |-> TRUE, from |-> G, steady |-> TRUE]]
  /\ UNCHANGED <<members, lock, patch, last, begun>>

\* Mutant: what is found is not noted.
ForgetFound(w) ==
  LET r == resolution[w] IN
  /\ r.open /\ r.queue # {}
  /\ resolution' = [resolution EXCEPT ![w].queue = Subgroups(r.queue) \ r.found]
  /\ UNCHANGED <<members, lock, patch, last, begun>>

\* One round: the groups within those of the queue, without those found before.
Expand(w) ==
  LET r == resolution[w] IN
  /\ r.open /\ r.queue # {}
  /\ resolution' = [resolution EXCEPT ![w].queue = Subgroups(r.queue) \ r.found,
                                      ![w].found = r.found \cup Subgroups(r.queue)]
  /\ UNCHANGED <<members, lock, patch, last, begun>>

Tell(w) ==
  /\ resolution[w].open /\ resolution[w].queue = {}
  /\ resolution' = [resolution EXCEPT ![w].open = FALSE, ![w].found = {},
                                      ![w].told = UsersOf(resolution[w].found)]
  /\ UNCHANGED <<members, lock, patch, last, begun>>

Next ==
  \/ \E p \in Patcher, g \in Group, chosen \in Selection, named \in BOOLEAN, listed \in SUBSET Kind :
       (named \/ listed \in {{}, Kind}) /\ Begin(p, g, named, listed, chosen)
  \/ \E p \in Patcher : UpdateName(p) \/ SyncTable(p) \/ Commit(p) \/ Fail(p)
  \/ \E w \in Resolver : (\E g \in Group : Notify(w, {g})) \/ Expand(w) \/ Tell(w)

----------------------------------------------------------------------------
\* Properties

\* After a patch that no other disturbed, the tables it lists hold what it chose: patches that
\* name the group wait for one another, so that a disturbed one overlapped one without a name.
PatchesStandWhole ==
  last.group # None /\ ~last.disturbed =>
    \A kind \in last.listed : Of(kind, members[last.group]) = Of(kind, last.chosen)

\* The groups that every set contains that has those of G and is closed under being within.
Within(G) == {g \in Group : \A S \in SUBSET Group : G \subseteq S /\ Subgroups(S) \subseteq S => g \in S}

\* Unless a group was patched meanwhile, those told are the active members of the group and of
\* all groups within it at whatever depth, also where groups contain one another.
ToldAreMembers ==
  \A w \in Resolver : LET r == resolution[w] IN
    r.from # {} /\ ~r.open /\ r.steady => r.told = UsersOf(Within(r.from))
===============================================================================
