------------------------------ MODULE QueryJoins ------------------------------
(***************************************************************************)
(* How a query finds the tables behind fields of related objects, like     *)
(* account.owner.name: the lookups are read from the metadata and kept in  *)
(* each worker for good (relationships.py), and every step of a path       *)
(* becomes a join (ensure_joins, once for lists in                         *)
(* query_builder_helpers.py and once for reports in helpers.py), guessed   *)
(* where no lookup was found.                                              *)
(***************************************************************************)
EXTENDS Integers, Sequences, FiniteSets, SequencesExt

CONSTANTS
  Object, base,      \* objects; the one that is queried
  Rel, Key,          \* names of relationships (none is base's) and of foreign keys
  Lookup,            \* the rows that fields may have, see Row
  Alike,             \* pairs of names that differ by a plural
  Guess,             \* of a name: the table and key that are guessed
  Path, Worker, None,
  MaxChanges         \* bound: changes of lookups

Row == [object : Object, key : Key, rel : Rel, parent : Object]

JoinsAssumption ==
  /\ base \in Object /\ base \notin Rel /\ Lookup \subseteq Row /\ None \notin Object
  /\ Guess \in [Rel -> [table : Object, key : Key]]
  /\ Path \subseteq Seq(Rel) \ {<<>>}

VARIABLES
  lookups,           \* the rows of datatype lookup_relationship
  parents, children, \* the caches of each worker: what it read of an object, or None
  request, answer,
  changes            \* changes of lookups so far

vars == <<lookups, parents, children, request, answer, changes>>

\* A step of a path: the table joined, the key, and whether the key is the joined table's.
Step == [table : Object, key : Key, child : BOOLEAN]

Idle == [report |-> FALSE, paths |-> <<>>, todo |-> {}, relationships |-> <<>>]
NoAnswer == [report |-> FALSE, failed |-> TRUE, paths |-> <<>>, relationships |-> <<>>, joins |-> {}]

Caches == [Worker -> [Object -> (SUBSET Lookup) \cup {None}]]

TypeOK ==
  /\ lookups \subseteq Lookup /\ changes \in 0..MaxChanges
  /\ {parents, children} \subseteq Caches
  /\ \A w \in Worker :
       /\ Range(request[w].paths) \subseteq Path /\ request[w].todo \subseteq Path
       /\ \A q \in DOMAIN request[w].relationships : request[w].relationships[q] \in Step
  /\ \A j \in answer.joins : {j.table} \subseteq Object /\ j.key \in Key

Init ==
  /\ lookups \in SUBSET Lookup
  /\ parents = [w \in Worker |-> [o \in Object |-> None]] /\ children = parents
  /\ request = [w \in Worker |-> Idle] /\ answer = NoAnswer /\ changes = 0

\* An administrator adds or deletes a lookup; no cache hears of it.
ChangeLookup(row) ==
  /\ changes < MaxChanges /\ changes' = changes + 1
  /\ lookups' = IF row \in lookups THEN lookups \ {row} ELSE lookups \cup {row}
  /\ UNCHANGED <<parents, children, request, answer>>

----------------------------------------------------------------------------
\* build_relationships_dynamic

\* The paths of fields, filters, groups and order, in the order in which they are joined.
Ask(w, report, paths) ==
  /\ request[w] = Idle /\ paths # <<>>
  /\ request' = [request EXCEPT ![w] = [report |-> report, paths |-> paths, todo |-> Range(paths),
                                        relationships |-> <<>>]]
  /\ answer' = NoAnswer
  /\ UNCHANGED <<lookups, parents, children, changes>>

relation_matches(actual, requested) == actual = requested \/ {<<actual, requested>>, <<requested, actual>>} \cap Alike # {}

Cached(cache, o, rows) == IF cache[o] = None THEN rows ELSE cache[o]

_cached_fields_metadata(w, o) == Cached(parents[w], o, {l \in lookups : l.object = o})
_cached_child_fields(w, o) == Cached(children[w], o, {l \in lookups : l.parent = o})

AsParent(l) == [table |-> l.parent, key |-> l.key, child |-> FALSE]
AsChild(l) == [table |-> l.object, key |-> l.key, child |-> TRUE]

\* The table where the part q of a path ends.
Reached(relationships, q) == IF q = <<>> THEN base ELSE relationships[q].table

\* The longest part of a path that is resolved.
Resolved(relationships, p) ==
  CHOOSE q \in {SubSeq(p, 1, i) : i \in 0..Len(p)} :
    /\ q = <<>> \/ q \in DOMAIN relationships
    /\ q = p \/ SubSeq(p, 1, Len(q) + 1) \notin DOMAIN relationships

\* The next step of a path: a lookup of the object reached, or else one that points at it.
\* A step that is not found ends the path's chain.
ResolveStep(w, p) ==
  LET r   == request[w]
      q   == Resolved(r.relationships, p)
      o   == Reached(r.relationships, q)
      own == _cached_fields_metadata(w, o)
      to  == {AsParent(l) : l \in {m \in own : relation_matches(m.rel, p[Len(q) + 1])}}
      of  == _cached_child_fields(w, o)
      from == {AsChild(l) : l \in {m \in of : relation_matches(m.rel, p[Len(q) + 1])}}
  IN  /\ p \in r.todo /\ q # p
      /\ parents' = [parents EXCEPT ![w][o] = own]
      /\ children' = IF to = {} THEN [children EXCEPT ![w][o] = of] ELSE children
      /\ IF to \cup from = {}
         THEN request' = [request EXCEPT ![w].todo = @ \ {p}]
         ELSE \E s \in IF to # {} THEN to ELSE from :
                request' = [request EXCEPT ![w].relationships =
                  [z \in DOMAIN r.relationships \cup {Append(q, p[Len(q) + 1])} |->
                     IF z \in DOMAIN r.relationships THEN r.relationships[z] ELSE s]]
      /\ UNCHANGED <<lookups, answer, changes>>

EndPath(w, p) ==
  /\ p \in request[w].todo /\ Resolved(request[w].relationships, p) = p
  /\ request' = [request EXCEPT ![w].todo = @ \ {p}]
  /\ UNCHANGED <<lookups, parents, children, answer, changes>>

----------------------------------------------------------------------------
\* ensure_joins

Guessed(part) == [table |-> Guess[part].table, key |-> Guess[part].key, child |-> FALSE]

\* Lists: the relationship is found by the whole path, the joined table is named by its last part.
ListStep(relationships, p, i) ==
  IF SubSeq(p, 1, i) \in DOMAIN relationships THEN relationships[SubSeq(p, 1, i)] ELSE Guessed(p[i])

Join(s, from, fromTable, alias) ==
  [from |-> from, fromTable |-> fromTable, alias |-> alias, table |-> s.table, key |-> s.key, child |-> s.child]

\* Mutant: a name that is joined already is not joined again.
SameAlias(j, k) == j.alias = k.alias

\* Tables are the same if name and alias are.
SameJoin(j, k) == j.from = k.from /\ j.fromTable = k.fromTable /\ j.alias = k.alias /\ j.table = k.table

JoinStep(joins, j) == IF \E k \in joins : SameJoin(j, k) THEN joins ELSE joins \cup {j}

ListJoins(relationships, paths) ==
  LET table(p, i) == IF i = 0 THEN base ELSE ListStep(relationships, p, i).table
      from(p, i) == IF i = 1 THEN <<base>> ELSE <<p[i - 1]>>
      along(joins, p) == FoldLeft(LAMBDA js, i : JoinStep(js,
          Join(ListStep(relationships, p, i), from(p, i), table(p, i - 1), <<p[i]>>)),
          joins, [i \in 1..Len(p) |-> i])
  IN  FoldLeft(along, {}, paths)

\* Reports: the relationship is found by the last two names, which are the table's alias too.
ReportName(p, i) == <<IF i = 1 THEN base ELSE p[i - 1], p[i]>>

\* Keys of relationships begin with base, so that a second step's is never found.
ReportStep(relationships, p, i) ==
  IF i = 1 /\ <<p[1]>> \in DOMAIN relationships THEN relationships[<<p[1]>>] ELSE Guessed(p[i])

ReportJoins(relationships, paths) ==
  LET from(p, i) == IF i = 1 THEN <<base>> ELSE ReportName(p, i - 1)
      add(joins, p, i) == IF \E k \in joins : k.alias = ReportName(p, i) THEN joins
        ELSE joins \cup {Join(ReportStep(relationships, p, i), from(p, i), base, ReportName(p, i))}
      along(joins, p) == FoldLeft(LAMBDA js, i : add(js, p, i), joins, [i \in 1..Len(p) |-> i])
  IN  FoldLeft(along, {}, paths)

\* PostgreSQL refuses two tables of one alias.
Refused(joins) == \E j, k \in joins : j # k /\ j.alias = k.alias

Query(w) ==
  LET r     == request[w]
      joins == IF r.report THEN ReportJoins(r.relationships, r.paths) ELSE ListJoins(r.relationships, r.paths)
  IN  /\ r # Idle /\ r.todo = {}
      /\ answer' = [report |-> r.report, failed |-> Refused(joins), paths |-> r.paths,
                    relationships |-> r.relationships, joins |-> joins]
      /\ request' = [request EXCEPT ![w] = Idle]
      /\ UNCHANGED <<lookups, parents, children, changes>>

\* A worker that starts anew knows nothing.
Restart(w) ==
  /\ parents' = [parents EXCEPT ![w] = [o \in Object |-> None]]
  /\ children' = [children EXCEPT ![w] = [o \in Object |-> None]]
  /\ request' = [request EXCEPT ![w] = Idle]
  /\ UNCHANGED <<lookups, answer, changes>>

Next ==
  \/ \E row \in Lookup : ChangeLookup(row)
  \/ \E w \in Worker :
       \/ \E report \in BOOLEAN, p, q \in Path : Ask(w, report, <<p>>) \/ Ask(w, report, <<p, q>>)
       \/ \E p \in Path : ResolveStep(w, p) \/ EndPath(w, p)
       \/ Query(w) \/ Restart(w)

----------------------------------------------------------------------------
\* Properties

Alias(report, p, i) ==
  CASE i = 0            -> <<base>>
    [] i > 0 /\ report  -> ReportName(p, i)
    [] i > 0 /\ ~report -> <<p[i]>>

\* Each step of p that was resolved is joined as it was resolved, to the table of the step before.
Followed(p, steps) ==
  \A i \in steps : SubSeq(p, 1, i) \in DOMAIN answer.relationships =>
    LET s == answer.relationships[SubSeq(p, 1, i)] IN
      \E j \in answer.joins :
        /\ j.alias = Alias(answer.report, p, i) /\ j.from = Alias(answer.report, p, i - 1)
        /\ j.table = s.table /\ j.key = s.key /\ j.child = s.child

\* A query that is not refused takes the fields of a list, and those a report takes from the
\* objects next to its own, from the tables their lookups lead to, also where two paths use
\* the same name for different relationships.
FieldsFollowLookups ==
  ~answer.failed => \A p \in Range(answer.paths) :
    Followed(p, IF answer.report THEN {1} ELSE 1..Len(p))
=============================================================================
