--------------------------- MODULE MCRecordAccess ---------------------------
(* A small instance of RecordAccess: two users, u1 above u2 in most of the   *)
(* starting policies, two rows that share a name, two requests, and one edit *)
(* of the policy.                                                            *)
EXTENDS RecordAccess, TLC

CONSTANTS u1, u2, a, b, n

Id(r)    == [by |-> "id", key |-> r]
Child(r) == [by |-> "child", key |-> r]
ByName   == [by |-> "name", key |-> n]
Ask(u, op, to, targets) == [user |-> u, op |-> op, to |-> to, targets |-> targets]

MCNameOf == [r \in {a, b} |-> n]
MCGrants == {[to |-> u2, of |-> b, mask |-> {"read"}], [to |-> u2, of |-> a, mask |-> {"read", "write"}]}
All      == {"edit", "delete"}
MCLines  == {[u \in {u1, u2} |-> NoManager], u1 :> u2 @@ u2 :> u1}
MCProfiles == {[u \in {u1, u2} |-> All], u1 :> All @@ u2 :> {}}
MCJobs   == {Ask(u1, "patch", u1, <<ByName, Child(b)>>), Ask(u2, "transfer", u1, <<Id(b), Id(a)>>),
             Ask(u1, "destroy", u1, <<Id(a)>>),   Ask(u2, "restore", u2, <<Id(b)>>),
             Ask(u1, "purge", u1, <<Id(a), Id(b)>>),     Ask(u1, "delete", u1, <<Id(a)>>)}

Owned(u, state) == [state |-> state, owner |-> u]
Begin(obj, lev, boss, ra, rb) ==
  [isObject |-> obj, level |-> lev, manager |-> (u1 :> NoManager @@ u2 :> boss),
   canDo |-> [u \in {u1, u2} |-> All], row |-> (a :> ra @@ b :> rb)]

MCStart == {Begin(TRUE, "Private", u1, Owned(u2, "bin"), Owned(u2, "bin")),
            Begin(TRUE, "Public Read Write", u1, Owned(u2, "absent"), Owned(u1, "live")),
            Begin(FALSE, "Private", NoManager, Owned(u2, "live"), Owned(u1, "absent"))}

\* An edit by name on an object whose table is empty, and a purge of one row.
MCNameJobs  == {Ask(u1, "patch", u1, <<ByName>>)}
MCNameStart == {Begin(TRUE, "Private", u1, Owned(u2, "absent"), Owned(u2, "absent"))}
MCPurgeJobs == {Ask(u1, "purge", u1, <<Id(b)>>)}
=============================================================================
