------------------------------ MODULE PreviewPage ------------------------------
(***************************************************************************)
(* The page of one record (blcontroller.py, 'preview'): the reader's       *)
(* access is checked, then the parts of the page are fetched one after the *)
(* other, each with queries of its own.  A part that fails is named in the *)
(* page's message; some leave variables behind that the page cannot be     *)
(* built without.                                                          *)
(***************************************************************************)
EXTENDS Integers, Sequences, FiniteSets

CONSTANTS
  User, Reader,      \* users, those who open pages
  Admin,             \* users whose profile is 'admin'
  Below,             \* of a user: the user and those below in the reporting line
  Rights,            \* what the row of object_permissions may allow, or NoRow
  Landing, Member,   \* groups of the landing numbers in order; groups a user belongs to
  MaxChanges,        \* bound: changes by others
  MaxErrors,         \* bound: parts that fail in one page
  NoRow, None, Unset

Mask == SUBSET {"read", "write"}
Level == {"Private", "Public"}

PreviewAssumption ==
  /\ Reader \cup Admin \subseteq User /\ Below \in [User -> SUBSET User] /\ \A u \in User : u \in Below[u]
  /\ Rights \subseteq (SUBSET {"read", "edit", "delete"}) \cup {NoRow}
  /\ Landing \in Seq(UNION {Member[u] : u \in User}) /\ {MaxChanges, MaxErrors} \subseteq Nat

VARIABLES
  record, rights, level, share, \* the record, the rows of object_permissions, sharing
  page,              \* the page of each reader
  changes            \* changes so far

vars == <<record, rights, level, share, page, changes>>

\* The parts in their order, named as the message names them.
Parts == <<"Layout", "Related data", "Task", "Permission", "Shared record permissions", "File",
           "Event", "Telephony config", "Path builder", "History">>
Plain == {"Related data", "Task", "File", "Event", "Path builder", "History"}
Named == {Parts[i] : i \in DOMAIN Parts} \cup {"Field level permissions"}

\* Values of the record that are computed for the page; no message names them.
Computed == {"Roll-ups", "Formulas"}

\* seen: the row that the access check looked at; data: what record_data holds; there: the
\* parts fetched; calls: canview and the group whose settings are shown; disturbed: history.
NoPage == [at |-> "closed", seen |-> None, data |-> "list", there |-> {}, errors |-> {}, offers |-> Unset,
           calls |-> Unset, outcome |-> "none", disturbed |-> FALSE]

TypeOK ==
  /\ record \in [state : {"live", "bin", "gone"}, owner : User, assignee : User]
  /\ rights \in [Reader -> Rights] /\ level \in Level /\ share \in [Reader -> Mask] /\ changes \in 0..MaxChanges
  /\ \A u \in Reader : LET p == page[u] IN
       /\ p.at \in {"closed", "record", "access", "build"} \cup Named
       /\ p.data \in {"list", "row", "empty"} /\ p.outcome \in {"none", "page", "no layout", "failed"}
       /\ p.there \subseteq Named \cup Computed /\ p.errors \subseteq Named
       /\ p.offers \in {Unset, NoRow} \/ p.offers \subseteq {"read", "edit", "write", "delete"}

Init ==
  /\ record \in [state : {"live"}, owner : User, assignee : User]
  /\ rights \in [Reader -> Rights] /\ level \in Level /\ share \in [Reader -> Mask]
  /\ page = [u \in Reader |-> NoPage] /\ changes = 0

----------------------------------------------------------------------------
\* Others change the record, shares and permissions between the page's queries.

Change ==
  /\ changes < MaxChanges /\ changes' = changes + 1
  /\ \/ \E s \in {"bin", "gone"} : record' = [record EXCEPT !.state = s] /\ UNCHANGED <<rights, share>>
     \/ \E u \in User : record' = [record EXCEPT !.owner = u] /\ UNCHANGED <<rights, share>>
     \/ \E u \in Reader, m \in Mask : share' = [share EXCEPT ![u] = m] /\ UNCHANGED <<record, rights>>
     \/ \E u \in Reader, r \in Rights : rights' = [rights EXCEPT ![u] = r] /\ UNCHANGED <<record, share>>
  /\ page' = [u \in Reader |-> [page[u] EXCEPT !.disturbed = TRUE]]
  /\ UNCHANGED level

MayRead(u) == rights[u] # NoRow /\ "read" \in rights[u]

\* get_permissions refuses a profile without permission that has no shares either, ...
Denied(u) == ~MayRead(u) /\ "read" \notin share[u]

\* ... and finds the rows in reach.
Visible(u) ==
  /\ record.state # "gone"
  /\ \/ MayRead(u) /\ (level = "Public" \/ record.owner \in Below[u])
     \/ "read" \in share[u]

----------------------------------------------------------------------------
\* The steps of a page

To(u, next, p) == page' = [page EXCEPT ![u] = [p EXCEPT !.at = next]] /\ UNCHANGED <<record, rights, level, share, changes>>

After(part) == LET i == CHOOSE j \in DOMAIN Parts : Parts[j] = part IN IF i = Len(Parts) THEN "build" ELSE Parts[i + 1]

End(u, outcome) == To(u, "closed", [page[u] EXCEPT !.outcome = outcome])

Fetched(u, part, p) == To(u, After(part), [p EXCEPT !.there = @ \cup {part}])
MustFail(u, part, p) == To(u, After(part), [p EXCEPT !.errors = @ \cup {part}])
Fails(u, part, p) == Cardinality(p.errors) < MaxErrors /\ MustFail(u, part, p)

Open(u) == page[u].at = "closed" /\ To(u, "record", NoPage)

ReadRecord(u) ==
  /\ page[u].at = "record"
  /\ IF Denied(u) \/ ~Visible(u) \/ record.state # "live" THEN End(u, "failed")
     ELSE To(u, "access", [page[u] EXCEPT !.seen = record])

\* The row as it was read, the shares as they are now.
CheckAccess(u) ==
  /\ page[u].at = "access"
  /\ IF u \in Admin \/ u \in {page[u].seen.owner, page[u].seen.assignee} \/ share[u] # {}
     THEN To(u, "Layout", page[u]) ELSE End(u, "failed")

\* The record is read again, with the fields of the layout and whether deleted or not.  An
\* exception before that leaves record_data the list it was, one after it the record.
ReadLayout(u) ==
  /\ page[u].at = "Layout"
  /\ \/ End(u, "no layout")
     \/ Fails(u, "Layout", page[u])
     \/ \E late \in BOOLEAN, names \in SUBSET {"Field level permissions"} :
          LET p == [page[u] EXCEPT !.data = IF Visible(u) THEN "row" ELSE "empty", !.errors = @ \cup names]
          IN  ~Denied(u) /\ IF late THEN Fails(u, "Layout", p) ELSE Fetched(u, "Layout", p)

FetchPart(u, part) ==
  /\ part \in Plain /\ page[u].at = part
  /\ Fetched(u, part, page[u]) \/ Fails(u, part, page[u])

\* Mutant: a failure leaves no permissions and no word.
ReadPermissionsQuietly(u) ==
  /\ page[u].at = "Permission"
  /\ \/ Fetched(u, "Permission", [page[u] EXCEPT !.offers = rights[u]])
     \/ To(u, After("Permission"), [page[u] EXCEPT !.offers = NoRow])

ReadPermissions(u) ==
  /\ page[u].at = "Permission"
  /\ \/ Fetched(u, "Permission", [page[u] EXCEPT !.offers = rights[u]])
     \/ Fails(u, "Permission", page[u])

Adjusted(u) ==
  LET edits == "write" \in share[u] IN
    IF page[u].offers = NoRow THEN {"read"} \cup (IF edits THEN {"edit", "write"} ELSE {})
    ELSE page[u].offers \ ({"delete"} \cup (IF edits THEN {} ELSE {"edit"}))

\* Mutant: only shares for writing are looked up.
AdjustForWriters(u) ==
  /\ page[u].at = "Shared record permissions"
  /\ LET part == "Shared record permissions" IN
       \/ Fails(u, part, page[u])
       \/ "write" \notin share[u] /\ Fetched(u, part, page[u])
       \/ "write" \in share[u] /\ page[u].offers # Unset /\ Fetched(u, part, [page[u] EXCEPT !.offers = Adjusted(u)])

\* A reader with a share is offered what the share allows; without permissions that were read,
\* if only that there are none, this fails.
AdjustOffers(u) ==
  /\ page[u].at = "Shared record permissions"
  /\ LET part == "Shared record permissions" IN
       \/ Fails(u, part, page[u])
       \/ share[u] = {} /\ Fetched(u, part, page[u])
       \/ share[u] # {} /\ page[u].offers = Unset /\ MustFail(u, part, page[u])
       \/ share[u] # {} /\ page[u].offers # Unset /\ Fetched(u, part, [page[u] EXCEPT !.offers = Adjusted(u)])

\* The groups in turn; a check that fails says no; the last answer is kept, and the settings
\* of the last group that said yes.  An exception ends the loop, or comes before it.
ReadTelephony(u) ==
  /\ page[u].at = "Telephony config"
  /\ LET part == "Telephony config" IN
       \/ Fails(u, part, page[u])
       \/ \E n \in 0..Len(Landing), broken \in SUBSET DOMAIN Landing :
            LET can(i) == i \notin broken /\ Landing[i] \in Member[u]
                yes    == {i \in 1..n : can(i)}
                last   == CHOOSE i \in yes : \A j \in yes : j <= i
                p      == [page[u] EXCEPT !.calls = [canview |-> n > 0 /\ can(n),
                                                     settings |-> IF yes = {} THEN None ELSE Landing[last]]]
            IN  IF n < Len(Landing) THEN Fails(u, part, p) ELSE Fetched(u, part, p)

\* The roll-ups are evaluated, then the formulas, if the record is there; what fails of them is only
\* printed.  The page needs a record that is one, permissions and the answer on calls.
Build(u) ==
  LET p == page[u] IN
  /\ p.at = "build"
  /\ \E done \in SUBSET Computed :
       /\ p.data # "row" => done = {}
       /\ IF p.data = "list" \/ Unset = p.offers \/ Unset = p.calls THEN End(u, "failed")
          ELSE To(u, "closed", [p EXCEPT !.there = @ \cup done, !.outcome = "page"])

Next ==
  \/ Change
  \/ \E u \in Reader :
       \/ Open(u) \/ ReadRecord(u) \/ CheckAccess(u) \/ ReadLayout(u) \/ ReadPermissions(u)
       \/ AdjustOffers(u) \/ ReadTelephony(u) \/ Build(u)
       \/ \E part \in Plain : FetchPart(u, part)

----------------------------------------------------------------------------
\* Properties

Shown(u) == page[u].outcome = "page"
Offered(u) == IF page[u].offers = NoRow THEN {} ELSE page[u].offers

\* A page that is shown offers somebody who neither owns the record nor is assigned to it and
\* is no administrator: no deletion, and an edit only with a share for writing; unless the
\* message says that shares could not be read, or something changed while the page was built.
OffersFollowShares ==
  \A u \in Reader :
    /\ Shown(u) /\ ~page[u].disturbed /\ u \notin Admin \cup {record.owner, record.assignee}
    /\ "Shared record permissions" \notin page[u].errors
    => "delete" \notin Offered(u) /\ ("edit" \in Offered(u) => "write" \in share[u])

\* What a page lacks and its message does not name.
Untold(u) == ((Named \ {"Field level permissions"}) \cup Computed) \ (page[u].there \cup page[u].errors)

\* A page that is shown has every part that was fetched for it, or its message names the part: all
\* that it may lack without a word are the roll-ups and formulas, whose failure is only printed.  And
\* it has the record's data, unless the record went out of reach while the page was built.
PageTellsWhatIsMissing ==
  \A u \in Reader : Shown(u) =>
    /\ Untold(u) \subseteq Computed
    /\ page[u].data = "row" \/ page[u].disturbed
=============================================================================
