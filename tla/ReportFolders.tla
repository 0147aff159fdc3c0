----------------------------- MODULE ReportFolders -----------------------------
(***************************************************************************)
(* The sidebar of reports (get_reports): the folders of a user, those      *)
(* shared with the user or with the user's profile, all folders below them *)
(* level by level, and the reports in them.  Each is a query of its own,   *)
(* while others create, move, share and delete.  build_folder_tree makes a *)
(* tree of the folders for the sidebar of dashboards.                      *)
(***************************************************************************)
EXTENDS Integers, FiniteSets, Sequences, SequencesExt

CONSTANTS
  Folder, Report,
  Owner,             \* users that own folders
  Reader,            \* the one that opens the sidebar
  Start,             \* forests to begin with: owner and parent of each folder
  Root,              \* no parent
  None,
  MaxChanges         \* bound: changes by others

Live == [owner : Owner, parent : Folder \cup {Root}, deleted : BOOLEAN]

FolderAssumption ==
  /\ Reader \in Owner /\ Root \notin Folder /\ Start \subseteq [Folder -> Live]
  /\ IsFiniteSet(Folder) /\ MaxChanges \in Nat

VARIABLES
  folders,           \* the rows of report_folder
  shares,            \* report_folder_sharing: rows that name the reader or the reader's profile
  reports,           \* the folder of each report, or None
  listing,           \* the request that reads
  changes

vars == <<folders, shares, reports, listing, changes>>
data == <<folders, shares, reports>>

Idle == [at |-> "idle", found |-> <<>>, named |-> {}, next |-> {}, reports |-> {}, calm |-> TRUE]

TypeOK ==
  /\ folders \in [Folder -> Live]
  /\ shares \in [Folder -> {"none", "shared", "withdrawn"}]
  /\ reports \in [Report -> Folder \cup {None}]
  /\ listing.at \in {"idle", "shares", "shared", "level", "reports", "done"}
  /\ listing.found \in Seq(Folder) /\ {listing.named, listing.next} \subseteq SUBSET Folder
  /\ changes \in 0..MaxChanges

Init ==
  /\ folders \in Start /\ shares \in [Folder -> {"none", "shared"}]
  /\ Cardinality({f \in Folder : shares[f] = "shared"}) <= 1
  /\ reports \in [Report -> Folder] /\ listing = Idle /\ changes = 0

Here(f) == ~folders[f].deleted
Children(S) == {f \in Folder : Here(f) /\ folders[f].parent \in S}
Listed == ToSet(listing.found)

----------------------------------------------------------------------------
\* get_reports

ReadMine ==
  /\ listing.at = "idle"
  /\ listing' = [Idle EXCEPT !.at = "shares", !.found = SetToSeq({f \in Folder : Here(f) /\ folders[f].owner = Reader})]
  /\ UNCHANGED <<data, changes>>

\* Rows that were withdrawn are read with the others.
ReadShares ==
  /\ listing.at = "shares"
  /\ listing' = [listing EXCEPT !.at = "shared", !.named = {f \in Folder : shares[f] # "none"}]
  /\ UNCHANGED <<data, changes>>

\* Nothing found: nothing is answered.
ReadShared ==
  LET more == {f \in listing.named : Here(f)} \ Listed
  IN  /\ listing.at = "shared"
      /\ listing' = [listing EXCEPT !.at = IF Listed \cup more = {} THEN "done" ELSE "level",
                                    !.found = @ \o SetToSeq(more), !.next = Listed \cup more]
      /\ UNCHANGED <<data, changes>>

\* Mutant: folders that were found before are taken again.
ReadLevelAgain ==
  LET more == Children(listing.next)
  IN  /\ listing.at = "level"
      /\ listing' = [listing EXCEPT !.at = IF more = {} THEN "reports" ELSE "level",
                                    !.found = @ \o SetToSeq(more), !.next = more]
      /\ UNCHANGED <<data, changes>>

\* One level below those found last, without what was found before.
ReadLevel ==
  LET more == Children(listing.next) \ Listed
  IN  /\ listing.at = "level"
      /\ listing' = [listing EXCEPT !.at = IF more = {} THEN "reports" ELSE "level",
                                    !.found = @ \o SetToSeq(more), !.next = more]
      /\ UNCHANGED <<data, changes>>

ReadReports ==
  /\ listing.at = "reports"
  /\ listing' = [listing EXCEPT !.at = "done", !.reports = {r \in Report : reports[r] \in Listed}]
  /\ UNCHANGED <<data, changes>>

Close == listing.at = "done" /\ listing' = Idle /\ UNCHANGED <<data, changes>>

----------------------------------------------------------------------------
\* The other requests

Changed == changes < MaxChanges /\ changes' = changes + 1 /\ listing' = [listing EXCEPT !.calm = FALSE]

\* patch_permission takes any parent.
Move(f, p) ==
  /\ Changed /\ Here(f) /\ folders' = [folders EXCEPT ![f].parent = p] /\ UNCHANGED <<shares, reports>>

Share(f) == Changed /\ shares' = [shares EXCEPT ![f] = "shared"] /\ UNCHANGED <<folders, reports>>

\* A deleted row of a table with is_deleted is marked.
Withdraw(f) ==
  /\ Changed /\ shares[f] = "shared"
  /\ shares' = [shares EXCEPT ![f] = "withdrawn"] /\ UNCHANGED <<folders, reports>>

MoveReport(r, f) ==
  /\ Changed /\ Here(f) /\ reports[r] # None /\ reports' = [reports EXCEPT ![r] = f] /\ UNCHANGED <<folders, shares>>

\* A report or a folder is refused deletion while a dashboard uses the report, or one of the
\* folder's; folders below the one deleted stay, and so do its reports.
DeleteReport(r) == Changed /\ reports[r] # None /\ reports' = [reports EXCEPT ![r] = None] /\ UNCHANGED <<folders, shares>>

DeleteFolder(f) ==
  /\ Changed /\ Here(f) /\ folders' = [folders EXCEPT ![f].deleted = TRUE] /\ UNCHANGED <<shares, reports>>

Next ==
  \/ ReadMine \/ ReadShares \/ ReadShared \/ ReadLevel \/ ReadReports \/ Close
  \/ \E f \in Folder : \/ Share(f) \/ Withdraw(f) \/ DeleteFolder(f)
                       \/ \E p \in Folder \cup {Root} : Move(f, p)
                       \/ \E r \in Report : MoveReport(r, f)
  \/ \E r \in Report : DeleteReport(r)

----------------------------------------------------------------------------
\* The tree of a sidebar

\* build_folder_tree: roots are the folders whose parent is not among the folders read; those
\* of a circle hang below nothing.
build_folder_tree(S) ==
  LET below[n \in 0..Cardinality(S)] ==
        IF n = 0 THEN {f \in S : folders[f].parent \notin S}
        ELSE below[n - 1] \cup {f \in S : folders[f].parent \in below[n - 1]}
  IN  below[Cardinality(S)]

Ancestors(f) ==
  LET up[n \in 0..Cardinality(Folder)] == IF n = 0 THEN {f} ELSE up[n - 1] \cup {folders[g].parent : g \in up[n - 1] \ {Root}}
  IN  up[Cardinality(Folder)] \ {Root}

\* Mutant: a node of somebody else is left out with all below it.
OnlyOwn(S) == {f \in build_folder_tree(S) : \A g \in Ancestors(f) \cap S : folders[g].owner = Reader}

\* What is the user's own, with all below it and the way there.
filter_tree_by_creator(S) ==
  {f \in build_folder_tree(S) : \E g \in build_folder_tree(S) :
      folders[g].owner = Reader /\ (g \in Ancestors(f) \/ f \in Ancestors(g))}

----------------------------------------------------------------------------
\* Properties

\* What the sidebar should hold: the least set with the user's folders and the shared ones
\* that has all below its members.
Reachable ==
  LET top == {f \in Folder : Here(f) /\ (folders[f].owner = Reader \/ shares[f] # "none")}
      to[n \in 0..Cardinality(Folder)] == IF n = 0 THEN top ELSE to[n - 1] \cup Children(to[n - 1])
  IN  to[Cardinality(Folder)]

\* Whatever is moved meanwhile, also into a circle, no folder is listed twice, and a listing
\* that nothing disturbed holds every folder that is reachable and every report of them.
ListingsAreWhole ==
  /\ Cardinality(Listed) = Len(listing.found)
  /\ listing.at = "done" /\ listing.calm =>
       /\ Listed = Reachable
       /\ listing.reports = {r \in Report : reports[r] \in Reachable}

\* A folder of the user that is in no circle appears in the user's tree.
OwnFoldersAppear ==
  LET S == {f \in Folder : Here(f)}
      InCircle(f) == \E g \in S : /\ g \in Ancestors(f) /\ Ancestors(f) \subseteq S
                                  /\ \E h \in S : folders[h].parent = g /\ h \in Ancestors(g) /\ g \in Ancestors(h)
  IN  \A f \in S : folders[f].owner = Reader /\ ~InCircle(f) => f \in filter_tree_by_creator(S)
=============================================================================
