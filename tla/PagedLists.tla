----------------------------- MODULE PagedLists -----------------------------
(***************************************************************************)
(* The lists that the services answer page by page from Postgres: newest   *)
(* first, from an offset, with the number of all rows that match.  The     *)
(* page and the number are two statements that run at once, each of them   *)
(* sees the table as it is then, and between two pages the table changes.  *)
(* A client goes on while the offset of the next page is below the number; *)
(* the workflow service says so itself (next_page_token), elsewhere the    *)
(* client works it out.                                                    *)
(***************************************************************************)
EXTENDS Naturals, Sequences, SequencesExt, FiniteSets

CONSTANTS Rows, PageSize

ListAssumption == IsFiniteSet(Rows) /\ PageSize \in Nat \ {0}

VARIABLES
  list,      \* which list this is
  rows,      \* its table, newest first
  match,     \* the rows that match what the client filters by
  reader     \* the client: its offset, the answer of each statement (<<>> until
             \* it is there), the rows it has seen, and those it has to see

vars == <<list, rows, match, reader>>

Lists == {"workflows", "templates", "executions", "scheduledJobs", "customers",
          "invoices", "auditLogs", "revokedTokens"}
Changing == Lists \ {"templates", "auditLogs", "revokedTokens"}   \* rows that are updated

TypeOK ==
  /\ list \in Lists
  /\ rows \in Seq(Rows) /\ match \subseteq ToSet(rows)
  /\ reader.on \in BOOLEAN /\ reader.at \in Nat
  /\ reader.page \in {<<>>} \cup {<<S>> : S \in SUBSET Rows}
  /\ reader.total \in Seq(Nat) /\ Len(reader.total) <= 1
  /\ reader.seen \subseteq Rows /\ reader.due \subseteq Rows

Init ==
  /\ list \in Lists /\ rows = <<>> /\ match = {}
  /\ reader = [on |-> FALSE, at |-> 0, page |-> <<>>, total |-> <<>>, seen |-> {}, due |-> {}]

Position(r) == CHOOSE i \in DOMAIN rows : rows[i] = r
\* The rows that match and are newer than r.
Newer(r) == {q \in match : Position(q) < Position(r)}

-----------------------------------------------------------------------------
(* The table.  A row that begins to match between the number and the page  *)
(* pushes another one off the last page; one that ceases to match draws    *)
(* the older ones back onto the pages that were read.                      *)

Arrives == reader' = IF reader.total # <<>> /\ reader.page = <<>>
                     THEN [reader EXCEPT !.due = {}] ELSE reader
Leaves(r) == reader' = [reader EXCEPT !.due = {q \in @ : Position(q) < Position(r)}]

Create(r) ==
  /\ r \notin ToSet(rows)
  /\ rows' = <<r>> \o rows
  /\ \/ match' = match \cup {r} /\ Arrives
     \/ UNCHANGED <<match, reader>>
  /\ UNCHANGED list

Update(r) ==
  /\ list \in Changing /\ r \in ToSet(rows)
  /\ IF r \in match THEN match' = match \ {r} /\ Leaves(r)
                    ELSE match' = match \cup {r} /\ Arrives
  /\ UNCHANGED <<list, rows>>

\* cleanupExpiredRevocations: a revocation that has expired goes, in no order.
Cleanup(r) ==
  /\ list = "revokedTokens" /\ r \in ToSet(rows)
  /\ rows' = RemoveFirst(rows, r) /\ match' = match \ {r}
  /\ Leaves(r) /\ UNCHANGED list

-----------------------------------------------------------------------------
(* The client and the two statements.                                      *)

Ask == ~reader.on /\ reader' = [on |-> TRUE, at |-> 0, page |-> <<>>, total |-> <<>>,
                                seen |-> {}, due |-> match]
(* Mutant: the page begins one row too late.                               *)
FindManyPast == {r \in match : /\ reader.at + 1 <= Cardinality(Newer(r))
                               /\ Cardinality(Newer(r)) < reader.at + 1 + PageSize}
FindMany == {r \in match : /\ reader.at <= Cardinality(Newer(r))
                           /\ Cardinality(Newer(r)) < reader.at + PageSize}
Statement ==
  /\ reader.on
  /\ \/ reader.page = <<>> /\ reader' = [reader EXCEPT !.page = <<FindMany>>]
     \/ reader.total = <<>> /\ reader' = [reader EXCEPT !.total = <<Cardinality(match)>>]

Page ==
  /\ reader.on /\ reader.page # <<>> /\ reader.total # <<>>
  /\ LET more == reader.at + PageSize < reader.total[1]
     IN reader' = [reader EXCEPT !.seen = @ \cup reader.page[1], !.on = more,
                                 !.at = IF more THEN @ + PageSize ELSE 0,
                                 !.page = <<>>, !.total = <<>>]

List(l) == list = l /\ (Ask \/ Statement \/ Page) /\ UNCHANGED <<list, rows, match>>
ListWorkflows     == List("workflows")
ListTemplates     == List("templates")
ListExecutions    == List("executions")
ListScheduledJobs == List("scheduledJobs")
ListCustomers     == List("customers")
ListInvoices      == List("invoices")
GetAuditLogs      == List("auditLogs")
GetRevokedTokens  == List("revokedTokens")

Next ==
  \/ \E r \in Rows : Create(r) \/ Update(r) \/ Cleanup(r)
  \/ ListWorkflows \/ ListTemplates \/ ListExecutions \/ ListScheduledJobs
  \/ ListCustomers \/ ListInvoices \/ GetAuditLogs \/ GetRevokedTokens

Spec == Init /\ [][Next]_vars

-----------------------------------------------------------------------------
(* A client that goes through a list from its first page to its last has   *)
(* seen every row that matched when it began, but for the rows older than  *)
(* one that ceased to match, and unless a new one came in between the two  *)
(* statements of a page, the number first.                                 *)
PagesMissNothing == ~reader.on => reader.due \subseteq reader.seen
=============================================================================
