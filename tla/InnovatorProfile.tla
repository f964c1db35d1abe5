---------------------------- MODULE InnovatorProfile ---------------------------
(***************************************************************************)
(* The profile of one innovator: upsertProfile and getCompleteness of       *)
(* innovator.service.ts.  A row is the set of its columns that hold          *)
(* something and the percentage stored with it.                             *)
(***************************************************************************)
EXTENDS DomainRules

CONSTANT Inputs \* bound: what clients send

VARIABLE profile

\* The names are those of the account, which has both; the rest are columns.
Names == {"firstName", "lastName"}
Columns == ProfileFields \ Names

\* A request gives some of the columns, and some of those hold something.
Input == {i \in [given : SUBSET Columns, filled : SUBSET Columns] : i.filled \subseteq i.given}

ASSUME InputsAreRequests == Inputs \subseteq Input

Profile == [fields : SUBSET Columns, percent : 0..100]
NoProfile == [fields |-> {}, percent |-> 0]

\* A column that is not given keeps its value; sectors are replaced by a list
\* that is not empty only.
Cleared(i) == (i.given \ i.filled) \ {"sectorIds"}
Merged(fields, i) == (fields \ Cleared(i)) \union i.filled

\* The percentage is computed from the request alone: what the row keeps does
\* not count.  A slip (Bug_...) that no action uses counts what the row had.
Bug_StoredPercent(fields, i) == completionPercent(Names \union fields \union i.filled)
StoredPercent(fields, i) == completionPercent(Names \union i.filled)

Upserted(p, i) == [fields |-> Merged(p.fields, i), percent |-> StoredPercent(p.fields, i)]

\* upsertProfile(): one transaction.
upsertProfile(i) == profile' = Upserted(profile, i)

getCompleteness == completionPercent(Names \union profile.fields)

ProfileInit == profile = NoProfile

ProfileSpec == ProfileInit /\ [][\E i \in Inputs : upsertProfile(i)]_profile

--------------------------------------------------------------------------------
\* The stored percentage, which administrators and discovery go by, never tells
\* more than the profile holds, whatever sequence of partial updates led to it.
PercentNeverOverstated == profile.percent <= getCompleteness
================================================================================
