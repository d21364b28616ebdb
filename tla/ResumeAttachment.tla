-------------------------- MODULE ResumeAttachment --------------------------
(***************************************************************************)
(* How a Latch result becomes a row of the application's resume            *)
(* attachments (workers/latch/src/queue.ts,                                *)
(* buildResumeAttachmentPersistencePlan).                                  *)
(*                                                                         *)
(* A row is [key, version, url]: its identity, the resume version it names *)
(* (NoVersion for a file the user attached without one) and the artifact   *)
(* it points to.  File names follow the artifact and are left out.  The    *)
(* rows are read without an order, so `find' may answer any match: a plan  *)
(* is a member of Plans.                                                   *)
(***************************************************************************)
EXTENDS FiniteSets

CONSTANT NoVersion      \* attachment.resumeVersionId = null

NoRow == [none |-> TRUE]

Plan(action, row, version, url) ==
  [action |-> action, row |-> row, version |-> version, url |-> url]
NoPlan == Plan("none", NoRow, NoVersion, NoVersion)
Keep(row) == Plan("existing", row, row.version, row.url)
Rewrite(row, version, url) == Plan("update", row, version, url)
Insert(version, url) == Plan("create", NoRow, version, url)

ByVersion(rows, version) == {row \in rows : row.version = version}
ByArtifact(rows, url) == {row \in rows : row.url = url}

\* A row of the version itself is kept, or normalised to the artifact.
PlanForVersionRow(row, url) ==
  IF row.url = url THEN Keep(row) ELSE Rewrite(row, row.version, url)

\* A row of the artifact that another version owns is a conflict; an unowned
\* one is bound.
PlanForArtifactRow(row, version, url) ==
  IF row.version # NoVersion THEN NoPlan ELSE Rewrite(row, version, url)

\* `known' says whether the database has the resume version, whose artifact is
\* then at `url' (there is always one: the application's own path at least).
Plans(version, known, url, rows) ==
  IF version = NoVersion THEN {NoPlan}
  ELSE IF ByVersion(rows, version) # {}
         THEN {IF known THEN PlanForVersionRow(row, url) ELSE Keep(row)
                 : row \in ByVersion(rows, version)}
  ELSE IF ~known THEN {NoPlan}
  ELSE IF ByArtifact(rows, url) # {}
         THEN {PlanForArtifactRow(row, version, url) : row \in ByArtifact(rows, url)}
  ELSE IF Cardinality(rows) = 1 THEN {Rewrite(row, version, url) : row \in rows}
  ELSE {Insert(version, url)}

\* persistResumeAttachment: an update by id throws when the row is gone.
Applicable(plan, rows) == plan.action = "update" => \E row \in rows : row.key = plan.row.key

\* The rows after the plan; `key' is the identity of a row it creates.
Persisted(plan, rows, key) ==
  LET row(k) == [key |-> k, version |-> plan.version, url |-> plan.url]
  IN CASE plan.action = "update" ->
            {old \in rows : old.key # plan.row.key} \cup {row(plan.row.key)}
       [] plan.action = "create" -> rows \cup {row(key)}
       [] OTHER -> rows

=============================================================================
