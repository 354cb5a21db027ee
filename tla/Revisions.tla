------------------------------ MODULE Revisions ------------------------------
(***************************************************************************)
(* The seven revisions under alembic/versions, upgrade and downgrade, as   *)
(* sequences of statements.                                                *)
(***************************************************************************)
EXTENDS Schema

ForEach(names, Statement(_)) == [i \in DOMAIN names |-> Statement(names[i])]
-----------------------------------------------------------------------------
(***************************************************************************)
(* 8a301cc1babd, initial schema.                                           *)
(***************************************************************************)
InitialTypes ==
    <<EnsureType("user_role", {"admin", "analyst", "responder", "viewer"}),
      EnsureType("severity", {"info", "low", "medium", "high", "critical"}),
      EnsureType("log_source_type",
          {"syslog", "firewall", "ids", "endpoint", "cloud_trail", "application",
           "authentication", "network_flow", "database", "other"}),
      EnsureType("log_source_status", {"pending", "active", "paused", "error", "disabled"}),
      EnsureType("anomaly_type",
          {"statistical", "behavioral", "signature", "correlation", "threshold",
           "machine_learning"}),
      EnsureType("anomaly_status",
          {"new", "triaged", "investigating", "confirmed", "false_positive", "dismissed"}),
      EnsureType("incident_status",
          {"open", "triaged", "investigating", "contained", "eradicated", "recovered",
           "closed"}),
      EnsureType("incident_priority", {"p1", "p2", "p3", "p4"}),
      EnsureType("report_status", {"draft", "in_review", "approved", "published", "archived"}),
      EnsureType("report_format", {"markdown", "html", "json", "pdf"}),
      EnsureType("document_type",
          {"playbook", "runbook", "policy", "threat_intel", "advisory", "compliance",
           "postmortem", "other"}),
      EnsureType("audit_action",
          {"create", "read", "update", "delete", "login", "logout", "login_failed", "export",
           "assign", "status_change"})>>

InitialUsers ==
    Table([role |-> "user_role"], [role |-> "analyst"], {{"email"}, {"username"}}, {})

InitialSources ==
    Table([source_type |-> "log_source_type", status |-> "log_source_status"],
          [status |-> "pending"], {{"name"}}, {SetNull("created_by_id", "users")})

InitialEntries ==
    Table([severity |-> "severity", embedding |-> "vector"], [severity |-> "info"], {},
          {Cascade("log_source_id", "log_sources")})

InitialIncidents ==
    Table([severity |-> "severity", status |-> "incident_status",
           priority |-> "incident_priority", category |-> "plain",
           contained_at |-> "plain", closed_at |-> "plain"],
          [severity |-> "medium", status |-> "open", priority |-> "p3"], {{"number"}},
          {SetNull("assigned_to_id", "users"), SetNull("created_by_id", "users")})

InitialAnomalies ==
    Table([anomaly_type |-> "anomaly_type", severity |-> "severity",
           status |-> "anomaly_status"],
          [severity |-> "medium", status |-> "new"], {},
          {SetNull("assigned_to_id", "users"), SetNull("incident_id", "incidents"),
           SetNull("log_entry_id", "log_entries"), SetNull("log_source_id", "log_sources")})

InitialReports ==
    Table([status |-> "report_status", format |-> "report_format"],
          [status |-> "draft", format |-> "markdown"], {{"incident_id", "version"}},
          {SetNull("author_id", "users"), Cascade("incident_id", "incidents")})

InitialDocuments ==
    Table([document_type |-> "document_type", embedding |-> "vector",
           embedding_model |-> "plain", embedded_at |-> "plain"], Nothing, {{"checksum"}},
          {SetNull("uploaded_by_id", "users")})

InitialAudit ==
    Table([action |-> "audit_action"], Nothing, {}, {SetNull("actor_id", "users")})

InitialUp ==
    <<CreateExtension>> \o InitialTypes \o
    <<CreateTable("users", InitialUsers),
      CreateTable("log_sources", InitialSources),
      CreateTable("log_entries", InitialEntries),
      CreateTable("incidents", InitialIncidents),
      CreateIndex("incidents", "ix_incidents_category", "category"),
      CreateTable("anomalies", InitialAnomalies),
      CreateTable("incident_reports", InitialReports),
      CreateTable("security_documents", InitialDocuments),
      CreateIndex("security_documents", "ix_security_documents_embedding_hnsw", "embedding"),
      CreateTable("audit_logs", InitialAudit)>>

InitialDown ==
    ForEach(<<"audit_logs", "security_documents", "incident_reports", "anomalies",
              "incidents", "log_entries", "log_sources", "users">>, DropTable)
    \o ForEach(Reverse([i \in DOMAIN InitialTypes |-> InitialTypes[i].type]), DropTypeIfThere)
-----------------------------------------------------------------------------
(***************************************************************************)
(* The swap of an enum type for one with other labels: _rebuild_user_role  *)
(* and _rebuild_status.                                                    *)
(***************************************************************************)
Rebuild(table, column, type, labels, default, mapping) ==
    <<DropDefault(table, column),
      RenameType(type, type \o "_old"),
      CreateType(type, labels),
      AlterType(table, column, type, mapping),
      SetDefault(table, column, default),
      DropType(type \o "_old")>>

(***************************************************************************)
(* 8a549b9707fc, restrict user roles.                                      *)
(***************************************************************************)
RoleDefault == "viewer"

RolesUp ==
    <<Update("users", "responder", "analyst")>>
    \o Rebuild("users", "role", "user_role", {"admin", "analyst", "viewer"}, RoleDefault, Nothing)

RolesDown ==
    Rebuild("users", "role", "user_role", {"admin", "analyst", "responder", "viewer"},
            "analyst", Nothing)

(***************************************************************************)
(* a50308d09ae3, add ingestion jobs.                                       *)
(***************************************************************************)
JobsUp ==
    <<EnsureType("ingestion_format", {"csv", "json", "ndjson"}),
      EnsureType("ingestion_status", {"pending", "running", "completed", "partial", "failed"}),
      CreateTable("ingestion_jobs",
          Table([format |-> "ingestion_format", status |-> "ingestion_status"],
                [status |-> "pending"], {},
                {SetNull("created_by_id", "users"), Cascade("log_source_id", "log_sources")}))>>

JobsDown ==
    <<DropTable("ingestion_jobs"), DropTypeIfThere("ingestion_status"),
      DropTypeIfThere("ingestion_format")>>

(***************************************************************************)
(* e9e79a9db3fd, add anomaly fingerprint.                                  *)
(***************************************************************************)
FingerprintUp ==
    <<AddColumn("anomalies", "fingerprint", "plain"),
      AddUnique("anomalies", {"fingerprint"})>>

FingerprintDown ==
    <<DropUnique("anomalies", {"fingerprint"}), DropColumn("anomalies", "fingerprint")>>

(***************************************************************************)
(* 753abb7600a4, incident management.                                      *)
(***************************************************************************)
Collapse ==
    [triaged |-> "open", contained |-> "investigating", eradicated |-> "investigating",
     recovered |-> "investigating", closed |-> "resolved"]

ManagementUp ==
    Rebuild("incidents", "status", "incident_status", {"open", "investigating", "resolved"},
            "open", Collapse)
    \o <<EnsureType("attack_type",
             {"brute_force", "credential_access", "privilege_escalation", "lateral_movement",
              "malware", "ransomware", "phishing", "data_exfiltration", "denial_of_service",
              "reconnaissance", "insider_threat", "policy_violation", "misconfiguration",
              "unknown", "other"}),
         DropIndex("incidents", "ix_incidents_category"),
         DropColumn("incidents", "category"),
         AddColumn("incidents", "attack_type", "attack_type"),
         SetDefault("incidents", "attack_type", "unknown"),
         CreateIndex("incidents", "ix_incidents_attack_type", "attack_type"),
         CreateIndex("incidents", "ix_incidents_attack_type_status", "attack_type"),
         DropColumn("incidents", "contained_at"),
         DropColumn("incidents", "closed_at"),
         CreateTable("incident_notes",
             Table(Nothing, Nothing, {},
                   {SetNull("author_id", "users"), Cascade("incident_id", "incidents")}))>>

ManagementDown ==
    <<DropTable("incident_notes"),
      AddColumn("incidents", "closed_at", "plain"),
      AddColumn("incidents", "contained_at", "plain"),
      DropIndex("incidents", "ix_incidents_attack_type_status"),
      DropIndex("incidents", "ix_incidents_attack_type"),
      DropColumn("incidents", "attack_type"),
      DropTypeIfThere("attack_type"),
      AddColumn("incidents", "category", "plain"),
      CreateIndex("incidents", "ix_incidents_category", "category")>>
    \o Rebuild("incidents", "status", "incident_status",
               {"open", "triaged", "investigating", "contained", "eradicated", "recovered",
                "closed"}, "open", Nothing)

(***************************************************************************)
(* acbe61e24ead, add document chunks.                                      *)
(***************************************************************************)
ChunksUp ==
    <<CreateTable("document_chunks",
          Table([embedding |-> "vector"], Nothing, {{"document_id", "chunk_index"}},
                {Cascade("document_id", "security_documents")})),
      CreateIndex("document_chunks", "ix_document_chunks_embedding_hnsw", "embedding"),
      DropIndex("security_documents", "ix_security_documents_embedding_hnsw"),
      DropColumn("security_documents", "embedding"),
      DropColumn("security_documents", "embedding_model"),
      DropColumn("security_documents", "embedded_at")>>

ChunksDown ==
    <<AddColumn("security_documents", "embedded_at", "plain"),
      AddColumn("security_documents", "embedding_model", "plain"),
      AddColumn("security_documents", "embedding", "vector"),
      CreateIndex("security_documents", "ix_security_documents_embedding_hnsw", "embedding"),
      DropIndex("document_chunks", "ix_document_chunks_embedding_hnsw"),
      DropTable("document_chunks")>>

(***************************************************************************)
(* a9602ab2287e, add incident attachments.                                 *)
(***************************************************************************)
AttachmentsUp ==
    <<CreateTable("incident_attachments",
          Table(Nothing, Nothing, {},
                {Cascade("incident_id", "incidents"), SetNull("uploaded_by_id", "users")}))>>

AttachmentsDown == <<DropTable("incident_attachments")>>
-----------------------------------------------------------------------------
\* The chain down_revision makes of them; a database at no revision is at 0.
Up == <<InitialUp, RolesUp, JobsUp, FingerprintUp, ManagementUp, ChunksUp, AttachmentsUp>>

Down == <<InitialDown, RolesDown, JobsDown, FingerprintDown, ManagementDown, ChunksDown,
          AttachmentsDown>>

Latest == Len(Up)

\* Chain[n]: from nothing to revision n; UpgradeFrom[n]: alembic upgrade head from n.
Chain == [n \in 0..Latest |-> FlattenSeq(SubSeq(Up, 1, n))]
UpgradeFrom == [n \in 0..Latest |-> FlattenSeq(SubSeq(Up, n + 1, Latest))]
=============================================================================
