------------------------------- MODULE Models -------------------------------
(***************************************************************************)
(* The schema the program works with: the models of app/models, written    *)
(* as the tables of module Schema.                                         *)
(***************************************************************************)
EXTENDS Schema

\* app/models/enums.py, and the names pg_enum gives the types in the models.
DeclaredTypes ==
    [user_role |-> {"admin", "analyst", "viewer"},
     log_source_type |->
         {"syslog", "firewall", "ids", "endpoint", "cloud_trail", "application",
          "authentication", "network_flow", "database", "other"},
     log_source_status |-> {"pending", "active", "paused", "error", "disabled"},
     severity |-> {"info", "low", "medium", "high", "critical"},
     anomaly_type |->
         {"statistical", "behavioral", "signature", "correlation", "threshold",
          "machine_learning"},
     anomaly_status |->
         {"new", "triaged", "investigating", "confirmed", "false_positive", "dismissed"},
     incident_status |-> {"open", "investigating", "resolved"},
     attack_type |->
         {"brute_force", "credential_access", "privilege_escalation", "lateral_movement",
          "malware", "ransomware", "phishing", "data_exfiltration", "denial_of_service",
          "reconnaissance", "insider_threat", "policy_violation", "misconfiguration",
          "unknown", "other"},
     incident_priority |-> {"p1", "p2", "p3", "p4"},
     report_status |-> {"draft", "in_review", "approved", "published", "archived"},
     report_format |-> {"markdown", "html", "json", "pdf"},
     document_type |->
         {"playbook", "runbook", "policy", "threat_intel", "advisory", "compliance",
          "postmortem", "other"},
     ingestion_format |-> {"csv", "json", "ndjson"},
     ingestion_status |-> {"pending", "running", "completed", "partial", "failed"},
     audit_action |->
         {"create", "read", "update", "delete", "login", "logout", "login_failed", "export",
          "assign", "status_change"}]

User == Table([role |-> "user_role"], [role |-> "viewer"], {{"email"}, {"username"}}, {})

LogSource ==
    Table([source_type |-> "log_source_type", status |-> "log_source_status"],
          [status |-> "pending"], {{"name"}}, {SetNull("created_by_id", "users")})

LogEntry ==
    Table([severity |-> "severity", embedding |-> "vector"], [severity |-> "info"], {},
          {Cascade("log_source_id", "log_sources")})

Incident ==
    [Table([attack_type |-> "attack_type", severity |-> "severity",
            status |-> "incident_status", priority |-> "incident_priority"],
           [attack_type |-> "unknown", severity |-> "medium", status |-> "open",
            priority |-> "p3"], {{"number"}},
           {SetNull("assigned_to_id", "users"), SetNull("created_by_id", "users")})
     EXCEPT !.indexes = [ix_incidents_attack_type |-> "attack_type",
                         ix_incidents_attack_type_status |-> "attack_type"]]

Anomaly ==
    Table([anomaly_type |-> "anomaly_type", severity |-> "severity",
           status |-> "anomaly_status", fingerprint |-> "plain"],
          [severity |-> "medium", status |-> "new"], {{"fingerprint"}},
          {SetNull("log_entry_id", "log_entries"), SetNull("log_source_id", "log_sources"),
           SetNull("incident_id", "incidents"), SetNull("assigned_to_id", "users")})

IncidentReport ==
    Table([status |-> "report_status", format |-> "report_format"],
          [status |-> "draft", format |-> "markdown"], {{"incident_id", "version"}},
          {Cascade("incident_id", "incidents"), SetNull("author_id", "users")})

IncidentNote ==
    Table(Nothing, Nothing, {},
          {Cascade("incident_id", "incidents"), SetNull("author_id", "users")})

IncidentAttachment ==
    Table(Nothing, Nothing, {},
          {Cascade("incident_id", "incidents"), SetNull("uploaded_by_id", "users")})

IngestionJob ==
    Table([format |-> "ingestion_format", status |-> "ingestion_status"],
          [status |-> "pending"], {},
          {Cascade("log_source_id", "log_sources"), SetNull("created_by_id", "users")})

SecurityDocument ==
    Table([document_type |-> "document_type"], Nothing, {{"checksum"}},
          {SetNull("uploaded_by_id", "users")})

DocumentChunk ==
    [Table([embedding |-> "vector"], Nothing, {{"document_id", "chunk_index"}},
           {Cascade("document_id", "security_documents")})
     EXCEPT !.indexes = [ix_document_chunks_embedding_hnsw |-> "embedding"]]

AuditLog == Table([action |-> "audit_action"], Nothing, {}, {SetNull("actor_id", "users")})

\* Base.metadata.
Declared ==
    [types |-> DeclaredTypes,
     tables |-> [users |-> User, log_sources |-> LogSource, log_entries |-> LogEntry,
                 incidents |-> Incident, anomalies |-> Anomaly,
                 incident_reports |-> IncidentReport, incident_notes |-> IncidentNote,
                 incident_attachments |-> IncidentAttachment,
                 ingestion_jobs |-> IngestionJob, security_documents |-> SecurityDocument,
                 document_chunks |-> DocumentChunk, audit_logs |-> AuditLog]]
=============================================================================
