--------------------------------- MODULE Access --------------------------------
(***************************************************************************)
(* What stands in front of every handler of the API: a credential (an API  *)
(* key or a signed token) becomes a principal with a role, the role's      *)
(* scopes decide on the door, and the tenant whose store it works on is    *)
(* the principal's own unless the door takes a tenant and the role may     *)
(* cross.  A door is one endpoint: the scope it requires, whether it asks  *)
(* for admin authority besides, whether a caller may name another tenant,  *)
(* and the stores it changes.  RateLimiter is the component that counts    *)
(* requests; here it admits one or not.                                    *)
(***************************************************************************)
EXTENDS Integers

CONSTANTS
  Tenants,      \* tenant ids
  Subjects,     \* principals, each with a role and a tenant
  RoleOf,       \* subject -> role (a role nobody defined reads as readonly)
  HomeOf,       \* subject -> tenant
  Leeway,       \* clock leeway of a token
  MaxTick,      \* bound on the clock
  Nobody        \* no tenant named, no verdict, a claim a token does not make

ASSUME AccessAssumption ==
  /\ RoleOf \in [Subjects -> STRING] /\ HomeOf \in [Subjects -> Tenants]
  /\ Leeway \in Nat /\ MaxTick \in Nat

VARIABLES
  tick,     \* the clock
  verdict   \* the last request and how it was answered

accessVars == <<tick, verdict>>

ScopesOfRole ==
  [admin    |-> {"read", "ingest", "export", "admin", "cross"},
   analyst  |-> {"read", "ingest"},
   auditor  |-> {"read", "export"},
   mssp     |-> {"read", "ingest", "cross"},
   service  |-> {"read", "ingest"},
   readonly |-> {"read"}]

Scopes(s) ==
  ScopesOfRole[IF RoleOf[s] \in DOMAIN ScopesOfRole THEN RoleOf[s] ELSE "readonly"]

Has(s, scope) == scope \in Scopes(s) \/ "admin" \in Scopes(s)

MayRead(s, tenant) ==
  tenant = HomeOf[s] \/ "cross" \in Scopes(s) \/ "admin" \in Scopes(s)

(***************************************************************************)
(* The doors.                                                              *)
(***************************************************************************)
Door(name, scope, admin, cross, writes) ==
  [name |-> name, scope |-> scope, admin |-> admin, cross |-> cross, writes |-> writes]

ReadDoor(name) == Door(name, "read", FALSE, TRUE, {})

IngestDoors ==
  {Door("ingest", "ingest", FALSE, FALSE, {"jobs", "reports"}),
   Door("generate", "ingest", FALSE, FALSE, {"jobs", "reports"}),
   Door("ingest_file", "ingest", FALSE, FALSE, {"jobs", "reports"}),
   Door("ingest_config", "ingest", FALSE, FALSE, {"reports"}),
   Door("job_status", "read", FALSE, FALSE, {})}

ReportDoors ==
  {ReadDoor(n) : n \in {"list_reports", "get_report", "report_html", "frameworks",
                        "summary", "trend"}}

\* transition_finding is a door for each kind of action: only the name
\* accept_risk asks for admin, and reaccept accepts a risk as well.
FindingDoors ==
  {Door("derive_findings", "ingest", FALSE, FALSE, {"findings"}),
   ReadDoor("list_findings"), ReadDoor("finding_history"),
   Door("transition", "ingest", FALSE, FALSE, {"findings"}),
   Door("accept_risk", "ingest", TRUE, FALSE, {"findings", "acceptances"}),
   Door("reaccept", "ingest", FALSE, FALSE, {"findings", "acceptances"})}

AttestationDoors ==
  {ReadDoor("list_attestations"),
   Door("submit_attestation", "ingest", FALSE, FALSE, {"attestations"}),
   Door("approve_attestation", "ingest", TRUE, FALSE, {"decisions"}),
   Door("reject_attestation", "ingest", TRUE, FALSE, {"decisions"})}

ConnectorDoors ==
  {ReadDoor("list_connectors"),
   Door("register_connector", "ingest", TRUE, FALSE, {"connectors"}),
   Door("run_connector", "ingest", TRUE, FALSE, {"connectors", "reports", "findings"}),
   Door("posture_run", "ingest", TRUE, FALSE, {"connectors", "reports", "findings"}),
   ReadDoor("list_posture_runs"), ReadDoor("get_posture_run")}

AuditDoors ==
  {Door("create_audit_period", "ingest", TRUE, FALSE, {"periods"}),
   ReadDoor("list_audit_periods"), ReadDoor("get_audit_period"),
   Door("add_evidence_request", "ingest", FALSE, FALSE, {"evidence requests"}),
   Door("fulfill_evidence_request", "ingest", FALSE, FALSE, {"evidence requests"}),
   Door("signoff_audit_period", "export", FALSE, FALSE, {"sign-offs"}),
   Door("reopen_audit_period", "ingest", TRUE, FALSE, {"periods"}),
   Door("download_audit_package", "export", FALSE, FALSE, {})}

WorkspaceDoors ==
  {ReadDoor("compliance_controls"), ReadDoor("compliance_control"),
   Door("update_control", "ingest", FALSE, FALSE, {"profiles"}),
   Door("admin_audit_log", "read", TRUE, TRUE, {}),
   Door("admin_audit_verify", "read", TRUE, TRUE, {}),
   Door("queue_stats", "read", TRUE, FALSE, {})}

ScimDoors ==
  {Door(n, "admin", FALSE, FALSE, {"users"}) : n \in {"scim_create", "scim_replace", "scim_delete"}}
  \cup {Door(n, "admin", FALSE, FALSE, {}) : n \in {"scim_list", "scim_get"}}

EvidenceDoors ==
  {ReadDoor("get_evidence"),
   Door("place_legal_hold", "export", FALSE, FALSE, {"holds"}),
   Door("release_legal_hold", "admin", FALSE, FALSE, {"releases"}),
   Door("evidence_posture", "read", FALSE, FALSE, {}),
   Door("evidence_access_log", "export", FALSE, TRUE, {}),
   Door("oscal", "export", FALSE, TRUE, {}), Door("audit_export", "export", FALSE, TRUE, {}),
   ReadDoor("diff")}

Doors ==
  UNION {IngestDoors, ReportDoors, FindingDoors, AttestationDoors, ConnectorDoors,
         AuditDoors, WorkspaceDoors, ScimDoors, EvidenceDoors}

(***************************************************************************)
(* A request.                                                              *)
(***************************************************************************)
\* A credential is a known API key, or a token with its claims; `sound`
\* says that the key is known, or that the token's signature verifies and
\* its issuer and audience are the configured ones.  A token need not
\* claim an end or a beginning.
Credentials ==
  [kind : {"key"}, sub : Subjects, sound : BOOLEAN]
  \cup [kind : {"token"}, sub : Subjects, sound : BOOLEAN,
        nbf : {0, 2, Nobody}, exp : {1, MaxTick, Nobody}]

\* authenticate, and verify_jwt for a token.
Authentic(c) ==
  /\ c.sound
  /\ c.kind = "token" => /\ c.exp # Nobody => tick <= c.exp + Leeway
                         /\ c.nbf # Nobody => c.nbf <= tick + Leeway

Target(s, tenant) == IF tenant = Nobody THEN HomeOf[s] ELSE tenant

\* mutant: the scope of the door is all that is asked
AnyAuthority(s, door) == TRUE

HasAuthority(s, door) == door.admin => Has(s, "admin")

\* require, then the handler's own check of authority, then _store_for.
Answer(s, door, tenant) ==
  CASE ~Has(s, door.scope)                     -> "403"
    [] ~HasAuthority(s, door)                  -> "403"
    [] ~MayRead(s, Target(s, tenant))          -> "403"
    [] OTHER                                   -> "served"

Refused(c) ==
  /\ ~Authentic(c)
  /\ verdict' = [cred |-> c, answer |-> "401", at |-> tick]
  /\ UNCHANGED tick

Throttled(c) ==
  /\ Authentic(c)
  /\ verdict' = [cred |-> c, answer |-> "429", at |-> tick]
  /\ UNCHANGED tick

AskDoor(c, door, tenant) ==
  /\ Authentic(c)
  /\ tenant = Nobody \/ door.cross
  /\ verdict' = [cred |-> c, answer |-> Answer(c.sub, door, tenant), at |-> tick,
                 door |-> door, tenant |-> Target(c.sub, tenant)]
  /\ UNCHANGED tick

\* The next request comes; requests do not meet here.
Answered ==
  /\ verdict # Nobody
  /\ verdict' = Nobody
  /\ UNCHANGED tick

GateTick ==
  /\ tick < MaxTick
  /\ tick' = tick + 1
  /\ UNCHANGED verdict

AccessInit == tick = 0 /\ verdict = Nobody

\* A request comes when the one before it has been answered.
RequestComes ==
  /\ verdict = Nobody
  /\ \E c \in Credentials :
       \/ Refused(c) \/ Throttled(c)
       \/ \E d \in Doors, t \in Tenants \cup {Nobody} : AskDoor(c, d, t)

AccessNext ==
  \/ RequestComes
  \/ Answered
  \/ GateTick

AccessSpec == AccessInit /\ [][AccessNext]_accessVars

LetIn == verdict # Nobody /\ verdict.answer = "served"

\* A role and a door meet in a way that keeps duties apart: nobody is let in
\* on a credential that is unknown, or a token out of the dates it claims; nobody
\* changes another tenant's stores; a role that only reads changes nothing; one
\* that audits signs off and holds evidence but never feeds, accepts or
\* decides; and what needs an administrator (deciding an attestation, opening
\* a period, lifting a hold, connectors, users) is out of every other
\* role's reach.
DutiesApart ==
  LetIn =>
    LET c == verdict.cred
        role == RoleOf[verdict.cred.sub]
        writes == verdict.door.writes
    IN  /\ c.sound
        /\ c.kind = "token" => /\ c.exp # Nobody => verdict.at <= c.exp + Leeway
                               /\ c.nbf # Nobody => c.nbf - Leeway <= verdict.at
        /\ verdict.tenant # HomeOf[verdict.cred.sub] => role \in {"admin", "mssp"} /\ writes = {}
        /\ role \notin {"admin", "analyst", "service", "mssp", "auditor"} => writes = {}
        /\ role = "auditor" => writes \subseteq {"sign-offs", "holds"}
        /\ role # "admin" =>
             writes \cap {"decisions", "periods", "releases", "connectors", "users"} = {}

\* "Risk acceptance is an approval authority — require the admin scope."
\* (main.py:492): whoever is let in to accept a risk is an administrator.
AcceptanceIsReserved ==
  LetIn /\ "acceptances" \in verdict.door.writes =>
    RoleOf[verdict.cred.sub] = "admin"

\* "Verification always enforces: signature, `exp` (not expired), `nbf` (not
\* before)" (jwt_auth.py:18-19): whoever is let in on a token is so between a
\* beginning and an end that the token has.
TokensAreDated ==
  LetIn /\ verdict.cred.kind = "token" =>
    /\ verdict.cred.exp # Nobody /\ verdict.at <= verdict.cred.exp + Leeway
    /\ verdict.cred.nbf # Nobody /\ verdict.cred.nbf - Leeway <= verdict.at
================================================================================
