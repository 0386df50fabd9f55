------------------------------- MODULE Tenancy -------------------------------
(***************************************************************************)
(* Tenants, their quotas and their packages for those who ask for access   *)
(* to what is kept of them (tenant-service).  A tenant is created by two   *)
(* statements that are each committed at once, of which the second is      *)
(* under row level security without a tenant: the role of the services may *)
(* not insert the row, the superuser of a development database may.        *)
(***************************************************************************)
EXTENDS Naturals, FiniteSets

CONSTANTS
  Slugs,        \* of tenants
  Askers,       \* requests that may be under way at the same time
  Subjects,     \* employees
  MaxPackages,
  NoSlug

VARIABLES
  role,         \* whom DATABASE_URL names
  tenant,       \* slugs with a row in tenants
  quotas,       \* slugs with a row in tenant_quotas
  told,         \* told[g]: what the last POST tenants of g was answered, or "nothing"
  named,        \* employees whose name is in their row
  packages,     \* packages[e]: how many dsar_requests have the name of e
  late,         \* late[e]: how many of them were kept after the erasure of e
  step,         \* step[k]: what request k has done
  about,        \* about[k]: the slug or the subject
  found         \* found[k]: the SELECT of the employee had the name

tenancyVars == <<role, tenant, quotas, told, named, packages, late, step, about,
                 found>>

TenancyInit ==
  /\ role \in {"ngois_app", "ngois"}
  /\ tenant = {} /\ quotas = {}
  /\ told = [g \in Slugs |-> "nothing"]
  /\ named = Subjects
  /\ packages = [e \in Subjects |-> 0] /\ late = [e \in Subjects |-> 0]
  /\ step = [k \in Askers |-> "idle"]
  /\ about = [k \in Askers |-> NoSlug]
  /\ found = [k \in Askers |-> FALSE]

Go(k, to, what) ==
  step' = [step EXCEPT ![k] = to] /\ about' = [about EXCEPT ![k] = what]
Over(k) == Go(k, "idle", NoSlug) /\ found' = [found EXCEPT ![k] = FALSE]
-----------------------------------------------------------------------------
\* POST tenant/tenants: INSERT INTO tenants, or 409 when the slug is taken.
InsertTenant(k, g) ==
  /\ step[k] = "idle"
  /\ IF g \in tenant
     THEN /\ told' = [told EXCEPT ![g] = "conflict"]
          /\ UNCHANGED <<tenant, step, about>>
     ELSE /\ tenant' = tenant \cup {g}
          /\ Go(k, "inserted", g)
          /\ UNCHANGED told
  /\ UNCHANGED <<role, quotas, named, packages, late, found>>

\* INSERT INTO tenant_quotas without app.tenant_id, whose policy refuses it to
\* the services: 500, the tenant stays.
InsertQuotas(k) ==
  /\ step[k] = "inserted"
  /\ IF role = "ngois"
     THEN quotas' = quotas \cup {about[k]} /\ told' = [told EXCEPT ![about[k]] = "created"]
     ELSE told' = [told EXCEPT ![about[k]] = "failed"] /\ UNCHANGED quotas
  /\ Over(k)
  /\ UNCHANGED <<role, tenant, named, packages, late>>

\* The process ends, or the connection is lost: what is committed stays.
Crash(k) ==
  /\ step[k] # "idle"
  /\ Over(k)
  /\ UNCHANGED <<role, tenant, quotas, told, named, packages, late>>

\* GET tenant/quotas, of the tenant's own: inserted if they are not there.
ReadQuotas(g) ==
  /\ g \in tenant
  /\ quotas' = quotas \cup {g}
  /\ UNCHANGED <<role, tenant, told, named, packages, late, step, about, found>>
-----------------------------------------------------------------------------
\* POST tenant/dsar-requests: SELECT the employee and the leave, and keep both
\* in the request.
ReadSubject(k, e) ==
  /\ step[k] = "idle" /\ packages[e] + Cardinality({j \in Askers : about[j] = e}) < MaxPackages
  /\ Go(k, "read", e)
  /\ found' = [found EXCEPT ![k] = e \in named]
  /\ UNCHANGED <<role, tenant, quotas, told, named, packages, late>>

KeepPackage(k) ==
  /\ step[k] = "read"
  /\ packages' = [packages EXCEPT ![about[k]] = @ + IF found[k] THEN 1 ELSE 0]
  /\ late' = [late EXCEPT ![about[k]] =
                @ + IF found[k] /\ about[k] \notin named THEN 1 ELSE 0]
  /\ Over(k)
  /\ UNCHANGED <<role, tenant, quotas, told, named>>

\* An erasure of the employee is executed; no package is touched.
EraseEmployee(e) ==
  /\ e \in named
  /\ named' = named \ {e}
  /\ UNCHANGED <<role, tenant, quotas, told, packages, late, step, about, found>>

TenancyNext ==
  \/ \E k \in Askers :
       \/ \E g \in Slugs : InsertTenant(k, g)
       \/ InsertQuotas(k) \/ Crash(k)
       \/ \E e \in Subjects : ReadSubject(k, e)
       \/ KeepPackage(k)
  \/ \E g \in Slugs : ReadQuotas(g)
  \/ \E e \in Subjects : EraseEmployee(e)
-----------------------------------------------------------------------------
TenancyTypeOK ==
  /\ tenant \subseteq Slugs /\ quotas \subseteq tenant /\ named \subseteq Subjects
  /\ told \in [Slugs -> {"nothing", "created", "conflict", "failed"}]
  /\ step \in [Askers -> {"idle", "inserted", "read"}]

\* A tenant that was said to be created is there with its quotas; under the role
\* of the services none is (tenant-service index.ts:113), the row stays, and
\* whoever tries again is told of a conflict.  A package with a name that is
\* erased was read before the erasure: at most as many are kept after it as
\* requests were under way (index.ts:301).
TenancyAgrees ==
  /\ \A g \in Slugs :
       /\ told[g] = "created" => g \in quotas /\ role = "ngois"
       /\ told[g] \in {"conflict", "failed"} => g \in tenant
  /\ \A e \in Subjects :
       /\ e \in named => late[e] = 0
       /\ e \notin named =>
            late[e] + Cardinality({k \in Askers : about[k] = e /\ found[k]})
              <= Cardinality(Askers)
=============================================================================
