------------------------------- MODULE Session -------------------------------
(***************************************************************************)
(* The session in the browser: the stores of authentication and of the     *)
(* tenant's configuration, each with a copy in localStorage that all tabs  *)
(* share, the router's guard, and the requests whose answers come back     *)
(* after the session has changed.  The functions of the stores run to      *)
(* their end but for their awaits.                                         *)
(***************************************************************************)
EXTENDS Naturals, FiniteSets

CONSTANTS
  Tabs, Tokens,
  Tenant,       \* the tenant of each token
  Permits,      \* the permissions of each token
  Visited,      \* the pages that are visited
  MaxCalls,     \* bound of the requests under way
  Nobody        \* no token, no tenant, no page

VARIABLES
  expired,      \* tokens the gateway answers with 401
  token, config, loaded,     \* the stores of each tab
  keptToken, keptConfig,     \* localStorage
  page,         \* the page each tab shows
  going,        \* the page its guard waits with
  calls,        \* requests under way: token, purpose, and the answer
  mixed         \* tabs that have taken a configuration from another session

sessVars == <<expired, token, config, loaded, keptToken, keptConfig,
              page, going, calls, mixed>>

\* What the router asks for a page, from its meta.
Needs(module, flag, permissions) ==
  [module |-> module, flag |-> flag, permissions |-> permissions]
Routes ==
  [grants        |-> Needs("grants", "", {"grant:award:list", "grant:award:read"}),
   reports       |-> Needs("reports", "", {"grant:report:read", "reporting:dashboard:read"}),
   finance       |-> Needs("finance", "", {"grant:expenditure:read", "grant:budget:read"}),
   employees     |-> Needs("hr", "", {"hr:employee:list", "hr:employee:read"}),
   leave         |-> Needs("hr", "", {"hr:leave:read", "hr:leave:request"}),
   payroll       |-> Needs("payroll", "", {"payroll:run:read"}),
   field         |-> Needs("field", "", {"field:form:read", "field:submission:create"}),
   training      |-> Needs("lms", "", {"lms:course:read", "lms:enrollment:read_own"}),
   notifications |-> Needs("notifications", "", {"notification:delivery:read", "notification:send"}),
   intelligence  |-> Needs("intelligence", "", {"reporting:dashboard:read", "grant:report:read"}),
   ai            |-> Needs("ai", "ai_insights", {"ai:insight:read", "ai:insight:request"}),
   compliance    |-> Needs("compliance", "", {"grant:compliance:read", "grant:iati:publish"}),
   webhooks      |-> Needs("integrations", "webhooks", {"webhook:subscription:manage", "webhook:delivery:read"}),
   home          |-> Needs("", "", {}),
   designSystem  |-> Needs("", "", {})]

\* The same of lib/nav.ts, by the permissions of the items.
Navigation ==
  [grants        |-> Needs("grants", "", {"grant:award:list", "grant:award:read"}),
   finance       |-> Needs("finance", "", {"grant:expenditure:read", "grant:budget:read"}),
   reports       |-> Needs("reports", "", {"grant:report:read", "reporting:dashboard:read"}),
   employees     |-> Needs("hr", "", {"hr:employee:list", "hr:employee:read"}),
   leave         |-> Needs("hr", "", {"hr:leave:read", "hr:leave:request"}),
   payroll       |-> Needs("payroll", "", {"payroll:run:read"}),
   training      |-> Needs("lms", "", {"lms:course:read", "lms:enrollment:read_own"}),
   field         |-> Needs("field", "", {"field:form:read", "field:submission:create"}),
   intelligence  |-> Needs("intelligence", "", {"reporting:dashboard:read", "grant:report:read"}),
   ai            |-> Needs("ai", "ai_insights", {"ai:insight:read", "ai:insight:request"}),
   compliance    |-> Needs("compliance", "", {"grant:compliance:read", "grant:iati:publish"}),
   notifications |-> Needs("notifications", "", {"notification:delivery:read", "notification:send"}),
   webhooks      |-> Needs("integrations", "webhooks", {"webhook:subscription:manage", "webhook:delivery:read"}),
   home          |-> Needs("", "", {}),
   designSystem  |-> Needs("", "", {})]

Guarded == DOMAIN Routes
Public == {"login", "callback"}
Detours == {"forbidden", "suspended", "unavailable"}

\* A configuration: whose it is, whether the tenant is active, and the modules
\* and flags that are off.  Without one everything is on.
Default == [of |-> Nobody, active |-> TRUE, off |-> {}]

SessionInit ==
  /\ expired = {}
  /\ token = [t \in Tabs |-> Nobody]
  /\ config = [t \in Tabs |-> Default]
  /\ loaded = [t \in Tabs |-> FALSE]
  /\ keptToken = Nobody /\ keptConfig = Default
  /\ page = [t \in Tabs |-> "login"]
  /\ going = [t \in Tabs |-> Nobody]
  /\ calls = [t \in Tabs |-> {}]
  /\ mixed = {}

\* auth.permissions, written and removed together with the token.
Permissions(k) == IF k = Nobody THEN {} ELSE Permits[k]

\* canAny, moduleEnabled and featureEnabled.
CanAny(k, wanted) == wanted = {} \/ wanted \cap Permissions(k) # {}
Meets(need, k, c) ==
  /\ need.module \notin c.off /\ need.flag \notin c.off
  /\ CanAny(k, need.permissions)

\* Where the guard leads when it has what it needs: no session, the tenant
\* suspended, module or flag off, permission missing, or the page itself.
Decision(p, k, c) ==
  IF k = Nobody THEN "login"
  ELSE IF ~c.active THEN "suspended"
  ELSE IF Routes[p].module \in c.off THEN "unavailable"
  ELSE IF ~CanAny(k, Routes[p].permissions) THEN "forbidden"
  ELSE IF Routes[p].flag \in c.off THEN "unavailable"
  ELSE p
-----------------------------------------------------------------------------
Owner(k) == IF k = Nobody THEN Nobody ELSE Tenant[k]

\* Whose answer a tab has taken: configurations of another tenant are noted.
Mixing(t, k, c) ==
  mixed' = IF c.of \in {Nobody, Owner(k)} THEN mixed \ {t} ELSE mixed \cup {t}

\* api() sends the token of the moment.
Sent(k, by) == [token |-> k, by |-> by, status |-> "sent", body |-> Default]
Room == Cardinality(UNION {{<<t, c>> : c \in calls[t]} : t \in Tabs}) < MaxCalls

\* The guard of page p with the stores k, c and l: it decides, or waits for the
\* bootstrap that has not been loaded.
Guard(t, p, k, c, l, open) ==
  IF l \/ k = Nobody
  THEN /\ page' = [page EXCEPT ![t] = Decision(p, k, c)]
       /\ going' = [going EXCEPT ![t] = Nobody]
       /\ calls' = [calls EXCEPT ![t] = open]
  ELSE /\ going' = [going EXCEPT ![t] = p]
       /\ calls' = [calls EXCEPT ![t] = open \cup {Sent(k, p)}]
       /\ UNCHANGED page

\* persistSession: token, user and permissions in the store and in localStorage.
Persist(t, k) ==
  /\ token' = [token EXCEPT ![t] = k] /\ keptToken' = k
  /\ Mixing(t, k, config[t])

\* afterSessionEstablished: persistSession, then loadBootstrap.
Establish(t, k) ==
  /\ Room /\ k \notin expired
  /\ Persist(t, k)
  /\ calls' = [calls EXCEPT ![t] = @ \cup {Sent(k, "login")}]
  /\ UNCHANGED <<expired, config, loaded, keptConfig, page, going>>

\* The password, or the identity provider's code, has been accepted.
Login(t, k) == page[t] = "login" /\ Establish(t, k)
CompleteOidc(t, k) == page[t] = "callback" /\ Establish(t, k)

\* The stores when a page is loaded: what localStorage has.
Restore(t) ==
  /\ token' = [token EXCEPT ![t] = keptToken]
  /\ config' = [config EXCEPT ![t] = keptConfig]
  /\ loaded' = [loaded EXCEPT ![t] = FALSE]
  /\ Mixing(t, keptToken, keptConfig)
  /\ UNCHANGED <<expired, keptToken, keptConfig>>

\* Off to the identity provider, and back at the page of the callback.
StartOidc(t) ==
  /\ page[t] = "login"
  /\ Restore(t)
  /\ page' = [page EXCEPT ![t] = "callback"]
  /\ calls' = [calls EXCEPT ![t] = {}]
  /\ UNCHANGED going

\* A link, or an address.
Navigate(t, p) ==
  /\ page[t] \notin Public /\ Room
  /\ Guard(t, p, token[t], config[t], loaded[t], calls[t])
  /\ UNCHANGED <<expired, token, config, loaded, keptToken, keptConfig, mixed>>

\* The page is loaded anew: the stores from localStorage, and the guard.
Reload(t, p) ==
  /\ Restore(t)
  /\ IF keptToken = Nobody
     THEN /\ page' = [page EXCEPT ![t] = "login"]
          /\ going' = [going EXCEPT ![t] = Nobody]
          /\ calls' = [calls EXCEPT ![t] = {}]
     ELSE /\ page' = [page EXCEPT ![t] = "blank"]
          /\ going' = [going EXCEPT ![t] = p]
          /\ calls' = [calls EXCEPT ![t] = {Sent(keptToken, p)}]

\* logout() and reset(): both stores and both copies.
Forget(t) ==
  /\ token' = [token EXCEPT ![t] = Nobody] /\ keptToken' = Nobody
  /\ config' = [config EXCEPT ![t] = Default] /\ keptConfig' = Default
  /\ mixed' = mixed \ {t}

\* Mutant: logout leaves the tenant's store alone.
LogoutKeepingConfig(t) ==
  /\ page[t] \notin Public /\ token[t] # Nobody
  /\ token' = [token EXCEPT ![t] = Nobody] /\ keptToken' = Nobody
  /\ page' = [page EXCEPT ![t] = "login"]
  /\ going' = [going EXCEPT ![t] = Nobody]
  /\ UNCHANGED <<expired, config, loaded, keptConfig, calls, mixed>>

\* The shell's button: and on to the login page.  Requests stay under way.
Logout(t) ==
  /\ page[t] \notin Public /\ token[t] # Nobody
  /\ Forget(t)
  /\ loaded' = [loaded EXCEPT ![t] = FALSE]
  /\ page' = [page EXCEPT ![t] = "login"]
  /\ going' = [going EXCEPT ![t] = Nobody]
  /\ UNCHANGED <<expired, calls>>

\* A view asks for its data.
Fetch(t) ==
  /\ page[t] \in Guarded /\ Room
  /\ calls' = [calls EXCEPT ![t] = @ \cup {Sent(token[t], "page")}]
  /\ UNCHANGED <<expired, token, config, loaded, keptToken, keptConfig,
                 page, going, mixed>>

\* The server answers with the configuration of the token's tenant, which may be
\* suspended and have modules switched off at any time; with 401, or not at all.
Settings(n) ==
  {[of |-> n, active |-> active, off |-> off] :
     active \in BOOLEAN, off \in {{}, {"grants"}}} \ {[of |-> n, active |-> FALSE, off |-> {"grants"}]}
Configs == {Default} \cup UNION {Settings(Tenant[k]) : k \in Tokens}

Answer(t, c) ==
  /\ c \in calls[t] /\ c.status = "sent"
  /\ \E status \in {"ok", "refused", "failed"}, body \in Settings(Tenant[c.token]) \cup {Default} :
       /\ (status = "refused") = (c.token \in expired)
       /\ (body = Default) = (status # "ok" \/ c.by = "page")
       /\ calls' = [calls EXCEPT ![t] =
            (@ \ {c}) \cup {[c EXCEPT !.status = status, !.body = body]}]
  /\ UNCHANGED <<expired, token, config, loaded, keptToken, keptConfig,
                 page, going, mixed>>

\* What follows on a bootstrap: the page asked for at login, the page whose guard
\* still waits for it, or nothing.
Proceed(t, c, k, conf) ==
  \/ /\ c.by = "login"
     /\ \E p \in Visited : Guard(t, p, k, conf, TRUE, calls[t] \ {c})
  \/ /\ c.by = going[t]
     /\ Guard(t, going[t], k, conf, TRUE, calls[t] \ {c})
  \/ /\ c.by \notin {"login", going[t]}
     /\ calls' = [calls EXCEPT ![t] = @ \ {c}] /\ UNCHANGED <<page, going>>

\* The answer of a bootstrap is stored, whoever is signed in by now.
TakeConfig(t, c) ==
  /\ c \in calls[t] /\ c.status = "ok" /\ c.by # "page"
  /\ config' = [config EXCEPT ![t] = c.body] /\ keptConfig' = c.body
  /\ loaded' = [loaded EXCEPT ![t] = TRUE]
  /\ Mixing(t, token[t], c.body)
  /\ Proceed(t, c, token[t], c.body)
  /\ UNCHANGED <<expired, token, keptToken>>

\* It failed: what was there stands, and counts as loaded.
KeepConfig(t, c) ==
  /\ c \in calls[t] /\ c.status = "failed" /\ c.by # "page"
  /\ loaded' = [loaded EXCEPT ![t] = TRUE]
  /\ Proceed(t, c, token[t], config[t])
  /\ UNCHANGED <<expired, token, config, keptToken, keptConfig, mixed>>

\* Data for a view.
TakeData(t, c) ==
  /\ c \in calls[t] /\ c.status \in {"ok", "failed"} /\ c.by = "page"
  /\ calls' = [calls EXCEPT ![t] = @ \ {c}]
  /\ UNCHANGED <<expired, token, config, loaded, keptToken, keptConfig,
                 page, going, mixed>>

\* 401 logs out whoever is signed in, and loads the login page anew; not where
\* it is on screen already: there the caller goes on, and finds no token.
Evict(t, c) ==
  /\ c \in calls[t] /\ c.status = "refused"
  /\ Forget(t)
  /\ \/ /\ page[t] # "login"
        /\ loaded' = [loaded EXCEPT ![t] = FALSE]
        /\ calls' = [calls EXCEPT ![t] = {}]
     \/ /\ page[t] = "login"
        /\ loaded' = [loaded EXCEPT ![t] = c.by # "page"]
        /\ calls' = [calls EXCEPT ![t] = @ \ {c}]
  /\ page' = [page EXCEPT ![t] = "login"]
  /\ going' = [going EXCEPT ![t] = Nobody]
  /\ UNCHANGED expired

\* A tab that is not in Tabs has signed in or out, or taken a configuration.
OtherTab ==
  /\ \/ keptToken' \in Tokens /\ UNCHANGED keptConfig
     \/ keptToken' = Nobody /\ keptConfig' = Default
     \/ keptConfig' \in Configs /\ UNCHANGED keptToken
  /\ UNCHANGED <<expired, token, config, loaded, page, going, calls, mixed>>

Expire(k) ==
  /\ expired' = expired \cup {k}
  /\ UNCHANGED <<token, config, loaded, keptToken, keptConfig, page,
                 going, calls, mixed>>

SessionNext ==
  \/ \E t \in Tabs, k \in Tokens : Login(t, k) \/ CompleteOidc(t, k)
  \/ \E t \in Tabs, p \in Visited : Navigate(t, p) \/ Reload(t, p)
  \/ \E t \in Tabs : StartOidc(t) \/ Logout(t) \/ Fetch(t)
  \/ \E t \in Tabs : \E c \in calls[t] :
       Answer(t, c) \/ TakeConfig(t, c) \/ KeepConfig(t, c) \/ TakeData(t, c) \/ Evict(t, c)
  \/ OtherTab
  \/ \E k \in Tokens : Expire(k)
-----------------------------------------------------------------------------
SessionTypeOK ==
  /\ expired \subseteq Tokens /\ mixed \subseteq Tabs
  /\ token \in [Tabs -> Tokens \cup {Nobody}] /\ keptToken \in Tokens \cup {Nobody}
  /\ config \in [Tabs -> Configs] /\ keptConfig \in Configs
  /\ loaded \in [Tabs -> BOOLEAN]
  /\ page \in [Tabs -> Guarded \cup Detours \cup Public \cup {"blank"}]
  /\ going \in [Tabs -> Guarded \cup {Nobody}]

\* The page on screen is one that the session in use may open, the navigation
\* offers nothing that the guard would refuse, and the configuration in use is
\* of the tenant of the session, unless an answer to an earlier session came
\* late or localStorage had the configuration of another tab's (router.ts
\* 260-304, lib/nav.ts, stores/auth.ts 210-221).
SessionAgrees ==
  \A t \in Tabs :
    /\ page[t] \in Guarded =>
         token[t] # Nobody /\ CanAny(token[t], Routes[page[t]].permissions)
    /\ \A p \in DOMAIN Navigation :
         config[t].active /\ Meets(Navigation[p], token[t], config[t]) /\ token[t] # Nobody
           => Decision(p, token[t], config[t]) = p
    /\ t \notin mixed => config[t].of \in {Nobody, Owner(token[t])}
=============================================================================
