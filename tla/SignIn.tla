------------------------------- MODULE SignIn --------------------------------
(***************************************************************************)
(* Signing in (auth-service), with a password or an identity provider: the *)
(* states handed out by oidc/start, kept in the memory of the process with *)
(* the time of their creation, and the callbacks that turn one into a      *)
(* session.  Map operations are atomic; every query and every request to   *)
(* the provider is awaited, and anything may happen meanwhile.  The signed *)
(* token stands for itself: nothing revokes it.                            *)
(***************************************************************************)
EXTENDS Naturals, FiniteSets

CONSTANTS
  States,       \* the random strings of oidc/start
  Callbacks,    \* requests to oidc/callback that may overlap
  MaxNow,       \* bound of the clock, in minutes
  NoState       \* a callback without a state

VARIABLES
  minute,       \* Date.now()
  pending,      \* pendingOidc: the time of creation of every open state
  tenantOpen,   \* the tenant is active
  userOpen,     \* the user is active
  callback,     \* the state each callback has taken
  phase,        \* how far it is
  sessions      \* issued by each: the state, and its age when it was taken

signVars ==
  <<minute, pending, tenantOpen, userOpen, callback, phase, sessions>>

Ttl == 2        \* OIDC_STATE_TTL_MS
Absent == MaxNow + 1

SignInInit ==
  /\ minute = 1
  /\ pending = [s \in States |-> Absent]
  /\ tenantOpen = TRUE /\ userOpen = TRUE
  /\ callback = [c \in Callbacks |-> [state |-> NoState, taken |-> 0]]
  /\ phase = [c \in Callbacks |-> "idle"]
  /\ sessions = [c \in Callbacks |-> {}]

IsPending(s) == pending[s] # Absent
Expired(s) == IsPending(s) /\ minute - pending[s] > Ttl

\* pruneOidcState
Pruned == [s \in States |-> IF Expired(s) THEN Absent ELSE pending[s]]

\* oidc/start draws a state nobody has; only with a provider are the expired
\* ones removed, the stub keeps them.
Draw(s, kept) ==
  /\ ~IsPending(s)
  /\ \A c \in Callbacks : callback[c].state # s /\ \A x \in sessions[c] : x.state # s
  /\ pending' = [kept EXCEPT ![s] = minute]
  /\ UNCHANGED <<minute, tenantOpen, userOpen, callback, phase, sessions>>
StartWithProvider(s) == Draw(s, Pruned)
StartStub(s) == Draw(s, pending)

\* The callback looks its state up and removes it before it awaits anything; an
\* unknown or expired one is refused, and stays.
TakeState(c, s) ==
  /\ phase[c] = "idle"
  /\ IsPending(s) /\ ~Expired(s)
  /\ pending' = [pending EXCEPT ![s] = Absent]
  /\ callback' = [callback EXCEPT ![c] = [state |-> s, taken |-> minute - pending[s]]]
  /\ phase' = [phase EXCEPT ![c] = "taken"]
  /\ UNCHANGED <<minute, tenantOpen, userOpen, sessions>>

\* dev/login, outside production: it reads the tenant first of all.
Login(c) ==
  /\ phase[c] = "idle"
  /\ callback' = [callback EXCEPT ![c] = [state |-> NoState, taken |-> 0]]
  /\ phase' = [phase EXCEPT ![c] = "taken"]
  /\ UNCHANGED <<minute, pending, tenantOpen, userOpen, sessions>>

Step(c, from, to) ==
  /\ phase[c] = from
  /\ phase' = [phase EXCEPT ![c] = to]
  /\ UNCHANGED <<minute, pending, tenantOpen, userOpen, callback>>

\* The tenant is read, and must be active.
ReadTenant(c) == Step(c, "taken", "tenant") /\ tenantOpen /\ UNCHANGED sessions

\* The code is exchanged for a token and the token for an e-mail address; a
\* request without a code names the address itself, as a login does.
Identify(c) == Step(c, "tenant", "known") /\ UNCHANGED sessions

\* The user is read under the tenant, must be active, and gets a session.
Issue(c) ==
  /\ Step(c, "known", "idle")
  /\ userOpen
  /\ sessions' = [sessions EXCEPT ![c] = @ \cup {callback[c]}]

\* Any of these steps fails: the answer is 401 or 503, and the state is gone.
Refuse(c) ==
  /\ phase[c] # "idle"
  /\ Step(c, phase[c], "idle") /\ UNCHANGED sessions

\* The process restarts: its map is empty, its callbacks are cut off.
RestartAuth ==
  /\ pending' = [s \in States |-> Absent]
  /\ phase' = [c \in Callbacks |-> "idle"]
  /\ UNCHANGED <<minute, tenantOpen, userOpen, callback, sessions>>

Close ==
  /\ \/ tenantOpen' = ~tenantOpen /\ UNCHANGED userOpen
     \/ userOpen' = ~userOpen /\ UNCHANGED tenantOpen
  /\ UNCHANGED <<minute, pending, callback, phase, sessions>>

Tick ==
  /\ minute < MaxNow
  /\ minute' = minute + 1
  /\ UNCHANGED <<pending, tenantOpen, userOpen, callback, phase, sessions>>

SignInNext ==
  \/ \E s \in States : StartWithProvider(s) \/ StartStub(s)
  \/ \E c \in Callbacks, s \in States : TakeState(c, s)
  \/ \E c \in Callbacks : Login(c) \/ ReadTenant(c) \/ Identify(c) \/ Issue(c) \/ Refuse(c)
  \/ RestartAuth \/ Close \/ Tick
-----------------------------------------------------------------------------
SignInTypeOK ==
  /\ minute \in 1..MaxNow
  /\ pending \in [States -> 1..Absent]
  /\ tenantOpen \in BOOLEAN /\ userOpen \in BOOLEAN
  /\ phase \in [Callbacks -> {"idle", "taken", "tenant", "known"}]
  /\ \A c \in Callbacks :
       sessions[c] \cup {callback[c]} \subseteq
         [state : States \cup {NoState}, taken : 0..MaxNow]

\* A state is good for one session, within its time, however many callbacks
\* with it overlap and whatever the provider answers (auth-service
\* index.ts:240-244).
OneSessionPerState ==
  \A s \in States :
    /\ Cardinality({c \in Callbacks : \E x \in sessions[c] : x.state = s}) <= 1
    /\ \A c \in Callbacks : \A x \in sessions[c] : x.taken <= Ttl
=============================================================================
