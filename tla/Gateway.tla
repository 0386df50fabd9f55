------------------------------- MODULE Gateway -------------------------------
(***************************************************************************)
(* The quota of the gateway (api-gateway): a window of one minute for each *)
(* tenant, kept in memory, which begins with the first request after the   *)
(* last one ended, and counts.  One tenant; a window is Slots long.        *)
(***************************************************************************)
EXTENDS Integers

CONSTANTS Rpm,       \* GATEWAY_TENANT_RPM
          Slots,     \* slots of time in a window
          MaxTime,   \* bound on the slots of a behaviour
          MaxCount,  \* bound on the requests counted in a window
          MaxStarts  \* bound on the restarts of the gateway

VARIABLES
  now,       \* the current slot
  reset_at,  \* the slot in which the window ends, 0 if there is none
  count,     \* requests counted in the window
  admitted,  \* admitted[t]: requests let through until the end of the slot t
  starts     \* starts[t]: restarts of the gateway until then

Times == 0..MaxTime

GatewayInit ==
  /\ now = 1 /\ reset_at = 0 /\ count = 0
  /\ admitted = [t \in Times |-> 0]
  /\ starts = [t \in Times |-> 0]

\* One more of what f counts, in the slot that is now.
OneMore(f) == [t \in Times |-> IF t < now THEN f[t] ELSE f[t] + 1]

-----------------------------------------------------------------------------
\* A request that begins a window, or is counted in the one that there is; 429
\* if it is one more than the quota.
Request ==
  LET expired == now >= reset_at
      counted == IF expired THEN 1 ELSE count + 1
  IN /\ counted <= MaxCount
     /\ count' = counted
     /\ reset_at' = IF expired THEN now + Slots ELSE reset_at
     /\ admitted' = IF counted <= Rpm THEN OneMore(admitted) ELSE admitted
     /\ UNCHANGED <<now, starts>>

Elapse ==
  /\ now < MaxTime
  /\ now' = now + 1
  /\ UNCHANGED <<reset_at, count, admitted, starts>>

\* A restart forgets the windows.
RestartGateway ==
  /\ starts[MaxTime] < MaxStarts
  /\ starts' = OneMore(starts)
  /\ reset_at' = 0 /\ count' = 0
  /\ UNCHANGED <<now, admitted>>

GatewayNext == Request \/ Elapse \/ RestartGateway

-----------------------------------------------------------------------------
\* Type invariant.
GatewayTypeOK ==
  /\ now \in 1..MaxTime /\ reset_at \in 0..(MaxTime + Slots)
  /\ count \in 0..MaxCount
  /\ admitted \in [Times -> Nat] /\ starts \in [Times -> 0..MaxStarts]

(* In a minute that begins anywhere no more than twice the quota passes,   *)
(* and the quota once more for each restart: the windows are laid end to   *)
(* end, and a minute overlaps two of them.                                 *)
RateBounded ==
  \A t \in 1..(MaxTime - Slots + 1) :
    LET Within(f) == f[t + Slots - 1] - f[t - 1]
    IN Within(admitted) <= Rpm * (2 + Within(starts))
=============================================================================
