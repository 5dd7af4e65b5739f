--------------------------- MODULE Authenticator ---------------------------
(***************************************************************************)
(* auth.Authenticator (src/internal/auth/auth.go): one token and one       *)
(* per-address failure log, shared by the relay API (Bearer) and the       *)
(* terminal (Basic). Every call holds the mutex from start to end, so a    *)
(* call is one step; calls from any address, ticks of the clock and        *)
(* rotations interleave.                                                   *)
(*                                                                         *)
(* A recorded time is kept as its age in ticks, counted up to Window       *)
(* (lockoutDuration): an older one is treated the same, `t.After(cutoff)`  *)
(* is false for it. The log only is counted and filtered, so its attempts  *)
(* are numbered in place of ordered.                                       *)
(***************************************************************************)
EXTENDS Naturals, FiniteSets, Functions

CONSTANTS
    IPs,          \* client addresses
    Tokens,       \* tokens a caller may present, or a rotation install
    Missing,      \* no usable Authorization header
    MaxFailures,  \* maxFailures (5)
    Window        \* lockoutDuration, in ticks (60s)

ASSUME AuthAssumption ==
    /\ MaxFailures \in Nat \ {0}
    /\ Window \in Nat \ {0}
    /\ Tokens # {}
    /\ Missing \notin Tokens

VARIABLES
    token,      \* Authenticator.token
    failures,   \* Authenticator.failures: per address, the ages of the log
    misses      \* observation: the wrong tokens compared, each for one Window

authVars == <<token, failures, misses>>

Ages     == 0 .. Window
Attempts == 1 .. MaxFailures + 1
Logs     == UNION {[S -> Ages] : S \in SUBSET Attempts}

NoLog       == [n \in {} |-> 0]
Count(log)  == Cardinality(DOMAIN log)

(* Mutant of Recent: one attempt out of the window takes the others along. *)
RecentWhole(log) == IF \A n \in DOMAIN log : log[n] < Window THEN log ELSE NoLog

Recent(log) == Restrict(log, {n \in DOMAIN log : log[n] < Window})
Aged(log)   == [n \in DOMAIN log |-> IF log[n] < Window THEN log[n] + 1 ELSE Window]

(* One more attempt, just now.                                             *)
Unused(log)   == CHOOSE n \in Attempts : n \notin DOMAIN log
With(log, n)  == [m \in DOMAIN log \cup {n} |-> IF m = n THEN 0 ELSE log[m]]

(* The observation's own window: a tick later, what is still younger.      *)
Later(seen) == [n \in {k \in DOMAIN seen : seen[k] + 1 < Window} |-> seen[n] + 1]

(* Mutant of Locked: an off-by-one in the limit.                           *)
LockedLate(ip) == Count(Recent(failures[ip])) > MaxFailures

(* isLocked, whose pruning of the log is part of validate.                 *)
Locked(ip) == Count(Recent(failures[ip])) >= MaxFailures

AuthInit ==
    /\ token \in Tokens
    /\ failures = [ip \in IPs |-> NoLog]
    /\ misses = [ip \in IPs |-> NoLog]

(* Mutant of Refused: a refused attempt renews the log.                    *)
RefusedRenewing(ip) ==
    /\ Locked(ip)
    /\ failures' = [failures EXCEPT ![ip] = [n \in DOMAIN Recent(@) |-> 0]]
    /\ UNCHANGED <<token, misses>>

Refused(ip) ==
    /\ Locked(ip)
    /\ failures' = [failures EXCEPT ![ip] = Recent(@)]
    /\ UNCHANGED <<token, misses>>

WrongToken(ip, provided) ==
    /\ ~ Locked(ip)
    /\ provided # token
    /\ failures' = [failures EXCEPT ![ip] = With(Recent(@), Unused(Recent(@)))]
    /\ misses' = [misses EXCEPT ![ip] = With(@, Unused(@))]
    /\ UNCHANGED token

Accepted(ip, provided) ==
    /\ ~ Locked(ip)
    /\ provided = token
    /\ failures' = [failures EXCEPT ![ip] = NoLog]
    /\ misses' = [misses EXCEPT ![ip] = NoLog]
    /\ UNCHANGED token

Validate(ip, provided) ==
    Refused(ip) \/ WrongToken(ip, provided) \/ Accepted(ip, provided)

UpdateToken(t) ==
    /\ token' = t
    /\ UNCHANGED <<failures, misses>>

Tick ==
    /\ failures' = [ip \in IPs |-> Aged(failures[ip])]
    /\ misses' = [ip \in IPs |-> Later(misses[ip])]
    /\ UNCHANGED token

AuthNext ==
    \/ \E ip \in IPs, provided \in Tokens \cup {Missing} : Validate(ip, provided)
    \/ \E t \in Tokens : UpdateToken(t)
    \/ Tick

AuthSpec == AuthInit /\ [][AuthNext]_authVars

(* The clock does not stop.                                                *)
AuthFairSpec == AuthSpec /\ WF_authVars(Tick)

-----------------------------------------------------------------------------
(* Every variable keeps its type; an address never logs more than          *)
(* MaxFailures times, although no sweep ever visits the map.               *)
AuthTypeOK ==
    /\ token \in Tokens
    /\ failures \in [IPs -> Logs] /\ misses \in [IPs -> Logs]
    /\ \A ip \in IPs : Count(failures[ip]) <= MaxFailures

(* From one address, at most MaxFailures wrong tokens are compared with    *)
(* the real one in any Window that holds no success, whichever endpoint    *)
(* they come through. The comparisons are counted apart from the log, by   *)
(* the clock alone: what the code prunes, renews or clears too early lets  *)
(* one more through.                                                       *)
BruteForceBound == \A ip \in IPs : Count(misses[ip]) <= MaxFailures

(* A lockout ends as time passes, even if the address keeps trying: the    *)
(* attempts refused during it are not recorded.                            *)
LockoutExpires == \A ip \in IPs : Locked(ip) ~> ~ Locked(ip)
=============================================================================
