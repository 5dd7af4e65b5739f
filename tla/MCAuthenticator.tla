-------------------------- MODULE MCAuthenticator --------------------------
(* Two addresses, the current and one other token, three attempts in a     *)
(* window of three ticks: a log can hold attempts of every age.            *)
EXTENDS Authenticator, TLC

CONSTANTS t1, t2

MCTokens == {t1, t2}
=============================================================================
