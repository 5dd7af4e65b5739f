----------------------------- MODULE PushTokens -----------------------------
(***************************************************************************)
(* The push side of relay.Hub (src/internal/relay/hub.go): the list of     *)
(* device tokens and the map of Live Activity tokens, each under its own   *)
(* mutex, and the goroutines that push to APNs outside of it and drop a    *)
(* token when the answer says that it is dead. Registrations, pushes and   *)
(* their answers interleave.                                               *)
(*                                                                         *)
(* The set that keeps a prompt from being announced twice is left out:     *)
(* each prompt has an id of its own, so it never holds one back.           *)
(***************************************************************************)
EXTENDS Naturals, Sequences, SequencesExt, FiniteSets

CONSTANTS
    Devices,     \* device tokens
    MaxDevices,  \* maxDeviceTokens (10)
    Sessions,    \* session names
    Activities,  \* Live Activity tokens; the app gets a new one for each activity
    Holds410,    \* those for which the text of a transport error can have "410" in it:
                 \* it begins with the URL, which ends in the token, and may name ports
    NoToken,     \* no token registered
    MaxPushes    \* goroutines under way (a bound of the model)

ASSUME PushAssumption ==
    /\ MaxDevices \in Nat \ {0} /\ MaxPushes \in Nat \ {0}
    /\ NoToken \notin Activities
    /\ Devices \cap Activities = {}
    /\ Holds410 \subseteq Activities

VARIABLES
    devices,     \* Hub.deviceTokens
    activity,    \* Hub.activityTokens
    alerts,      \* device tokens of sendAlert's goroutines, with their place when it copied
    updates,     \* <<session, token>> of pushLiveActivity's goroutines
    dead         \* APNs: tokens that are no longer valid

pushVars == <<devices, activity, alerts, updates, dead>>

-----------------------------------------------------------------------------
PushInit ==
    /\ devices = <<>> /\ activity = [n \in Sessions |-> NoToken]
    /\ alerts = <<>> /\ updates = <<>>
    /\ dead = {}

Busy == Len(alerts) + Len(updates)

(* Mutant of RegisterDevice: no look for the token in the list.            *)
RegisterAgain(t) ==
    /\ devices' = Append(IF Len(devices) >= MaxDevices THEN Tail(devices) ELSE devices, t)
    /\ UNCHANGED <<activity, alerts, updates, dead>>

(* A registered token is left where it is; a full list loses its oldest.   *)
RegisterDevice(t) ==
    /\ devices' = IF Contains(devices, t) THEN devices
                  ELSE Append(IF Len(devices) >= MaxDevices THEN Tail(devices) ELSE devices, t)
    /\ UNCHANGED <<activity, alerts, updates, dead>>

(* The token of the session's activity; none when the activity ended.      *)
RegisterActivity(n, t) ==
    /\ activity' = [activity EXCEPT ![n] = t]
    /\ UNCHANGED <<devices, alerts, updates, dead>>

(* NotifyPermission and sendAlert: one goroutine per token of a copy.      *)
SendAlert ==
    /\ devices # <<>>
    /\ Busy + Len(devices) <= MaxPushes
    /\ alerts' = alerts \o [i \in DOMAIN devices |-> [token |-> devices[i], place |-> i]]
    /\ UNCHANGED <<devices, activity, updates, dead>>

(* The token taken off the list, at the first place it has by then, if     *)
(* any. Mutant: at the place it had in the copy.                           *)
WithoutPlace(s, a) == RemoveAt(s, a.place)
WithoutToken(s, a) == RemoveFirst(s, a.token)

(* What Send can return: no error, a transient one (no JWT, no connection, *)
(* any other status), or ErrTokenInvalid, on 410 and BadDeviceToken.       *)
SendResults(t) == {"sent", "failed"} \cup IF t \in dead THEN {"invalid"} ELSE {}

(* Send returns; only ErrTokenInvalid takes the token off the list.        *)
AlertAnswered(i) ==
    /\ alerts' = RemoveAt(alerts, i)
    /\ \E r \in SendResults(alerts[i].token) :
          devices' = IF r = "invalid" THEN WithoutToken(devices, alerts[i]) ELSE devices
    /\ UNCHANGED <<activity, updates, dead>>

(* pushLiveActivity, from PublishStatus.                                   *)
PushLiveActivity(n) ==
    /\ activity[n] # NoToken
    /\ Busy < MaxPushes
    /\ updates' = Append(updates, <<n, activity[n]>>)
    /\ UNCHANGED <<devices, activity, alerts, dead>>

(* What SendLiveActivity can return: no error, or one whose text has "410" *)
(* in it or has not: the status in "APNs returned 410", or a transport     *)
(* error, which http.Client words with the URL. Mutant: any error.         *)
AnyErrorIs410(t) == {"sent", "410"}
LiveActivityResults(t) ==
    {"sent", "failed"} \cup IF t \in dead \cup Holds410 THEN {"410"} ELSE {}

(* SendLiveActivity returns; when the error's text contains "410" the      *)
(* session's entry is deleted, whatever token it has by then.              *)
UpdateAnswered(i) ==
    /\ updates' = RemoveAt(updates, i)
    /\ \E r \in LiveActivityResults(updates[i][2]) :
          activity' = IF r = "410" THEN [activity EXCEPT ![updates[i][1]] = NoToken]
                                   ELSE activity
    /\ UNCHANGED <<devices, alerts, dead>>

(* The app is deleted from a device, an activity ends: APNs refuses the    *)
(* token from now on.                                                      *)
Dies(t) ==
    /\ t \notin dead
    /\ dead' = dead \cup {t}
    /\ UNCHANGED <<devices, activity, alerts, updates>>

PushNext ==
    \/ \E t \in Devices : RegisterDevice(t)
    \/ \E n \in Sessions, t \in Activities \cup {NoToken} : RegisterActivity(n, t)
    \/ SendAlert
    \/ \E i \in DOMAIN alerts : AlertAnswered(i)
    \/ \E n \in Sessions : PushLiveActivity(n)
    \/ \E i \in DOMAIN updates : UpdateAnswered(i)
    \/ \E t \in Devices \cup Activities : Dies(t)

PushSpec == PushInit /\ [][PushNext]_pushVars

-----------------------------------------------------------------------------
(* Every variable keeps its type; the list of devices holds no token twice *)
(* and never more than maxDeviceTokens.                                    *)
PushTypeOK ==
    /\ devices \in BoundedSeq(Devices, MaxDevices) /\ IsInjective(devices)
    /\ activity \in [Sessions -> Activities \cup {NoToken}]
    /\ \A i \in DOMAIN alerts : alerts[i].token \in Devices /\ alerts[i].place \in 1 .. MaxDevices
    /\ \A i \in DOMAIN updates : updates[i] \in Sessions \X Activities
    /\ dead \subseteq Devices \cup Activities

(* A valid device token leaves the list only as the oldest of a full one:  *)
(* not on the answer to another token's alert, however many answers,       *)
(* registrations and alerts interleave.                                    *)
ValidDeviceKept ==
    [][\A i \in DOMAIN devices :
          \/ devices[i] \in dead
          \/ Contains(devices', devices[i])
          \/ i = 1 /\ Len(devices) = MaxDevices]_pushVars

(* A session that loses a valid Live Activity token without the app's word *)
(* loses it to the refusal of an older token of its own, or to an error    *)
(* whose text was taken for one: not to another session's push and not to  *)
(* any other failure.                                                      *)
LostUnasked(n) ==
    /\ activity[n] \notin dead \cup {NoToken}
    /\ activity'[n] = NoToken
    /\ ~ RegisterActivity(n, NoToken)
LostToOwnPush ==
    [][\A n \in Sessions : LostUnasked(n) =>
          \E i \in DOMAIN updates :
              updates[i][1] = n /\ updates[i][2] \in Holds410 \cup (dead \ {activity[n]})]_pushVars

(* SendLiveActivity: "a 410 means the token is stale (activity ended) and  *)
(* the caller should drop it". The token dropped is the stale one.         *)
DropsTheStale == [][\A n \in Sessions : ~ LostUnasked(n)]_pushVars
=============================================================================
