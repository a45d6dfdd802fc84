---------------------------- MODULE SettingsStore ----------------------------
(***************************************************************************)
(* The device's settings in flash (settings_store.cpp).  A call holds the    *)
(* store's mutex from beginning to end, so that there is at most one; it is  *)
(* a script of writes, each atomic, between any two of which power may go.   *)
(* Waiting for the mutex longer than its second is left out, and clear() is  *)
(* one write.                                                                *)
(***************************************************************************)
EXTENDS Naturals, Sequences

CONSTANTS
    Networks,      \* the pairs <<ssid, password>> that are ever entered
    NoPassword,    \* the password of an open network
    Tokens,        \* what hosts issue
    Endpoints,     \* the pairs <<host, port>> that are ever entered
    Displays,      \* what saveDisplay is given, the same for its three keys
    Invalid,       \* a legacy value that fails validation
    Absent,        \* a key that is not there
    Schema,        \* kSettingsSchemaVersion
    WritesFail     \* may writes fail: the cases of this instance

ASSUME StoreAssumption ==
    /\ Schema \in Nat \ {0}
    /\ WritesFail \subseteq BOOLEAN
    /\ \A n \in Networks : n = <<n[1], n[2]>> /\ n[1] \notin {Absent, Invalid} /\ n[2] \notin {Absent, Invalid}
    /\ Tokens \cap {Absent, Invalid} = {}
    /\ Absent \notin {TRUE, FALSE} /\ Absent \notin {Schema, Schema + 1} /\ Absent \notin Networks

VARIABLES
    failing,       \* may this flash refuse a write
    nvs,           \* the namespace "deskwave"
    call           \* the call that holds the mutex

LegacyKeys == {"wifi_ssid", "wifi_pass", "host_token"}
Keys == LegacyKeys \cup
    {"schema", "wifi_valid", "ssid", "password", "paired", "token", "host", "port",
     "brightness", "screen", "volume_step"}

Blank == [k \in Keys |-> Absent]
Legacy(n, t) == [Blank EXCEPT !["wifi_ssid"] = n[1], !["wifi_pass"] = n[2], !["host_token"] = t]
(* New, from before there was a schema, and from a later firmware. *)
Flashes ==
    {Blank, [Blank EXCEPT !["schema"] = Schema + 1]}
    \cup {Legacy(n, t) : n \in Networks \cup {<<Absent, Absent>>, <<Invalid, Invalid>>},
                         t \in Tokens \cup {Absent}}

(* A write whose result is checked ends the call when it fails.  An empty    *)
(* string's cannot fail: putString returns 0 for it either way.              *)
Put(key, value) == [key |-> key, value |-> value, checked |-> TRUE]
Ignored(key, value) == [key |-> key, value |-> value, checked |-> FALSE]
PutPassword(value) == [key |-> "password", value |-> value, checked |-> value # NoPassword]

(* A slip: the arguments swapped. *)
SaveWifiSwapped(n) ==
    <<Ignored("schema", Schema), Ignored("wifi_valid", FALSE),
      Put("ssid", n[2]), PutPassword(n[1]), Put("wifi_valid", TRUE)>>
(* A slip: the flag is not taken back first. *)
SaveWifiOver(n) ==
    <<Ignored("schema", Schema), Put("ssid", n[1]), PutPassword(n[2]), Put("wifi_valid", TRUE)>>
SaveWifi(n) ==
    <<Ignored("schema", Schema), Ignored("wifi_valid", FALSE),
      Put("ssid", n[1]), PutPassword(n[2]), Put("wifi_valid", TRUE)>>

(* A slip: the flag is never set. *)
SaveTokenUnflagged(t) == <<Ignored("schema", Schema), Ignored("paired", FALSE), Put("token", t)>>
SaveToken(t) ==
    <<Ignored("schema", Schema), Ignored("paired", FALSE), Put("token", t), Put("paired", TRUE)>>

(* remove() fails when there is nothing to remove. *)
ClearToken == <<Ignored("paired", FALSE), Put("token", Absent)>>

SaveDisplay(d) ==
    <<Ignored("schema", Schema), Put("brightness", d), Put("screen", d), Put("volume_step", d)>>

SaveHostOverride(e) == <<Ignored("schema", Schema), Put("host", e[1]), Put("port", e[2])>>

LegacyNetwork ==
    /\ nvs["wifi_ssid"] \notin {Absent, Invalid}
    /\ nvs["wifi_pass"] # Invalid
LegacyToken == nvs["host_token"] \notin {Absent, Invalid}

MigrateWifi ==
    IF LegacyNetwork
    THEN <<Put("wifi_valid", FALSE), Put("ssid", nvs["wifi_ssid"]), PutPassword(nvs["wifi_pass"]),
           Put("wifi_valid", TRUE)>>
    ELSE <<>>
MigrateToken ==
    IF LegacyToken
    THEN <<Put("paired", FALSE), Put("token", nvs["host_token"]), Put("paired", TRUE)>>
    ELSE <<>>
(* A slip: the new schema first. *)
MigrateSchemaFirst == <<Put("schema", Schema)>> \o MigrateWifi \o MigrateToken
MigrateLegacy == MigrateWifi \o MigrateToken \o <<Put("schema", Schema)>>

NeedsMigration ==
    \/ nvs["schema"] = Absent /\ (nvs["wifi_ssid"] # Absent \/ nvs["host_token"] # Absent)
    \/ nvs["schema"] # Absent /\ nvs["schema"] < Schema
Load == IF NeedsMigration THEN MigrateLegacy ELSE <<>>

(* What load() reads.  A missing password reads as the empty one. *)
Wifi == IF nvs["wifi_valid"] = TRUE
        THEN <<nvs["ssid"], IF nvs["password"] = Absent THEN NoPassword ELSE nvs["password"]>>
        ELSE Absent
Token == IF nvs["paired"] = TRUE THEN nvs["token"] ELSE Absent

LoadStatus ==
    IF nvs["schema"] = Absent THEN "Empty"
    ELSE IF nvs["schema"] > Schema THEN "Unsupported"
    ELSE IF \/ nvs["wifi_valid"] = TRUE /\ nvs["ssid"] = Absent
            \/ nvs["paired"] = TRUE /\ nvs["token"] = Absent THEN "Corrupt"
    ELSE "Ok"
-----------------------------------------------------------------------------
Idle == [by |-> "none"]
Callers == {"app", "network"}

Start(by, op, argument, script) ==
    /\ call = Idle
    /\ call' = [by |-> by, op |-> op, argument |-> argument, script |-> script, at |-> 1, ok |-> TRUE]
    /\ UNCHANGED nvs

Busy == call # Idle
Done == Busy /\ call.at > Len(call.script)
Returns(by, op) == Done /\ call.by = by /\ call.op = op

Succeeds(w) ==
    /\ w.value = Absent => nvs[w.key] # Absent
    /\ nvs' = [nvs EXCEPT ![w.key] = w.value]
    /\ call' = [call EXCEPT !.at = @ + 1]
Fails(w) ==
    /\ failing \/ (w.value = Absent /\ nvs[w.key] = Absent)
    /\ call' = IF w.checked THEN [call EXCEPT !.at = Len(call.script) + 1, !.ok = FALSE]
                            ELSE [call EXCEPT !.at = @ + 1]
    /\ UNCHANGED nvs
Write ==
    /\ Busy /\ ~Done
    /\ Succeeds(call.script[call.at]) \/ Fails(call.script[call.at])

Return == Done /\ call' = Idle /\ UNCHANGED nvs

(* clear() of factoryReset, under the mutex. *)
Cleared == call = Idle /\ nvs' = Blank /\ UNCHANGED call
NotCleared == call = Idle /\ failing /\ UNCHANGED <<nvs, call>>

PowerGoes == call' = Idle /\ UNCHANGED nvs
-----------------------------------------------------------------------------
(* The store by itself: its callers may do anything at any time. *)
SettingsInit == failing \in WritesFail /\ nvs \in Flashes /\ call = Idle

SettingsNext ==
    \/ \E by \in Callers :
         \/ Start(by, "load", Absent, Load)
         \/ \E n \in Networks : Start(by, "saveWifi", n, SaveWifi(n))
         \/ \E t \in Tokens : Start(by, "saveToken", t, SaveToken(t))
         \/ Start(by, "clearToken", Absent, ClearToken)
         \/ \E d \in Displays : Start(by, "saveDisplay", d, SaveDisplay(d))
         \/ \E e \in Endpoints : Start(by, "saveHost", e, SaveHostOverride(e))
    \/ Write \/ Return \/ Cleared \/ NotCleared \/ PowerGoes

settingsVars == <<failing, nvs, call>>
SettingsSpec == SettingsInit /\ [][SettingsNext /\ UNCHANGED failing]_settingsVars
-----------------------------------------------------------------------------
(* What counts as committed is whole: a network's name is never valid        *)
(* together with another's password, nor paired without a token, wherever    *)
(* power went (saveWifi, saveToken, clearToken, migrateLegacy), if the flash *)
(* refuses no write.                                                        *)
Whole == /\ Wifi # Absent => Wifi \in Networks
         /\ nvs["paired"] = TRUE => nvs["token"] \in Tokens
CommittedCredentialIsWhole == ~failing => Whole
=============================================================================
