-------------------------- MODULE DeviceBootProofs --------------------------
(***************************************************************************)
(* Proofs about DeviceBoot, for every set of networks, tokens, displays,    *)
(* endpoints and builds, with power lost between any two writes: what the   *)
(* flash holds as committed is whole, a restart finds what the device       *)
(* works with, and an upgrade keeps the network.                            *)
(*                                                                         *)
(* All three rest on one fact about the call that holds the store's mutex:  *)
(* what it has written so far stands (Written), because nobody else writes  *)
(* meanwhile.  The rest says who may be in which call, and how far a        *)
(* migration is when the schema is there.                                   *)
(***************************************************************************)
EXTENDS DeviceBoot, TLAPS

USE StoreAssumption, BootAssumption

Names == {n[1] : n \in Networks}
Passwords == {n[2] : n \in Networks}

(* The keys of the old firmware are written by nobody; clear() removes them. *)
LegacyStands ==
  /\ nvs["wifi_ssid"] \notin {Absent, Invalid} => <<nvs["wifi_ssid"], nvs["wifi_pass"]>> \in Networks
  /\ nvs["host_token"] \in Tokens \cup {Absent, Invalid}

(* The scripts there are, each with its argument. *)
Known(op, n, script) ==
  \/ op = "load" /\ script = <<>>
  \/ op = "load" /\ script = MigrateLegacy
  \/ op = "saveWifi" /\ n \in Networks /\ script = SaveWifi(n)
  \/ op = "saveToken" /\ n \in Tokens /\ script = SaveToken(n)
  \/ op = "clearToken" /\ script = ClearToken
  \/ op = "saveDisplay" /\ n \in Displays \cup {Absent} /\ script = SaveDisplay(n)
  \/ op = "saveHost" /\ n \in Endpoints /\ script = SaveHostOverride(n)

Fields == {"by", "op", "argument", "script", "at", "ok"}
CallOK ==
  Busy => /\ DOMAIN call = Fields
          /\ Known(call.op, call.argument, call.script)
          /\ call.at \in 1 .. Len(call.script) + 1
          /\ call.ok \in BOOLEAN

(* Who is in which call, and where it is then. *)
PlaceOK ==
  /\ network = "off" <=> app \in {"off", "begin"}
  /\ app = "off" => ~Busy
  /\ app = "begin" => Busy /\ call.by = "app" /\ call.op = "load"
  /\ Busy =>
       \/ call.by = "app" /\ call.op = "load" /\ app = "begin"
       \/ call.by = "app" /\ call.op = "saveDisplay" /\ app = "loop"
       \/ call.by = "network" /\ call.op = "load" /\ network \in {"start", "again", "provisioned"}
       \/ call.by = "network" /\ call.op = "saveWifi" /\ network \in {"bootstrap", "portal"}
       \/ call.by = "network" /\ call.op = "saveHost" /\ network = "portal"
       \/ call.by = "network" /\ call.op \in {"saveToken", "clearToken"} /\ network = "run"
  /\ network = "bootstrap" => build.network \in Networks
  /\ settings = [wifi |-> settings.wifi, token |-> settings.token]

(* What the call has written stands, if the write was checked or the flash   *)
(* refuses none.                                                             *)
Latest(j) == \A i \in j + 1 .. call.at - 1 : call.script[i].key # call.script[j].key
Written ==
  Busy /\ call.ok =>
    \A j \in 1 .. call.at - 1 :
      (~failing \/ call.script[j].checked) /\ Latest(j) =>
        nvs[call.script[j].key] = call.script[j].value

(* A refused write ends the call; a flash that refuses none refuses none of  *)
(* a credential.                                                             *)
NotRefused ==
  Busy => /\ call.at <= Len(call.script) => call.ok
          /\ ~failing /\ call.op \in {"load", "saveWifi", "saveToken"} => call.ok

(* The schema is the last that a migration writes. *)
Migrates ==
  Busy /\ call.op = "load" =>
    IF call.script = <<>> THEN ~NeedsMigration
    ELSE /\ nvs["wifi_ssid"] # Absent \/ nvs["host_token"] # Absent
         /\ call.at <= Len(call.script) => nvs["schema"] = Absent
SchemaIsThere ==
  ~failing /\ nvs["wifi_valid"] = TRUE /\ nvs["schema"] = Absent =>
    nvs["wifi_ssid"] # Absent \/ nvs["host_token"] # Absent

(* What is committed is whole. *)
WifiWhole == nvs["wifi_valid"] = TRUE => <<nvs["ssid"], nvs["password"]>> \in Networks
TokenWhole == nvs["paired"] = TRUE => nvs["token"] \in Tokens
CredentialsWhole == ~failing => WifiWhole /\ TokenWhole

(* The network task's copy is the flash's, but for the token it is saving.   *)
WorksWithStored ==
  ~failing /\ network = "run" /\ app # "restarting" =>
    /\ settings.wifi = Wifi
    /\ ~(Busy /\ call.by = "network") => settings.token = Token
    /\ Busy /\ call.op = "clearToken" => call.ok /\ (call.at <= 2 => nvs["token"] # Absent)

(* A display setting is in flash, or still to be saved. *)
ChosenIsKept ==
  app = "loop" /\ chosen # Absent =>
    /\ ~dirty => nvs["brightness"] = chosen /\ ~(Busy /\ call.op = "saveDisplay")
    /\ Busy /\ call.op = "saveDisplay" => call.argument = chosen

(* The old firmware's network, once migrated. *)
NetworkKept ==
  ~failing /\ ~build.force /\ LegacyNetwork =>
    /\ app # "restarting"
    /\ network \in {"off", "start", "run"}
    /\ nvs["schema"] \in {Absent, Schema}
    /\ nvs["schema"] # Absent => nvs["wifi_valid"] = TRUE
    /\ app = "loop" => nvs["schema"] # Absent

Base == BootTypeOK /\ LegacyStands /\ CallOK /\ PlaceOK
StoreInv == Written /\ NotRefused /\ Migrates /\ SchemaIsThere /\ CredentialsWhole
IInv ==
  /\ Base /\ StoreInv
  /\ WorksWithStored /\ ChosenIsKept /\ NetworkKept
----------------------------------------------------------------------------
(* The scripts.                                                            *)

(* What may be written under a key. *)
Fits(w) ==
  /\ w.key \in Keys \ LegacyKeys
  /\ w.key = "schema" => w.value = Schema
  /\ w.key \in {"wifi_valid", "paired"} => w.value \in {TRUE, FALSE}
  /\ w.key = "ssid" => w.value \in Names
  /\ w.key = "password" => w.value \in Passwords
  /\ w.key = "token" => w.value \in Tokens \cup {Absent}
  /\ w.key = "host" => w.value \in {e[1] : e \in Endpoints}
  /\ w.key = "port" => w.value \in {e[2] : e \in Endpoints}
  /\ w.key \in {"brightness", "screen", "volume_step"} => w.value \in Displays \cup {Absent}

(* Of a credential nothing is written that is not there. *)
Proper(w) == Fits(w) /\ w.value # Absent

LEMMA NetworkFacts ==
  ASSUME NEW n \in Networks
  PROVE  /\ n = <<n[1], n[2]>> /\ n[1] \in Names /\ n[2] \in Passwords
         /\ n[1] \notin {Absent, Invalid} /\ n[2] \notin {Absent, Invalid}
BY DEF Names, Passwords

(* What the scripts are made of: the writes of s from the i-th on. *)
SchemaAt(s, i) == s[i].key = "schema" /\ s[i].value = Schema
NetworkFrom(s, i, name, password) ==
  /\ s[i].key = "wifi_valid" /\ s[i].value = FALSE
  /\ s[i + 1].key = "ssid" /\ s[i + 1].value = name
  /\ s[i + 2].key = "password" /\ s[i + 2].value = password
  /\ s[i + 3].key = "wifi_valid" /\ s[i + 3].value = TRUE
TokenFrom(s, i, t) ==
  /\ s[i].key = "paired" /\ s[i].value = FALSE
  /\ s[i + 1].key = "token" /\ s[i + 1].value = t
  /\ s[i + 2].key = "paired" /\ s[i + 2].value = TRUE

LEMMA MigrateBoth ==
  ASSUME LegacyNetwork, LegacyToken
  PROVE  /\ Len(MigrateLegacy) = 8
         /\ NetworkFrom(MigrateLegacy, 1, nvs["wifi_ssid"], nvs["wifi_pass"])
         /\ TokenFrom(MigrateLegacy, 5, nvs["host_token"])
         /\ SchemaAt(MigrateLegacy, 8)
<1> DEFINE a == Put("wifi_valid", FALSE)
           b == Put("ssid", nvs["wifi_ssid"])
           c == PutPassword(nvs["wifi_pass"])
           d == Put("wifi_valid", TRUE)
           e == Put("paired", FALSE)
           f == Put("token", nvs["host_token"])
           g == Put("paired", TRUE)
           h == Put("schema", Schema)
           s == MigrateLegacy
<1>1. s = <<a, b, c, d>> \o <<e, f, g>> \o <<h>>
  BY DEF MigrateLegacy, MigrateWifi, MigrateToken
<1>2. a.key = "wifi_valid" /\ a.value = FALSE /\ d.key = "wifi_valid" /\ d.value = TRUE
  BY DEF Put
<1>3. b.key = "ssid" /\ b.value = nvs["wifi_ssid"] /\ c.key = "password" /\ c.value = nvs["wifi_pass"]
  BY DEF Put, PutPassword
<1>4. e.key = "paired" /\ e.value = FALSE /\ g.key = "paired" /\ g.value = TRUE
  BY DEF Put
<1>5. f.key = "token" /\ f.value = nvs["host_token"] /\ h.key = "schema" /\ h.value = Schema
  BY DEF Put
<1> HIDE DEF a, b, c, d, e, f, g, h, s
<1>6. Len(s) = 8  BY <1>1
<1>7. s[1] = a /\ s[2] = b /\ s[3] = c /\ s[4] = d  BY <1>1
<1>8. s[5] = e /\ s[6] = f /\ s[7] = g /\ s[8] = h  BY <1>1
<1>9. NetworkFrom(s, 1, nvs["wifi_ssid"], nvs["wifi_pass"])
  BY <1>2, <1>3, <1>7 DEF NetworkFrom
<1>10. TokenFrom(s, 5, nvs["host_token"]) /\ SchemaAt(s, 8)
  BY <1>4, <1>5, <1>8 DEF TokenFrom, SchemaAt
<1> QED  BY <1>6, <1>9, <1>10 DEF s

LEMMA MigrateNetwork ==
  ASSUME LegacyNetwork, ~LegacyToken
  PROVE  /\ Len(MigrateLegacy) = 5
         /\ NetworkFrom(MigrateLegacy, 1, nvs["wifi_ssid"], nvs["wifi_pass"])
         /\ SchemaAt(MigrateLegacy, 5)
BY DEF MigrateLegacy, MigrateWifi, MigrateToken, NetworkFrom, SchemaAt, Put, PutPassword

LEMMA MigrateTokenOnly ==
  ASSUME ~LegacyNetwork, LegacyToken
  PROVE  /\ Len(MigrateLegacy) = 4
         /\ TokenFrom(MigrateLegacy, 1, nvs["host_token"])
         /\ SchemaAt(MigrateLegacy, 4)
BY DEF MigrateLegacy, MigrateWifi, MigrateToken, TokenFrom, SchemaAt, Put

LEMMA MigrateNothing ==
  ASSUME ~LegacyNetwork, ~LegacyToken
  PROVE  Len(MigrateLegacy) = 1 /\ SchemaAt(MigrateLegacy, 1)
BY DEF MigrateLegacy, MigrateWifi, MigrateToken, SchemaAt, Put

LEMMA SaveWifiIs ==
  ASSUME NEW n
  PROVE  Len(SaveWifi(n)) = 5 /\ SchemaAt(SaveWifi(n), 1) /\ NetworkFrom(SaveWifi(n), 2, n[1], n[2])
BY DEF SaveWifi, SchemaAt, NetworkFrom, Put, PutPassword, Ignored

LEMMA SaveTokenIs ==
  ASSUME NEW t
  PROVE  Len(SaveToken(t)) = 4 /\ SchemaAt(SaveToken(t), 1) /\ TokenFrom(SaveToken(t), 2, t)
BY DEF SaveToken, SchemaAt, TokenFrom, Put, Ignored

LEMMA ClearTokenIs ==
  /\ Len(ClearToken) = 2
  /\ ClearToken[1].key = "paired" /\ ClearToken[1].value = FALSE
  /\ ClearToken[2].key = "token" /\ ClearToken[2].value = Absent
BY DEF ClearToken, Put, Ignored

LEMMA SaveDisplayIs ==
  ASSUME NEW d
  PROVE  /\ Len(SaveDisplay(d)) = 4 /\ SchemaAt(SaveDisplay(d), 1)
         /\ SaveDisplay(d)[2].key = "brightness" /\ SaveDisplay(d)[2].value = d
         /\ SaveDisplay(d)[2].checked
         /\ SaveDisplay(d)[3].key = "screen" /\ SaveDisplay(d)[3].value = d
         /\ SaveDisplay(d)[4].key = "volume_step" /\ SaveDisplay(d)[4].value = d
BY DEF SaveDisplay, SchemaAt, Put, Ignored

LEMMA SaveHostIs ==
  ASSUME NEW e
  PROVE  /\ Len(SaveHostOverride(e)) = 3 /\ SchemaAt(SaveHostOverride(e), 1)
         /\ SaveHostOverride(e)[2].key = "host" /\ SaveHostOverride(e)[2].value = e[1]
         /\ SaveHostOverride(e)[3].key = "port" /\ SaveHostOverride(e)[3].value = e[2]
BY DEF SaveHostOverride, SchemaAt, Put, Ignored

(* Every write of a call fits its key. *)
LEMMA SchemaFits ==
  ASSUME NEW s, NEW i, SchemaAt(s, i)  PROVE Proper(s[i])
BY DEF SchemaAt, Proper, Fits, Keys, LegacyKeys

LEMMA NameFits ==
  ASSUME NEW w, w.key = "ssid", w.value \in Names  PROVE Proper(w)
BY NetworkFacts DEF Names, Proper, Fits, Keys, LegacyKeys

LEMMA PasswordFits ==
  ASSUME NEW w, w.key = "password", w.value \in Passwords  PROVE Proper(w)
BY NetworkFacts DEF Passwords, Proper, Fits, Keys, LegacyKeys

LEMMA TokenFitsKey ==
  ASSUME NEW w, w.key = "token", w.value \in Tokens  PROVE Proper(w)
BY DEF Proper, Fits, Keys, LegacyKeys

LEMMA DisplayFits ==
  ASSUME NEW w, w.key \in {"brightness", "screen", "volume_step"}, w.value \in Displays \cup {Absent}
  PROVE  Fits(w)
BY DEF Fits, Keys, LegacyKeys

LEMMA HostFits ==
  ASSUME NEW w, NEW e \in Endpoints, w.key = "host", w.value = e[1]  PROVE Fits(w)
BY DEF Fits, Keys, LegacyKeys

LEMMA PortFits ==
  ASSUME NEW w, NEW e \in Endpoints, w.key = "port", w.value = e[2]  PROVE Fits(w)
BY DEF Fits, Keys, LegacyKeys

LEMMA NetworkFits ==
  ASSUME NEW s, NEW i, NEW name \in Names, NEW password \in Passwords,
         NetworkFrom(s, i, name, password)
  PROVE  Proper(s[i]) /\ Proper(s[i + 1]) /\ Proper(s[i + 2]) /\ Proper(s[i + 3])
<1>1. s[i].key = "wifi_valid" /\ s[i].value = FALSE  BY DEF NetworkFrom
<1>2. Proper(s[i])  BY <1>1 DEF Proper, Fits, Keys, LegacyKeys
<1>3. s[i + 3].key = "wifi_valid" /\ s[i + 3].value = TRUE  BY DEF NetworkFrom
<1>4. Proper(s[i + 3])  BY <1>3 DEF Proper, Fits, Keys, LegacyKeys
<1>5. s[i + 1].key = "ssid" /\ s[i + 1].value = name  BY DEF NetworkFrom
<1>6. Proper(s[i + 1])  BY <1>5, NameFits
<1>7. s[i + 2].key = "password" /\ s[i + 2].value = password  BY DEF NetworkFrom
<1>8. Proper(s[i + 2])  BY <1>7, PasswordFits
<1> QED  BY <1>2, <1>4, <1>6, <1>8

LEMMA TokenFits ==
  ASSUME NEW s, NEW i, NEW t \in Tokens, TokenFrom(s, i, t)
  PROVE  Proper(s[i]) /\ Proper(s[i + 1]) /\ Proper(s[i + 2])
<1>1. s[i].key = "paired" /\ s[i].value = FALSE  BY DEF TokenFrom
<1>2. Proper(s[i])  BY <1>1 DEF Proper, Fits, Keys, LegacyKeys
<1>3. s[i + 2].key = "paired" /\ s[i + 2].value = TRUE  BY DEF TokenFrom
<1>4. Proper(s[i + 2])  BY <1>3 DEF Proper, Fits, Keys, LegacyKeys
<1>5. s[i + 1].key = "token" /\ s[i + 1].value = t  BY DEF TokenFrom
<1>6. Proper(s[i + 1])  BY <1>5, TokenFitsKey
<1> QED  BY <1>2, <1>4, <1>6

LEMMA LegacyValues ==
  ASSUME LegacyStands
  PROVE  /\ LegacyNetwork => /\ nvs["wifi_ssid"] \in Names /\ nvs["wifi_pass"] \in Passwords
                             /\ <<nvs["wifi_ssid"], nvs["wifi_pass"]>> \in Networks
         /\ LegacyToken => nvs["host_token"] \in Tokens
BY DEF LegacyStands, LegacyNetwork, LegacyToken, Names, Passwords

LEMMA MigrationFits ==
  ASSUME LegacyStands, NEW i \in 1 .. Len(MigrateLegacy)
  PROVE  Proper(MigrateLegacy[i])
<1> DEFINE s == MigrateLegacy
<1>1. CASE LegacyNetwork /\ LegacyToken
  <2>1. Len(s) = 8  BY <1>1, MigrateBoth
  <2>2. i \in {1, 2, 3, 4, 5, 6, 7, 8}  BY <2>1
  <2>3. Proper(s[1]) /\ Proper(s[1 + 1]) /\ Proper(s[1 + 2]) /\ Proper(s[1 + 3])
    BY <1>1, LegacyValues, MigrateBoth, NetworkFits
  <2>4. Proper(s[5]) /\ Proper(s[5 + 1]) /\ Proper(s[5 + 2])
    BY <1>1, LegacyValues, MigrateBoth, TokenFits
  <2>5. Proper(s[8])  BY <1>1, MigrateBoth, SchemaFits
  <2>6. Proper(s[i])
    <3> HIDE DEF s
    <3> QED  BY <2>2, <2>3, <2>4, <2>5
  <2> QED  BY <2>6
<1>2. CASE LegacyNetwork /\ ~LegacyToken
  <2>1. Len(s) = 5  BY <1>2, MigrateNetwork
  <2>2. i \in {1, 2, 3, 4, 5}  BY <2>1
  <2>3. Proper(s[1]) /\ Proper(s[1 + 1]) /\ Proper(s[1 + 2]) /\ Proper(s[1 + 3])
    BY <1>2, LegacyValues, MigrateNetwork, NetworkFits
  <2>4. Proper(s[5])  BY <1>2, MigrateNetwork, SchemaFits
  <2>5. Proper(s[i])
    <3> HIDE DEF s
    <3> QED  BY <2>2, <2>3, <2>4
  <2> QED  BY <2>5
<1>3. CASE ~LegacyNetwork /\ LegacyToken
  <2>1. Len(s) = 4  BY <1>3, MigrateTokenOnly
  <2>2. i \in {1, 2, 3, 4}  BY <2>1
  <2>3. Proper(s[1]) /\ Proper(s[1 + 1]) /\ Proper(s[1 + 2])
    BY <1>3, LegacyValues, MigrateTokenOnly, TokenFits
  <2>4. Proper(s[4])  BY <1>3, MigrateTokenOnly, SchemaFits
  <2>5. Proper(s[i])
    <3> HIDE DEF s
    <3> QED  BY <2>2, <2>3, <2>4
  <2> QED  BY <2>5
<1>4. CASE ~LegacyNetwork /\ ~LegacyToken
  <2>1. Len(s) = 1  BY <1>4, MigrateNothing
  <2>2. i = 1  BY <2>1
  <2>3. Proper(s[1])  BY <1>4, MigrateNothing, SchemaFits
  <2> QED  BY <2>2, <2>3
<1> QED  BY <1>1, <1>2, <1>3, <1>4

LEMMA WritesFit ==
  ASSUME LegacyStands, CallOK, Busy, NEW i \in 1 .. Len(call.script)
  PROVE  /\ Fits(call.script[i])
         /\ call.op \in {"load", "saveWifi", "saveToken"} => call.script[i].value # Absent
<1> DEFINE n == call.argument
           s == call.script
<1>1. CASE call.op = "load" /\ s = <<>>
  BY <1>1
<1>2. CASE call.op = "load" /\ s = MigrateLegacy
  BY <1>2, MigrationFits DEF Proper
<1>3. CASE call.op = "saveWifi" /\ n \in Networks /\ s = SaveWifi(n)
  <2>1. s = SaveWifi(n) /\ n[1] \in Names /\ n[2] \in Passwords  BY <1>3, NetworkFacts
  <2> HIDE DEF s, n
  <2>2. Len(s) = 5 /\ SchemaAt(s, 1) /\ NetworkFrom(s, 2, n[1], n[2])  BY <2>1, SaveWifiIs
  <2>3. i \in {1, 2, 3, 4, 5}  BY <2>2 DEF s
  <2>4. Proper(s[1])  BY <2>2, SchemaFits
  <2>5. Proper(s[2]) /\ Proper(s[2 + 1]) /\ Proper(s[2 + 2]) /\ Proper(s[2 + 3])
    BY <2>1, <2>2, NetworkFits
  <2>6. Proper(s[i])  BY <2>3, <2>4, <2>5
  <2> QED  BY <2>6 DEF s, Proper
<1>4. CASE call.op = "saveToken" /\ n \in Tokens /\ s = SaveToken(n)
  <2>1. s = SaveToken(n) /\ n \in Tokens  BY <1>4
  <2> HIDE DEF s, n
  <2>2. Len(s) = 4 /\ SchemaAt(s, 1) /\ TokenFrom(s, 2, n)  BY <2>1, SaveTokenIs
  <2>3. i \in {1, 2, 3, 4}  BY <2>2 DEF s
  <2>4. Proper(s[1])  BY <2>2, SchemaFits
  <2>5. Proper(s[2]) /\ Proper(s[2 + 1]) /\ Proper(s[2 + 2])  BY <2>1, <2>2, TokenFits
  <2>6. Proper(s[i])  BY <2>3, <2>4, <2>5
  <2> QED  BY <2>6 DEF s, Proper
<1>5. CASE call.op = "clearToken" /\ s = ClearToken
  <2>1. s = ClearToken  BY <1>5
  <2>2. Len(s) = 2  BY <2>1, ClearTokenIs
  <2>3. i \in {1, 2}  BY <2>2
  <2>4. s[1].key = "paired" /\ s[1].value = FALSE  BY <2>1, ClearTokenIs
  <2>5. s[2].key = "token" /\ s[2].value = Absent  BY <2>1, ClearTokenIs
  <2> HIDE DEF s
  <2>6. Fits(s[1])  BY <2>4 DEF Fits, Keys, LegacyKeys
  <2>7. Fits(s[2])  BY <2>5 DEF Fits, Keys, LegacyKeys
  <2>8. Fits(s[i])  BY <2>3, <2>6, <2>7
  <2> QED  BY <1>5, <2>8 DEF s
<1>6. CASE call.op = "saveDisplay" /\ n \in Displays \cup {Absent} /\ s = SaveDisplay(n)
  <2>1. s = SaveDisplay(n) /\ n \in Displays \cup {Absent}  BY <1>6
  <2> HIDE DEF s, n
  <2>2. Len(s) = 4  BY <2>1, SaveDisplayIs
  <2>3. i \in {1, 2, 3, 4}  BY <2>2 DEF s
  <2>4. Fits(s[1])  BY <2>1, SaveDisplayIs, SchemaFits DEF Proper
  <2>5. Fits(s[2]) /\ Fits(s[3]) /\ Fits(s[4])
    BY <2>1, SaveDisplayIs, DisplayFits
  <2>6. Fits(s[i])  BY <2>3, <2>4, <2>5
  <2> QED  BY <1>6, <2>6 DEF s
<1>7. CASE call.op = "saveHost" /\ n \in Endpoints /\ s = SaveHostOverride(n)
  <2>1. s = SaveHostOverride(n) /\ n \in Endpoints  BY <1>7
  <2> HIDE DEF s, n
  <2>2. Len(s) = 3  BY <2>1, SaveHostIs
  <2>3. i \in {1, 2, 3}  BY <2>2 DEF s
  <2>4. Fits(s[1])  BY <2>1, SaveHostIs, SchemaFits DEF Proper
  <2>5. s[2].key = "host" /\ s[2].value = n[1] /\ s[3].key = "port" /\ s[3].value = n[2]
    BY <2>1, SaveHostIs
  <2>6. Fits(s[2])  BY <2>1, <2>5, HostFits
  <2>7. Fits(s[3])  BY <2>1, <2>5, PortFits
  <2>8. Fits(s[i])  BY <2>3, <2>4, <2>6, <2>7
  <2> QED  BY <1>7, <2>8 DEF s
<1> QED  BY <1>1, <1>2, <1>3, <1>4, <1>5, <1>6, <1>7 DEF CallOK, Known

----------------------------------------------------------------------------
(* What a write does to the flash and to its call.                         *)

Wrote(w) ==
  /\ Fits(w) /\ w = call.script[call.at] /\ call.at \in 1 .. Len(call.script)
  /\ DOMAIN nvs' = Keys
  /\ \A k \in Keys : k # w.key => nvs'[k] = nvs[k]
  /\ nvs'[w.key] = nvs[w.key] \/ nvs'[w.key] = w.value
Went(w) ==
  /\ DOMAIN call' = Fields /\ Busy'
  /\ call'.by = call.by /\ call'.op = call.op
  /\ call'.argument = call.argument /\ call'.script = call.script
  /\ call'.at \in 1 .. Len(call.script) + 1 /\ call'.at > call.at
  /\ call'.ok \in BOOLEAN /\ (call'.ok => call.ok)
  /\ call'.ok => call'.at = call.at + 1
  /\ call'.at <= Len(call.script) => call'.ok = call.ok
  /\ call'.ok /\ (~failing \/ w.checked) => nvs'[w.key] = w.value
  /\ ~failing /\ (w.value # Absent \/ nvs[w.key] # Absent) =>
       nvs'[w.key] = w.value /\ call'.at = call.at + 1 /\ call'.ok = call.ok

LEMMA WriteEffect ==
  ASSUME Base, Write
  PROVE  \E w : Wrote(w) /\ Went(w)
<1> DEFINE w == call.script[call.at]
<1>1. Busy /\ CallOK /\ LegacyStands /\ DOMAIN nvs = Keys
  BY DEF Base, BootTypeOK, Write
<1>2. /\ DOMAIN call = Fields /\ call.ok \in BOOLEAN
      /\ call.at \in 1 .. Len(call.script) + 1 /\ ~(call.at > Len(call.script))
  BY <1>1 DEF CallOK, Write, Done
<1>3. Len(call.script) \in Nat /\ call.at \in 1 .. Len(call.script)
  BY <1>2
<1>4. Fits(w)
  BY <1>1, <1>3, WritesFit
<1>5. w.key \in DOMAIN nvs
  BY <1>1, <1>4 DEF Fits
<1>6. call.by # "none"
  BY <1>1 DEF Base, PlaceOK
<1>7. CASE Succeeds(w)
  BY <1>1, <1>2, <1>3, <1>4, <1>5, <1>6, <1>7 DEF Succeeds, Wrote, Went, Fields, Busy, Idle
<1>8. CASE Fails(w)
  <2>1. nvs' = nvs /\ (failing \/ (w.value = Absent /\ nvs[w.key] = Absent))
    BY <1>8 DEF Fails
  <2>2. Wrote(w)
    BY <1>1, <1>3, <1>4, <2>1 DEF Wrote
  <2>3. CASE w.checked
    <3>1. call' = [call EXCEPT !.at = Len(call.script) + 1, !.ok = FALSE]
      BY <1>8, <2>3 DEF Fails
    <3>2. Busy'
      BY <1>2, <1>6, <3>1 DEF Fields, Busy, Idle
    <3>3. /\ DOMAIN call' = Fields /\ call'.at = Len(call.script) + 1
          /\ call'.by = call.by /\ call'.op = call.op
          /\ call'.argument = call.argument /\ call'.script = call.script
      BY <1>2, <3>1 DEF Fields
    <3>4. ~call'.ok /\ call'.ok \in BOOLEAN
      BY <1>2, <3>1 DEF Fields
    <3>5. call'.at \in 1 .. Len(call.script) + 1 /\ call'.at > call.at
      BY <1>3, <3>3
    <3>6. ~(~failing /\ (w.value # Absent \/ nvs[w.key] # Absent))
      BY <2>1
    <3>7. Went(w)
      BY <3>2, <3>3, <3>4, <3>5, <3>6 DEF Went
    <3> QED  BY <2>2, <3>7
  <2>4. CASE ~w.checked
    <3>1. call' = [call EXCEPT !.at = @ + 1]
      BY <1>8, <2>4 DEF Fails
    <3>2. Busy'
      BY <1>2, <1>6, <3>1 DEF Fields, Busy, Idle
    <3>3. Went(w)
      BY <1>2, <1>3, <2>1, <2>4, <3>1, <3>2 DEF Went, Fields
    <3> QED  BY <2>2, <3>3
  <2> QED  BY <2>3, <2>4
<1> QED  BY <1>7, <1>8 DEF Write

----------------------------------------------------------------------------
(* Types and places.                                                       *)

LEMMA LegacySame ==
  ASSUME \A k \in LegacyKeys : nvs'[k] = nvs[k]
  PROVE  /\ MigrateLegacy' = MigrateLegacy /\ LegacyStands' = LegacyStands
         /\ LegacyNetwork' = LegacyNetwork
         /\ \A op, n, script : Known(op, n, script)' = Known(op, n, script)
<1>1. /\ nvs'["wifi_ssid"] = nvs["wifi_ssid"] /\ nvs'["wifi_pass"] = nvs["wifi_pass"]
      /\ nvs'["host_token"] = nvs["host_token"]
  BY DEF LegacyKeys
<1>2. LegacyNetwork' = LegacyNetwork /\ LegacyToken' = LegacyToken
  BY <1>1 DEF LegacyNetwork, LegacyToken
<1>3. MigrateLegacy' = MigrateLegacy
  BY <1>1, <1>2 DEF MigrateLegacy, MigrateWifi, MigrateToken
<1>4. LegacyStands' = LegacyStands
  BY <1>1 DEF LegacyStands
<1> QED  BY <1>2, <1>3, <1>4 DEF Known

LEMMA MigrationLength == Len(MigrateLegacy) \in {1, 4, 5, 8}
<1>1. LegacyNetwork /\ LegacyToken => Len(MigrateLegacy) = 8  BY MigrateBoth
<1>2. LegacyNetwork /\ ~LegacyToken => Len(MigrateLegacy) = 5  BY MigrateNetwork
<1>3. ~LegacyNetwork /\ LegacyToken => Len(MigrateLegacy) = 4  BY MigrateTokenOnly
<1>4. ~LegacyNetwork /\ ~LegacyToken => Len(MigrateLegacy) = 1  BY MigrateNothing
<1> QED  BY <1>1, <1>2, <1>3, <1>4

LEMMA KnownLength ==
  ASSUME NEW op, NEW n, NEW script, Known(op, n, script)
  PROVE  Len(script) \in Nat
BY MigrationLength, SaveWifiIs, SaveTokenIs, ClearTokenIs, SaveDisplayIs, SaveHostIs DEF Known

(* A call begins. *)
Began(by, op, n, script) ==
  call' = [by |-> by, op |-> op, argument |-> n, script |-> script, at |-> 1, ok |-> TRUE]

LEMMA BeganEffect ==
  ASSUME NEW by \in Callers, NEW op, NEW n, NEW script,
         Began(by, op, n, script), nvs' = nvs, Known(op, n, script)
  PROVE  /\ Busy' /\ CallOK'
         /\ call'.by = by /\ call'.op = op /\ call'.argument = n /\ call'.script = script
         /\ call'.at = 1 /\ call'.ok = TRUE
<1>1. /\ DOMAIN call' = Fields
      /\ call'.by = by /\ call'.op = op /\ call'.argument = n /\ call'.script = script
      /\ call'.at = 1 /\ call'.ok = TRUE
  BY DEF Began, Fields
<1>2. Busy'
  BY <1>1 DEF Busy, Idle, Callers
<1>3. call'.at \in 1 .. Len(call'.script) + 1
  BY <1>1, KnownLength
<1>4. Known(op, n, script)'
  BY LegacySame DEF Known
<1>5. CallOK'
  BY <1>1, <1>3, <1>4 DEF CallOK
<1> QED  BY <1>1, <1>2, <1>5

(* Where the writes leave the flash, by key. *)
FlashOK ==
    /\ DOMAIN nvs = Keys
    /\ nvs["schema"] \in {Schema, Schema + 1, Absent}
    /\ {nvs["wifi_valid"], nvs["paired"]} \subseteq {TRUE, FALSE, Absent}
    /\ nvs["ssid"] \in Names \cup {Absent}
    /\ nvs["password"] \in Passwords \cup {Absent}
    /\ nvs["token"] \in Tokens \cup {Absent}
    /\ nvs["host"] \in {e[1] : e \in Endpoints} \cup {Absent}
    /\ nvs["port"] \in {e[2] : e \in Endpoints} \cup {Absent}
    /\ {nvs["brightness"], nvs["screen"], nvs["volume_step"]} \subseteq Displays \cup {Absent}
TasksOK ==
    /\ build \in Builds /\ app \in {"off", "begin", "loop", "restarting"} /\ network \in Places
    /\ settings.wifi \in {Absent} \cup (Names \X (Passwords \cup {NoPassword}))
    /\ settings.token \in Tokens \cup {Absent}
    /\ saved \in BOOLEAN /\ dirty \in BOOLEAN
    /\ chosen \in Displays \cup {Absent}

LEMMA TypeParts ==
  BootTypeOK <=> FlashOK /\ TasksOK
BY DEF BootTypeOK, FlashOK, TasksOK, Names, Passwords

LEMMA TypePartsNext ==
  FlashOK' /\ TasksOK' => BootTypeOK'
BY DEF BootTypeOK, FlashOK, TasksOK, Names, Passwords

LEMMA WriteFlash ==
  ASSUME FlashOK, NEW w, Wrote(w)
  PROVE  FlashOK' /\ \A k \in LegacyKeys : nvs'[k] = nvs[k]
<1>1. \A k \in Keys : nvs'[k] = nvs[k] \/ (k = w.key /\ nvs'[k] = w.value)
  BY DEF Wrote
<1>2. w.key \in Keys \ LegacyKeys
  BY DEF Wrote, Fits
<1>3. \A k \in LegacyKeys : nvs'[k] = nvs[k]
  BY <1>2 DEF Wrote, Keys
<1>4. nvs'["schema"] \in {Schema, Schema + 1, Absent}
  BY <1>1 DEF FlashOK, Wrote, Fits, Keys
<1>5. nvs'["wifi_valid"] \in {TRUE, FALSE, Absent}
  BY <1>1 DEF FlashOK, Wrote, Fits, Keys
<1>6. nvs'["paired"] \in {TRUE, FALSE, Absent}
  BY <1>1 DEF FlashOK, Wrote, Fits, Keys
<1>7. nvs'["ssid"] \in Names \cup {Absent}
  BY <1>1 DEF FlashOK, Wrote, Fits, Keys
<1>8. nvs'["password"] \in Passwords \cup {Absent}
  BY <1>1 DEF FlashOK, Wrote, Fits, Keys
<1>9. nvs'["token"] \in Tokens \cup {Absent}
  BY <1>1 DEF FlashOK, Wrote, Fits, Keys
<1>10. nvs'["host"] \in {e[1] : e \in Endpoints} \cup {Absent}
  BY <1>1 DEF FlashOK, Wrote, Fits, Keys
<1>11. nvs'["port"] \in {e[2] : e \in Endpoints} \cup {Absent}
  BY <1>1 DEF FlashOK, Wrote, Fits, Keys
<1>12. {nvs'["brightness"], nvs'["screen"], nvs'["volume_step"]} \subseteq Displays \cup {Absent}
  BY <1>1 DEF FlashOK, Wrote, Fits, Keys
<1> QED
  BY <1>3, <1>4, <1>5, <1>6, <1>7, <1>8, <1>9, <1>10, <1>11, <1>12 DEF FlashOK, Wrote

LEMMA WriteBase ==
  ASSUME Base, StoreWrites
  PROVE  Base'
<1>1. PICK w : Wrote(w) /\ Went(w)
  BY WriteEffect DEF StoreWrites
<1>2. FlashOK /\ TasksOK /\ LegacyStands /\ CallOK /\ PlaceOK /\ Busy
  BY TypeParts DEF Base, StoreWrites, Write
<1>3. FlashOK' /\ \A k \in LegacyKeys : nvs'[k] = nvs[k]
  BY <1>1, <1>2, WriteFlash
<1>4. TasksOK'
  BY <1>2 DEF TasksOK, StoreWrites, tasks
<1>5. LegacyStands'
  BY <1>2, <1>3, LegacySame
<1>6. CallOK'
  <2>1. Known(call.op, call.argument, call.script)'
    BY <1>1, <1>2, <1>3, LegacySame DEF CallOK, Went, Known
  <2> QED  BY <1>1, <1>2, <2>1 DEF CallOK, Went
<1>7. PlaceOK'
  BY <1>1, <1>2 DEF PlaceOK, Went, StoreWrites, tasks
<1> QED  BY <1>3, <1>4, <1>5, <1>6, <1>7, TypePartsNext DEF Base

----------------------------------------------------------------------------
(* What the steps do to the store, all but the writes.                     *)

Taken ==
  /\ nvs' = nvs /\ Busy' /\ CallOK'
  /\ call'.at = 1 /\ call'.ok = TRUE
  /\ call'.op = "load" => call'.script = Load
Freed == nvs' = nvs /\ ~Busy'
Kept == nvs' = nvs /\ call' = call
Reset == nvs' = Blank /\ ~Busy /\ ~Busy' /\ app' = "restarting"

LEMMA StartTakes ==
  ASSUME NEW by \in Callers, NEW op, NEW n, NEW script, Start(by, op, n, script), Known(op, n, script),
         op = "load" => script = Load
  PROVE  /\ Taken /\ ~Busy
         /\ call'.by = by /\ call'.op = op /\ call'.argument = n /\ call'.script = script
<1>1. nvs' = nvs /\ ~Busy /\ Began(by, op, n, script)
  BY DEF Start, Began, Busy
<1>2. /\ Busy' /\ CallOK'
      /\ call'.by = by /\ call'.op = op /\ call'.argument = n /\ call'.script = script
      /\ call'.at = 1 /\ call'.ok = TRUE
  BY <1>1, BeganEffect
<1> QED  BY <1>1, <1>2 DEF Taken

LEMMA ReturnFrees ==
  ASSUME Return  PROVE Freed
BY DEF Return, Freed, Busy

LEMMA LoadKnown ==
  Known("load", Absent, Load)
BY DEF Known, Load

(* The value the network task reads is one of the flash's. *)
LEMMA LoadedType ==
  ASSUME FlashOK, LoadStatus = "Ok"
  PROVE  /\ Loaded = [wifi |-> Wifi, token |-> Token] /\ Loaded.wifi = Wifi /\ Loaded.token = Token
         /\ Wifi \in {Absent} \cup (Names \X (Passwords \cup {NoPassword}))
         /\ Token \in Tokens \cup {Absent}
<1>1. Loaded = [wifi |-> Wifi, token |-> Token] /\ Loaded.wifi = Wifi /\ Loaded.token = Token
  BY DEF Loaded
<1>2. nvs["wifi_valid"] = TRUE => nvs["ssid"] # Absent
  BY DEF LoadStatus
<1>3. Wifi \in {Absent} \cup (Names \X (Passwords \cup {NoPassword}))
  BY <1>2 DEF Wifi, FlashOK
<1>4. Token \in Tokens \cup {Absent}
  BY DEF Token, FlashOK
<1> QED  BY <1>1, <1>3, <1>4

(* Each action, but for the writes. *)
Good == TasksOK' /\ PlaceOK' /\ (Taken \/ Freed \/ Kept \/ Reset)
NetworkGood ==
  /\ TasksOK' /\ PlaceOK'
  /\ (Taken /\ call'.by = "network") \/ Freed \/ Kept
  /\ UNCHANGED <<build, app, chosen, dirty>>

LEMMA ApplicationGood ==
  ASSUME Base,
         \/ PowerOn \/ Begin \/ PersistSettings \/ SettingsPersisted \/ PerformFactoryReset
         \/ \E d \in Displays : AdjustSetting(d)
  PROVE  Good
<1> USE DEF Good, Base
<1> TasksOK /\ FlashOK
  BY TypeParts
<1>1. CASE PowerOn
  <2>1. Taken /\ call'.by = "app" /\ call'.op = "load"
    BY <1>1, StartTakes, LoadKnown DEF PowerOn, Callers
  <2> QED  BY <1>1, <2>1 DEF TasksOK, PlaceOK, PowerOn, Taken
<1>2. CASE Begin
  <2>1. Freed /\ app = "begin" /\ network = "off"
    BY <1>2, ReturnFrees DEF Begin, Returns, PlaceOK, Done
  <2>2. TasksOK'
    BY <1>2 DEF TasksOK, Begin, Places, FlashOK
  <2> QED  BY <1>2, <2>1, <2>2 DEF PlaceOK, Begin, Freed
<1>3. CASE PersistSettings
  <2>1. Taken /\ call'.by = "app" /\ call'.op = "saveDisplay"
    <3>1. Known("saveDisplay", chosen, SaveDisplay(chosen))
      BY DEF Known, TasksOK
    <3> QED  BY <1>3, <3>1, StartTakes DEF PersistSettings, Callers
  <2> QED  BY <1>3, <2>1 DEF TasksOK, PlaceOK, PersistSettings, AtLoop, Taken, tasks
<1>4. CASE SettingsPersisted
  <2>1. Freed /\ app = "loop" /\ call.ok \in BOOLEAN
    BY <1>4, ReturnFrees DEF SettingsPersisted, Returns, PlaceOK, Done, CallOK
  <2>2. TasksOK'
    BY <1>4, <2>1 DEF TasksOK, SettingsPersisted
  <2> QED  BY <1>4, <2>1, <2>2 DEF PlaceOK, SettingsPersisted, Freed
<1>5. CASE PerformFactoryReset
  <2>1. CASE Cleared /\ app' = "restarting"
    <3>1. Reset
      BY <2>1 DEF Cleared, Reset, Busy
    <3> QED  BY <1>5, <2>1, <3>1 DEF TasksOK, PlaceOK, PerformFactoryReset, AtLoop, Reset
  <2>2. CASE NotCleared /\ UNCHANGED app
    BY <1>5, <2>2 DEF TasksOK, PlaceOK, PerformFactoryReset, NotCleared, Kept, Busy
  <2> QED  BY <1>5, <2>1, <2>2 DEF PerformFactoryReset
<1>6. CASE \E d \in Displays : AdjustSetting(d)
  BY <1>6 DEF TasksOK, PlaceOK, AdjustSetting, Kept, Busy
<1> QED  BY <1>1, <1>2, <1>3, <1>4, <1>5, <1>6

LEMMA NetworkTaskGood ==
  ASSUME Base,
         \/ NetworkLoads \/ NetworkLoaded \/ InstallBootstrap \/ BootstrapInstalled
         \/ \E n \in Networks : HandleSave(n)
         \/ \E e \in Endpoints : WifiSaved(e)
         \/ HostSaved \/ PortalStops
         \/ \E t \in Tokens : Pair(t)
         \/ Paired \/ Unpair \/ Unpaired
  PROVE  NetworkGood
<1> USE DEF NetworkGood, Base
<1> TasksOK /\ FlashOK
  BY TypeParts
<1>1. CASE NetworkLoads
  <2>1. Taken /\ call'.by = "network" /\ call'.op = "load"
    BY <1>1, StartTakes, LoadKnown DEF NetworkLoads, Callers
  <2> QED  BY <1>1, <2>1 DEF TasksOK, PlaceOK, NetworkLoads, Taken, tasks
<1>2. CASE NetworkLoaded
  <2>1. Freed /\ network \in {"start", "again", "provisioned"} /\ app \notin {"off", "begin"}
    BY <1>2, ReturnFrees DEF NetworkLoaded, Returns, PlaceOK, Done
  <2>2. network' \in Places \ {"off"}
    BY <1>2 DEF NetworkLoaded, AfterLoad, Places
  <2>3. /\ settings' = [wifi |-> settings'.wifi, token |-> settings'.token]
        /\ settings'.wifi \in {Absent} \cup (Names \X (Passwords \cup {NoPassword}))
        /\ settings'.token \in Tokens \cup {Absent}
    BY <1>2, LoadedType DEF NetworkLoaded, TasksOK, PlaceOK
  <2>4. network' = "bootstrap" => build.network \in Networks
    BY <1>2, BootAssumption DEF NetworkLoaded, AfterLoad, WantsBootstrap, TasksOK
  <2>5. TasksOK'
    BY <1>2, <2>2, <2>3 DEF TasksOK, NetworkLoaded
  <2> QED  BY <1>2, <2>1, <2>2, <2>3, <2>4, <2>5 DEF PlaceOK, NetworkLoaded, Freed
<1>3. CASE InstallBootstrap
  <2>1. Taken /\ call'.by = "network" /\ call'.op = "saveWifi"
    <3>1. Known("saveWifi", build.network, SaveWifi(build.network))
      BY <1>3 DEF Known, PlaceOK, InstallBootstrap
    <3> QED  BY <1>3, <3>1, StartTakes DEF InstallBootstrap, Callers
  <2> QED  BY <1>3, <2>1 DEF TasksOK, PlaceOK, InstallBootstrap, Taken, tasks
<1>4. CASE BootstrapInstalled
  <2>1. Freed
    BY <1>4, ReturnFrees DEF BootstrapInstalled
  <2> QED  BY <1>4, <2>1 DEF TasksOK, PlaceOK, BootstrapInstalled, Freed, Places
<1>5. CASE \E n \in Networks : HandleSave(n)
  <2> PICK n \in Networks : HandleSave(n)
    BY <1>5
  <2>1. Taken /\ call'.by = "network" /\ call'.op = "saveWifi"
    <3>1. Known("saveWifi", n, SaveWifi(n))
      BY DEF Known
    <3> QED  BY <3>1, StartTakes DEF HandleSave, Callers
  <2> QED  BY <2>1 DEF TasksOK, PlaceOK, HandleSave, Taken, tasks
<1>6. CASE \E e \in Endpoints : WifiSaved(e)
  <2> PICK e \in Endpoints : WifiSaved(e)
    BY <1>6
  <2>1. CASE call.ok
    <3>1. nvs' = nvs /\ Began("network", "saveHost", e, SaveHostOverride(e))
      BY <2>1 DEF WifiSaved, Began
    <3>2. Known("saveHost", e, SaveHostOverride(e))
      BY DEF Known
    <3>3. /\ Busy' /\ CallOK'
          /\ call'.by = "network" /\ call'.op = "saveHost"
          /\ call'.at = 1 /\ call'.ok = TRUE
      BY <3>1, <3>2, BeganEffect DEF Callers
    <3>4. Taken
      BY <3>1, <3>3 DEF Taken
    <3> QED  BY <3>3, <3>4 DEF TasksOK, PlaceOK, WifiSaved, tasks
  <2>2. CASE ~call.ok
    <3>1. Freed
      BY <2>2, ReturnFrees DEF WifiSaved
    <3> QED  BY <3>1 DEF TasksOK, PlaceOK, WifiSaved, Freed, tasks
  <2> QED  BY <2>1, <2>2
<1>7. CASE HostSaved
  <2>1. Freed /\ call.ok \in BOOLEAN
    BY <1>7, ReturnFrees DEF HostSaved, Returns, Done, CallOK
  <2>2. TasksOK'
    BY <1>7, <2>1 DEF TasksOK, HostSaved
  <2> QED  BY <1>7, <2>1, <2>2 DEF PlaceOK, HostSaved, Freed, Returns, Done
<1>8. CASE PortalStops
  BY <1>8 DEF TasksOK, PlaceOK, PortalStops, Kept, Busy, Places
<1>9. CASE \E t \in Tokens : Pair(t)
  <2> PICK t \in Tokens : Pair(t)
    BY <1>9
  <2>1. Taken /\ call'.by = "network" /\ call'.op = "saveToken"
    <3>1. Known("saveToken", t, SaveToken(t))
      BY DEF Known
    <3> QED  BY <3>1, StartTakes DEF Pair, Callers
  <2> QED  BY <2>1 DEF TasksOK, PlaceOK, Pair, Taken, tasks
<1>10. CASE Paired
  <2>1. Freed /\ call.op = "saveToken" /\ call.argument \in Tokens
    BY <1>10, ReturnFrees DEF Paired, Returns, Done, CallOK, Known
  <2>2. /\ settings' = [wifi |-> settings'.wifi, token |-> settings'.token] /\ settings'.wifi = settings.wifi
        /\ settings'.token \in Tokens \cup {Absent}
    BY <1>10, <2>1 DEF Paired, TasksOK, PlaceOK
  <2> QED  BY <1>10, <2>1, <2>2 DEF TasksOK, PlaceOK, Paired, Freed
<1>11. CASE Unpair
  <2>1. Taken /\ call'.by = "network" /\ call'.op = "clearToken"
    <3>1. Known("clearToken", Absent, ClearToken)
      BY DEF Known
    <3> QED  BY <1>11, <3>1, StartTakes DEF Unpair, Callers
  <2> QED  BY <1>11, <2>1 DEF TasksOK, PlaceOK, Unpair, Taken, tasks
<1>12. CASE Unpaired
  <2>1. Freed
    BY <1>12, ReturnFrees DEF Unpaired
  <2>2. /\ settings' = [wifi |-> settings'.wifi, token |-> settings'.token] /\ settings'.wifi = settings.wifi
        /\ settings'.token \in Tokens \cup {Absent}
    BY <1>12 DEF Unpaired, TasksOK, PlaceOK
  <2> QED  BY <1>12, <2>1, <2>2 DEF TasksOK, PlaceOK, Unpaired, Freed, Returns, Done
<1> QED
  BY <1>1, <1>2, <1>3, <1>4, <1>5, <1>6, <1>7, <1>8, <1>9, <1>10, <1>11, <1>12

LEMMA PowerLossGood == ASSUME Base, PowerLoss PROVE Good
<1>1. Freed
  BY DEF PowerLoss, PowerGoes, Freed, Busy
<1>2. settings' = [wifi |-> settings'.wifi, token |-> settings'.token] /\ settings'.wifi = Absent /\ settings'.token = Absent
  BY DEF PowerLoss, NoSettings
<1> QED  BY <1>1, <1>2, TypeParts DEF Good, Base, TasksOK, PlaceOK, PowerLoss, Places, Freed

LEMMA GoodBase ==
  ASSUME Base, Good
  PROVE  Base'
<1> TasksOK /\ FlashOK
  BY TypeParts DEF Base
<1>1. CASE nvs' = nvs /\ CallOK'
  <2>1. FlashOK' /\ LegacyStands'
    BY <1>1, LegacySame DEF Base, FlashOK
  <2> QED  BY <1>1, <2>1, TypePartsNext DEF Base, Good
<1>2. CASE Freed
  BY <1>1, <1>2 DEF CallOK, Freed
<1>3. CASE Kept
  <2>1. CallOK'
    BY <1>3, LegacySame DEF Base, CallOK, Kept, Busy, Known
  <2> QED  BY <1>1, <1>3, <2>1 DEF Kept
<1>4. CASE Taken
  BY <1>1, <1>4 DEF Taken
<1>5. CASE Reset
  <2>1. FlashOK' /\ LegacyStands'
    BY <1>5 DEF Reset, Blank, FlashOK, LegacyStands, Keys, LegacyKeys
  <2>2. CallOK'
    BY <1>5 DEF Reset, CallOK
  <2> QED  BY <2>1, <2>2, TypePartsNext DEF Base, Good
<1> QED  BY <1>2, <1>3, <1>4, <1>5 DEF Good

LEMMA StepGood ==
  ASSUME Base, BootNext, ~StoreWrites
  PROVE  Good
BY ApplicationGood, NetworkTaskGood, PowerLossGood DEF BootNext, System, User, NetworkGood, Good

LEMMA BaseStep ==
  ASSUME Base, [BootNext]_bootVars
  PROVE  Base'
<1>1. CASE StoreWrites
  BY <1>1, WriteBase
<1>2. CASE BootNext /\ ~StoreWrites
  BY <1>2, StepGood, GoodBase
<1>3. CASE UNCHANGED bootVars
  <2>1. Good
    BY <1>3 DEF bootVars, tasks, Good, Base, TasksOK, PlaceOK, Kept, Busy, BootTypeOK, Names, Passwords
  <2> QED  BY <2>1, GoodBase
<1> QED  BY <1>1, <1>2, <1>3

LEMMA InitBase == BootInit => Base
<1> SUFFICES ASSUME BootInit PROVE Base
  OBVIOUS
<1>1. nvs \in Flashes
  BY DEF BootInit, SettingsInit
<1>2. FlashOK /\ LegacyStands
  <2>1. CASE nvs = Blank
    BY <2>1 DEF Blank, FlashOK, LegacyStands, Keys, LegacyKeys
  <2>2. CASE nvs = [Blank EXCEPT !["schema"] = Schema + 1]
    BY <2>2 DEF Blank, FlashOK, LegacyStands, Keys, LegacyKeys
  <2>3. ASSUME NEW n \in Networks \cup {<<Absent, Absent>>, <<Invalid, Invalid>>},
               NEW t \in Tokens \cup {Absent}, nvs = Legacy(n, t)
        PROVE  FlashOK /\ LegacyStands
    <3>1. FlashOK
      BY <2>3 DEF Legacy, Blank, FlashOK, Keys, LegacyKeys
    <3>2. nvs["wifi_ssid"] = n[1] /\ nvs["wifi_pass"] = n[2] /\ nvs["host_token"] = t
      BY <2>3 DEF Legacy, Blank, Keys, LegacyKeys
    <3>3. n \in Networks => n = <<n[1], n[2]>>
      BY NetworkFacts
    <3> QED  BY <3>1, <3>2, <3>3 DEF LegacyStands
  <2> QED  BY <1>1, <2>1, <2>2, <2>3 DEF Flashes
<1>3. TasksOK
  BY DEF BootInit, TasksOK, NoSettings, Places
<1>4. CallOK /\ PlaceOK
  BY DEF BootInit, SettingsInit, CallOK, PlaceOK, Busy, NoSettings
<1> QED  BY <1>2, <1>3, <1>4, TypeParts DEF Base

----------------------------------------------------------------------------
(* The call and the flash.                                                 *)

LEMMA WrittenStep ==
  ASSUME Base, Written, NEW w, Wrote(w), Went(w), UNCHANGED failing, Busy
  PROVE  Written'
<1> SUFFICES ASSUME call'.ok,
                    NEW j \in 1 .. call'.at - 1,
                    ~failing \/ call.script[j].checked,
                    Latest(j)'
             PROVE  nvs'[call.script[j].key] = call.script[j].value
  BY DEF Written, Went
<1>1. /\ call.ok /\ call'.at = call.at + 1 /\ call'.script = call.script
      /\ w = call.script[call.at] /\ call.at \in 1 .. Len(call.script)
      /\ Busy /\ CallOK /\ LegacyStands
  BY DEF Went, Wrote, Base
<1>2. Len(call.script) \in Nat
  BY <1>1, KnownLength DEF CallOK
<1>3. CASE j = call.at
  BY <1>1, <1>3 DEF Went
<1>4. CASE j # call.at
  <2>1. j \in 1 .. call.at - 1 /\ j \in 1 .. Len(call.script)
    BY <1>1, <1>2, <1>4
  <2>2. \A i \in j + 1 .. call.at : call.script[i].key # call.script[j].key
    BY <1>1 DEF Latest
  <2>3. Latest(j) /\ w.key # call.script[j].key
    <3>1. call.at \in j + 1 .. call.at /\ \A i \in j + 1 .. call.at - 1 : i \in j + 1 .. call.at
      BY <1>1, <1>2, <2>1
    <3> QED  BY <1>1, <2>2, <3>1 DEF Latest
  <2>4. nvs[call.script[j].key] = call.script[j].value
    BY <1>1, <2>1, <2>3 DEF Written
  <2>5. Fits(call.script[j])
    BY <1>1, <2>1, WritesFit
  <2> QED  BY <2>3, <2>4, <2>5 DEF Wrote, Fits
<1> QED  BY <1>3, <1>4

LEMMA NotRefusedStep ==
  ASSUME Base, NotRefused, NEW w, Wrote(w), Went(w), UNCHANGED failing, Busy
  PROVE  NotRefused'
<1>1. call.op \in {"load", "saveWifi", "saveToken"} => w.value # Absent
  BY WritesFit DEF Base, Wrote
<1>2. call.ok
  <2>1. Len(call.script) \in Nat /\ call.at \in 1 .. Len(call.script)
    BY KnownLength DEF Base, CallOK, Wrote
  <2> QED  BY <2>1 DEF NotRefused
<1> QED  BY <1>1, <1>2 DEF NotRefused, Went

(* The schema is the last write of a migration. *)
LEMMA MigrationSchema ==
  ASSUME LegacyStands
  PROVE  /\ Len(MigrateLegacy) \in Nat \ {0} /\ MigrateLegacy # <<>>
         /\ SchemaAt(MigrateLegacy, Len(MigrateLegacy))
         /\ \A i \in 1 .. Len(MigrateLegacy) - 1 :
              MigrateLegacy[i].key \in {"wifi_valid", "ssid", "password", "paired", "token"}
<1> DEFINE s == MigrateLegacy
<1>1. CASE LegacyNetwork /\ LegacyToken
  <2>1. Len(s) = 8 /\ SchemaAt(s, 8)  BY <1>1, MigrateBoth
  <2>2. {s[1].key, s[2].key, s[3].key, s[4].key} \subseteq {"wifi_valid", "ssid", "password"}
    BY <1>1, MigrateBoth DEF NetworkFrom
  <2>3. {s[5].key, s[6].key, s[7].key} \subseteq {"paired", "token"}
    BY <1>1, MigrateBoth DEF TokenFrom
  <2> HIDE DEF s
  <2>4. \A i \in 1 .. Len(s) - 1 : s[i].key \in {"wifi_valid", "ssid", "password", "paired", "token"}  BY <2>1, <2>2, <2>3
  <2>5. Len(s) \in Nat \ {0} /\ s # <<>> /\ SchemaAt(s, Len(s))  BY <2>1
  <2> QED  BY <2>4, <2>5 DEF s
<1>2. CASE LegacyNetwork /\ ~LegacyToken
  <2>1. Len(s) = 5 /\ SchemaAt(s, 5)  BY <1>2, MigrateNetwork
  <2>2. {s[1].key, s[2].key, s[3].key, s[4].key} \subseteq {"wifi_valid", "ssid", "password"}
    BY <1>2, MigrateNetwork DEF NetworkFrom
  <2> HIDE DEF s
  <2>3. \A i \in 1 .. Len(s) - 1 : s[i].key \in {"wifi_valid", "ssid", "password", "paired", "token"}  BY <2>1, <2>2
  <2>4. Len(s) \in Nat \ {0} /\ s # <<>> /\ SchemaAt(s, Len(s))  BY <2>1
  <2> QED  BY <2>3, <2>4 DEF s
<1>3. CASE ~LegacyNetwork /\ LegacyToken
  <2>1. Len(s) = 4 /\ SchemaAt(s, 4)  BY <1>3, MigrateTokenOnly
  <2>2. {s[1].key, s[2].key, s[3].key} \subseteq {"paired", "token"}
    BY <1>3, MigrateTokenOnly DEF TokenFrom
  <2> HIDE DEF s
  <2>3. \A i \in 1 .. Len(s) - 1 : s[i].key \in {"wifi_valid", "ssid", "password", "paired", "token"}  BY <2>1, <2>2
  <2>4. Len(s) \in Nat \ {0} /\ s # <<>> /\ SchemaAt(s, Len(s))  BY <2>1
  <2> QED  BY <2>3, <2>4 DEF s
<1>4. CASE ~LegacyNetwork /\ ~LegacyToken
  <2>1. Len(s) = 1 /\ SchemaAt(s, 1)  BY <1>4, MigrateNothing
  <2> HIDE DEF s
  <2>2. \A i \in 1 .. Len(s) - 1 : s[i].key \in {"wifi_valid", "ssid", "password", "paired", "token"}  BY <2>1
  <2>3. Len(s) \in Nat \ {0} /\ s # <<>> /\ SchemaAt(s, Len(s))  BY <2>1
  <2> QED  BY <2>2, <2>3 DEF s
<1> QED  BY <1>1, <1>2, <1>3, <1>4

LEMMA MigratesStep ==
  ASSUME Base, Migrates, NEW w, Wrote(w), Went(w), Busy
  PROVE  Migrates'
<1> SUFFICES ASSUME call.op = "load"
             PROVE  Migrates'
  BY DEF Migrates, Went
<1>1. call.script = MigrateLegacy /\ LegacyStands
  BY DEF Base, CallOK, Known, Wrote
<1>2. call.script # <<>> /\ (nvs["wifi_ssid"] # Absent \/ nvs["host_token"] # Absent)
  BY <1>1, MigrationSchema DEF Migrates
<1>3. nvs'["wifi_ssid"] = nvs["wifi_ssid"] /\ nvs'["host_token"] = nvs["host_token"]
  BY DEF Wrote, Fits, Keys, LegacyKeys
<1>4. ASSUME call'.at <= Len(call.script)
      PROVE  nvs'["schema"] = Absent
  <2>1. call.at \in 1 .. Len(MigrateLegacy) - 1 /\ call.at <= Len(call.script)
    BY <1>1, <1>4, MigrationSchema DEF Wrote, Went
  <2>2. w.key # "schema"
    BY <1>1, <2>1, MigrationSchema DEF Wrote
  <2>3. nvs["schema"] = Absent
    BY <1>2, <2>1 DEF Migrates
  <2> QED  BY <2>2, <2>3 DEF Wrote, Keys
<1> QED  BY <1>2, <1>3, <1>4 DEF Migrates, Went

(* What an earlier write of the call left. *)
LEMMA StandsOnFlash ==
  ASSUME Written, NotRefused, Busy, ~failing, call.op \in {"load", "saveWifi", "saveToken"},
         NEW j \in 1 .. call.at - 1, Latest(j)
  PROVE  nvs[call.script[j].key] = call.script[j].value
BY DEF Written, NotRefused

LEMMA NetworkWritten ==
  ASSUME Base, Written, NotRefused, Busy, ~failing, call.op \in {"load", "saveWifi", "saveToken"},
         NEW w, Wrote(w), Went(w), WifiWhole,
         NEW i \in Nat \ {0}, NEW n, NEW p, <<n, p>> \in Networks, NetworkFrom(call.script, i, n, p),
         call.at \in {i, i + 1, i + 2, i + 3}
  PROVE  WifiWhole'
<1> DEFINE s == call.script
<1>1. w = s[call.at] /\ nvs'[w.key] = w.value
  BY WritesFit DEF Base, Wrote, Went
<1>2. \A k \in Keys : k # w.key => nvs'[k] = nvs[k]
  BY DEF Wrote
<1>3. /\ s[i].key = "wifi_valid" /\ s[i].value = FALSE
      /\ s[i + 1].key = "ssid" /\ s[i + 1].value = n
      /\ s[i + 2].key = "password" /\ s[i + 2].value = p
      /\ s[i + 3].key = "wifi_valid"
  BY DEF NetworkFrom
<1>4. CASE call.at = i
  <2>1. nvs'["wifi_valid"] = FALSE
    BY <1>1, <1>3, <1>4
  <2> QED  BY <2>1 DEF WifiWhole
<1>5. CASE call.at = i + 1
  <2>1. i \in 1 .. call.at - 1 /\ Latest(i)
    BY <1>5 DEF Latest
  <2>2. nvs[s[i].key] = s[i].value
    BY <2>1, StandsOnFlash
  <2>3. w.key = "ssid"
    BY <1>1, <1>3, <1>5
  <2>4. nvs'["wifi_valid"] = FALSE
    BY <1>2, <1>3, <2>2, <2>3 DEF Keys
  <2> QED  BY <2>4 DEF WifiWhole
<1>6. CASE call.at = i + 2
  <2>1. i \in 1 .. call.at - 1 /\ Latest(i)
    BY <1>3, <1>6 DEF Latest
  <2>2. nvs[s[i].key] = s[i].value
    BY <2>1, StandsOnFlash
  <2>3. w.key = "password"
    BY <1>1, <1>3, <1>6
  <2>4. nvs'["wifi_valid"] = FALSE
    BY <1>2, <1>3, <2>2, <2>3 DEF Keys
  <2> QED  BY <2>4 DEF WifiWhole
<1>7. CASE call.at = i + 3
  <2>1. /\ i + 1 \in 1 .. call.at - 1 /\ Latest(i + 1)
        /\ i + 2 \in 1 .. call.at - 1 /\ Latest(i + 2)
    BY <1>3, <1>7 DEF Latest
  <2>2. nvs[s[i + 1].key] = s[i + 1].value
    BY <2>1, StandsOnFlash
  <2>3. nvs[s[i + 2].key] = s[i + 2].value
    BY <2>1, StandsOnFlash
  <2>4. w.key = "wifi_valid"
    BY <1>1, <1>3, <1>7
  <2>5. nvs'["ssid"] = n /\ nvs'["password"] = p
    BY <1>2, <1>3, <2>2, <2>3, <2>4 DEF Keys
  <2> QED  BY <2>5 DEF WifiWhole
<1> QED  BY <1>4, <1>5, <1>6, <1>7

LEMMA TokenWritten ==
  ASSUME Base, Written, NotRefused, Busy, ~failing, call.op \in {"load", "saveWifi", "saveToken"},
         NEW w, Wrote(w), Went(w), TokenWhole,
         NEW i \in Nat \ {0}, NEW t \in Tokens, TokenFrom(call.script, i, t),
         call.at \in {i, i + 1, i + 2}
  PROVE  TokenWhole'
<1> DEFINE s == call.script
<1>1. w = s[call.at] /\ nvs'[w.key] = w.value
  BY WritesFit DEF Base, Wrote, Went
<1>2. \A k \in Keys : k # w.key => nvs'[k] = nvs[k]
  BY DEF Wrote
<1>3. /\ s[i].key = "paired" /\ s[i].value = FALSE
      /\ s[i + 1].key = "token" /\ s[i + 1].value = t
      /\ s[i + 2].key = "paired"
  BY DEF TokenFrom
<1>4. CASE call.at = i
  <2>1. nvs'["paired"] = FALSE
    BY <1>1, <1>3, <1>4
  <2> QED  BY <2>1 DEF TokenWhole
<1>5. CASE call.at = i + 1
  BY <1>1, <1>3, <1>5 DEF TokenWhole
<1>6. CASE call.at = i + 2
  <2>1. i + 1 \in 1 .. call.at - 1 /\ Latest(i + 1)
    BY <1>3, <1>6 DEF Latest
  <2>2. nvs[s[i + 1].key] = s[i + 1].value
    BY <2>1, StandsOnFlash
  <2>3. w.key = "paired"
    BY <1>1, <1>3, <1>6
  <2>4. nvs'["token"] = t
    BY <1>2, <1>3, <2>2, <2>3 DEF Keys
  <2> QED  BY <2>4 DEF TokenWhole
<1> QED  BY <1>4, <1>5, <1>6

(* A write of another key leaves it whole. *)
LEMMA ElsewhereWritten ==
  ASSUME NEW w, Wrote(w)
  PROVE  /\ WifiWhole /\ w.key \notin {"wifi_valid", "ssid", "password"} => WifiWhole'
         /\ TokenWhole /\ w.key \notin {"paired", "token"} => TokenWhole'
BY DEF Wrote, WifiWhole, TokenWhole, Keys

LEMMA MigrationWritten ==
  ASSUME Base, Written, NotRefused, Busy, ~failing, call.op = "load",
         NEW w, Wrote(w), Went(w), WifiWhole, TokenWhole
  PROVE  WifiWhole' /\ TokenWhole'
<1> DEFINE s == call.script
<1>1. /\ s = MigrateLegacy /\ LegacyStands /\ w = s[call.at] /\ call.at \in 1 .. Len(s)
  BY DEF Base, CallOK, Known, Wrote
<1>2. LegacyNetwork => <<nvs["wifi_ssid"], nvs["wifi_pass"]>> \in Networks
  BY <1>1, LegacyValues
<1>3. LegacyToken => nvs["host_token"] \in Tokens
  BY <1>1, LegacyValues
<1> HIDE DEF s
<1>4. ASSUME NetworkFrom(s, 1, nvs["wifi_ssid"], nvs["wifi_pass"]), LegacyNetwork, call.at \in {1, 2, 3, 4}
      PROVE  WifiWhole' /\ TokenWhole'
  <2>1. call.at \in {1, 1 + 1, 1 + 2, 1 + 3}  BY <1>4
  <2>2. WifiWhole'  BY <1>2, <1>4, <2>1, NetworkWritten DEF s
  <2>3. w.key \in {"wifi_valid", "ssid", "password"}  BY <1>1, <1>4 DEF NetworkFrom
  <2> QED  BY <2>2, <2>3, ElsewhereWritten
<1>5. ASSUME NEW i \in {1, 5}, TokenFrom(s, i, nvs["host_token"]), LegacyToken,
             call.at \in {i, i + 1, i + 2}
      PROVE  WifiWhole' /\ TokenWhole'
  <2>1. TokenWhole'  BY <1>3, <1>5, TokenWritten DEF s
  <2>2. w.key \in {"paired", "token"}  BY <1>1, <1>5 DEF TokenFrom
  <2> QED  BY <2>1, <2>2, ElsewhereWritten
<1>6. ASSUME SchemaAt(s, call.at)
      PROVE  WifiWhole' /\ TokenWhole'
  <2>1. w.key = "schema"  BY <1>1, <1>6 DEF SchemaAt
  <2> QED  BY <2>1, ElsewhereWritten
<1>7. CASE LegacyNetwork /\ LegacyToken
  <2>1. /\ Len(s) = 8 /\ NetworkFrom(s, 1, nvs["wifi_ssid"], nvs["wifi_pass"])
        /\ TokenFrom(s, 5, nvs["host_token"]) /\ SchemaAt(s, 8)
    BY <1>1, <1>7, MigrateBoth
  <2>2. call.at \in {1, 2, 3, 4, 5, 5 + 1, 5 + 2, 8}  BY <1>1, <2>1
  <2> QED  BY <1>4, <1>5, <1>6, <1>7, <2>1, <2>2
<1>8. CASE LegacyNetwork /\ ~LegacyToken
  <2>1. Len(s) = 5 /\ NetworkFrom(s, 1, nvs["wifi_ssid"], nvs["wifi_pass"]) /\ SchemaAt(s, 5)
    BY <1>1, <1>8, MigrateNetwork
  <2>2. call.at \in {1, 2, 3, 4, 5}  BY <1>1, <2>1
  <2> QED  BY <1>4, <1>6, <1>8, <2>1, <2>2
<1>9. CASE ~LegacyNetwork /\ LegacyToken
  <2>1. Len(s) = 4 /\ TokenFrom(s, 1, nvs["host_token"]) /\ SchemaAt(s, 4)
    BY <1>1, <1>9, MigrateTokenOnly
  <2>2. call.at \in {1, 1 + 1, 1 + 2, 4}  BY <1>1, <2>1
  <2> QED  BY <1>5, <1>6, <1>9, <2>1, <2>2
<1>10. CASE ~LegacyNetwork /\ ~LegacyToken
  <2>1. Len(s) = 1 /\ SchemaAt(s, 1)
    BY <1>1, <1>10, MigrateNothing
  <2>2. call.at = 1  BY <1>1, <2>1
  <2> QED  BY <1>6, <2>1, <2>2
<1> QED  BY <1>7, <1>8, <1>9, <1>10

LEMMA SaveWritten ==
  ASSUME Base, Written, NotRefused, Busy, ~failing, call.op \in {"saveWifi", "saveToken"},
         NEW w, Wrote(w), Went(w), WifiWhole, TokenWhole
  PROVE  WifiWhole' /\ TokenWhole'
<1> DEFINE s == call.script
           n == call.argument
<1>1. w = s[call.at] /\ call.at \in 1 .. Len(s)
  BY DEF Wrote
<1>2. CASE call.op = "saveWifi"
  <2>1. n \in Networks /\ s = SaveWifi(n)
    BY <1>2 DEF Base, CallOK, Known
  <2>2. Len(s) = 5 /\ SchemaAt(s, 1) /\ NetworkFrom(s, 2, n[1], n[2]) /\ <<n[1], n[2]>> \in Networks
    BY <2>1, SaveWifiIs, NetworkFacts
  <2> HIDE DEF s, n
  <2>3. CASE call.at = 1
    BY <1>1, <2>2, <2>3, ElsewhereWritten DEF SchemaAt
  <2>4. CASE call.at \in {2, 2 + 1, 2 + 2, 2 + 3}
    <3>1. WifiWhole'  BY <1>2, <2>2, <2>4, NetworkWritten DEF s
    <3>2. w.key \in {"wifi_valid", "ssid", "password"}  BY <1>1, <2>2, <2>4 DEF NetworkFrom
    <3> QED  BY <3>1, <3>2, ElsewhereWritten
  <2>5. call.at = 1 \/ call.at \in {2, 2 + 1, 2 + 2, 2 + 3}  BY <1>1, <2>2
  <2> QED  BY <2>3, <2>4, <2>5
<1>3. CASE call.op = "saveToken"
  <2>1. n \in Tokens /\ s = SaveToken(n)
    BY <1>3 DEF Base, CallOK, Known
  <2>2. Len(s) = 4 /\ SchemaAt(s, 1) /\ TokenFrom(s, 2, n)
    BY <2>1, SaveTokenIs
  <2> HIDE DEF s, n
  <2>3. CASE call.at = 1
    BY <1>1, <2>2, <2>3, ElsewhereWritten DEF SchemaAt
  <2>4. CASE call.at \in {2, 2 + 1, 2 + 2}
    <3>1. TokenWhole'  BY <1>3, <2>1, <2>2, <2>4, TokenWritten DEF s
    <3>2. w.key \in {"paired", "token"}  BY <1>1, <2>2, <2>4 DEF TokenFrom
    <3> QED  BY <3>1, <3>2, ElsewhereWritten
  <2>5. call.at = 1 \/ call.at \in {2, 2 + 1, 2 + 2}  BY <1>1, <2>2
  <2> QED  BY <2>3, <2>4, <2>5
<1> QED  BY <1>2, <1>3

LEMMA ClearWritten ==
  ASSUME Base, Written, NotRefused, Busy, ~failing, call.op = "clearToken",
         NEW w, Wrote(w), Went(w), WifiWhole, TokenWhole
  PROVE  WifiWhole' /\ TokenWhole' /\ nvs'["paired"] = FALSE
<1> DEFINE s == call.script
<1>1. s = ClearToken /\ w = s[call.at] /\ call.at \in 1 .. Len(s)
  BY DEF Base, CallOK, Known, Wrote
<1>2. Len(s) = 2 /\ s[1].key = "paired" /\ s[1].value = FALSE /\ s[2].key = "token"
  BY <1>1, ClearTokenIs
<1> HIDE DEF s
<1>3. w.key \in {"paired", "token"}
  BY <1>1, <1>2
<1>4. nvs'["paired"] = FALSE
  <2>1. CASE call.at = 1
    <3>1. w.key = "paired" /\ w.value = FALSE /\ w.value # Absent
      BY <1>1, <1>2, <2>1
    <3> QED  BY <3>1 DEF Went
  <2>2. CASE call.at = 2
    <3>1. call.ok /\ 1 \in 1 .. call.at - 1 /\ Latest(1)
      BY <1>1, <1>2, <2>2 DEF NotRefused, Latest, s
    <3>2. nvs[s[1].key] = s[1].value
      BY <3>1 DEF Written, s
    <3>3. w.key = "token"
      BY <1>1, <1>2, <2>2
    <3> QED  BY <1>2, <3>2, <3>3 DEF Wrote, Keys
  <2>3. call.at = 1 \/ call.at = 2
    BY <1>1, <1>2
  <2> QED  BY <2>1, <2>2, <2>3
<1> QED  BY <1>3, <1>4, ElsewhereWritten DEF TokenWhole

(* What the other calls write. *)
LEMMA OtherWrites ==
  ASSUME Base, Busy, NEW w, Wrote(w), call.op \notin {"load", "saveWifi"}
  PROVE  /\ w.key \notin {"wifi_valid", "ssid", "password"}
         /\ call.op \in {"saveDisplay", "saveHost"} => w.key \notin {"paired", "token"}
<1> DEFINE s == call.script
           n == call.argument
<1>1. w = s[call.at] /\ call.at \in 1 .. Len(s)
  BY DEF Wrote
<1>2. CASE call.op = "saveToken"
  <2>1. s = SaveToken(n)
    BY <1>2 DEF Base, CallOK, Known
  <2> HIDE DEF s, n
  <2>2. Len(s) = 4 /\ SchemaAt(s, 1) /\ TokenFrom(s, 2, n)
    BY <2>1, SaveTokenIs
  <2>3. s[1].key = "schema"
    BY <2>2 DEF SchemaAt
  <2>4. s[2].key = "paired" /\ s[3].key = "token" /\ s[4].key = "paired"
    BY <2>2 DEF TokenFrom
  <2> QED  BY <1>1, <1>2, <2>2, <2>3, <2>4
<1>3. CASE call.op = "clearToken"
  <2>1. s = ClearToken
    BY <1>3 DEF Base, CallOK, Known
  <2> HIDE DEF s
  <2>2. Len(s) = 2 /\ s[1].key = "paired" /\ s[2].key = "token"
    BY <2>1, ClearTokenIs
  <2> QED  BY <1>1, <1>3, <2>2
<1>4. CASE call.op = "saveDisplay"
  <2>1. s = SaveDisplay(n)
    BY <1>4 DEF Base, CallOK, Known
  <2> HIDE DEF s, n
  <2>2. /\ Len(s) = 4 /\ s[1].key = "schema" /\ s[2].key = "brightness"
        /\ s[3].key = "screen" /\ s[4].key = "volume_step"
    BY <2>1, SaveDisplayIs DEF SchemaAt
  <2> QED  BY <1>1, <1>4, <2>2
<1>5. CASE call.op = "saveHost"
  <2>1. s = SaveHostOverride(n)
    BY <1>5 DEF Base, CallOK, Known
  <2> HIDE DEF s, n
  <2>2. Len(s) = 3 /\ s[1].key = "schema" /\ s[2].key = "host" /\ s[3].key = "port"
    BY <2>1, SaveHostIs DEF SchemaAt
  <2> QED  BY <1>1, <1>5, <2>2
<1> QED  BY <1>2, <1>3, <1>4, <1>5 DEF Base, CallOK, Known

LEMMA CredentialsStep ==
  ASSUME Base, Written, NotRefused, CredentialsWhole, Busy, UNCHANGED failing,
         NEW w, Wrote(w), Went(w)
  PROVE  CredentialsWhole'
<1> SUFFICES ASSUME ~failing
             PROVE  WifiWhole' /\ TokenWhole'
  BY DEF CredentialsWhole
<1>1. WifiWhole /\ TokenWhole
  BY DEF CredentialsWhole
<1>2. CASE call.op = "load"
  BY <1>1, <1>2, MigrationWritten
<1>3. CASE call.op \in {"saveWifi", "saveToken"}
  BY <1>1, <1>3, SaveWritten
<1>4. CASE call.op = "clearToken"
  BY <1>1, <1>4, ClearWritten
<1>5. CASE call.op \in {"saveDisplay", "saveHost"}
  <2>1. w.key \notin {"wifi_valid", "ssid", "password", "paired", "token"}
    BY <1>5, OtherWrites
  <2> QED  BY <1>1, <2>1, ElsewhereWritten
<1> QED  BY <1>2, <1>3, <1>4, <1>5 DEF Base, CallOK, Known

(* A device that has a network has a schema, or is to migrate it still.      *)
LEMMA SchemaStep ==
  ASSUME Base, Written, NotRefused, Migrates, SchemaIsThere, Busy, UNCHANGED failing,
         NEW w, Wrote(w), Went(w)
  PROVE  SchemaIsThere'
<1> SUFFICES ASSUME ~failing, nvs'["wifi_valid"] = TRUE, nvs'["schema"] = Absent
             PROVE  nvs'["wifi_ssid"] # Absent \/ nvs'["host_token"] # Absent
  BY DEF SchemaIsThere
<1>1. nvs'["wifi_ssid"] = nvs["wifi_ssid"] /\ nvs'["host_token"] = nvs["host_token"]
  BY DEF Wrote, Fits, Keys, LegacyKeys
<1>2. nvs["schema"] = Absent
  <2>1. CASE w.key = "schema"
    <3>1. w.value = Schema /\ Schema # Absent
      BY <2>1 DEF Wrote, Fits
    <3> QED  BY <2>1, <3>1 DEF Went
  <2>2. CASE w.key # "schema"
    BY <2>2 DEF Wrote, Keys
  <2> QED  BY <2>1, <2>2
<1>3. CASE call.op = "load"
  <2>1. call.script = MigrateLegacy /\ LegacyStands
    BY <1>3 DEF Base, CallOK, Known, Wrote
  <2> QED  BY <1>1, <1>3, <2>1, MigrationSchema DEF Migrates
<1>4. CASE call.op = "saveWifi"
  <2>1. call.script = SaveWifi(call.argument)
    BY <1>4 DEF Base, CallOK, Known
  <2> DEFINE s == call.script
  <2>2. Len(s) = 5 /\ s[1].key = "schema" /\ s[1].value = Schema
    BY <2>1, SaveWifiIs DEF SchemaAt
  <2>3. s[2].key # "schema" /\ s[3].key # "schema" /\ s[4].key # "schema"
    <3>1. NetworkFrom(s, 2, call.argument[1], call.argument[2])
      BY <2>1, SaveWifiIs
    <3> HIDE DEF s
    <3> QED  BY <3>1 DEF NetworkFrom
  <2>4. call.at \in 1 .. 5 /\ w = s[call.at]
    BY <2>2 DEF Wrote
  <2> HIDE DEF s
  <2>5. CASE call.at = 1
    <3>1. w.key = "schema" /\ w.value = Schema /\ Schema # Absent
      BY <2>2, <2>4, <2>5
    <3> QED  BY <3>1 DEF Went
  <2>6. CASE call.at # 1
    <3>1. 1 \in 1 .. call.at - 1 /\ Latest(1)
      BY <2>2, <2>3, <2>4, <2>6 DEF Latest, s
    <3>2. nvs["schema"] = Schema
      BY <1>4, <2>2, <3>1, StandsOnFlash DEF s
    <3> QED  BY <1>2, <3>2
  <2> QED  BY <2>5, <2>6
<1>5. CASE call.op \notin {"load", "saveWifi"}
  <2>1. w.key # "wifi_valid"
    BY <1>5, OtherWrites
  <2>2. nvs["wifi_valid"] = TRUE
    BY <2>1 DEF Wrote, Keys
  <2> QED  BY <1>1, <1>2, <2>2 DEF SchemaIsThere
<1> QED  BY <1>3, <1>4, <1>5

(* The steps that write nothing. *)
LEMMA StoreQuiet ==
  ASSUME Base, StoreInv, UNCHANGED failing, Taken \/ Freed \/ Kept \/ Reset
  PROVE  StoreInv'
<1> USE DEF StoreInv
<1>1. CASE nvs' = nvs
  <2>1. SchemaIsThere' /\ CredentialsWhole'
    BY <1>1 DEF SchemaIsThere, CredentialsWhole, WifiWhole, TokenWhole
  <2>2. CASE Freed
    BY <2>1, <2>2 DEF Freed, Written, NotRefused, Migrates
  <2>3. CASE Kept
    BY <2>1, <2>3 DEF Kept, Written, NotRefused, Migrates, Latest, Busy, NeedsMigration
  <2>4. CASE Taken
    <3>1. Written' /\ NotRefused'
      BY <2>4 DEF Taken, Written, NotRefused
    <3>2. ASSUME call'.op = "load"
          PROVE  Migrates'
      <4>1. call'.script = Load
        BY <2>4, <3>2 DEF Taken
      <4>2. nvs["schema"] \in {Schema, Schema + 1, Absent}
        BY DEF Base, BootTypeOK
      <4>3. CASE NeedsMigration
        <5>1. nvs["schema"] = Absent /\ (nvs["wifi_ssid"] # Absent \/ nvs["host_token"] # Absent)
          BY <4>2, <4>3 DEF NeedsMigration
        <5>2. call'.script # <<>>
          BY <4>1, <4>3, MigrationSchema DEF Load, Base
        <5> QED  BY <1>1, <5>1, <5>2 DEF Migrates
      <4>4. CASE ~NeedsMigration
        <5>1. call'.script = <<>>
          BY <4>1, <4>4 DEF Load
        <5>2. ~NeedsMigration'
          BY <1>1, <4>4 DEF NeedsMigration
        <5> QED  BY <5>1, <5>2 DEF Migrates
      <4> QED  BY <4>3, <4>4
    <3> QED  BY <2>1, <3>1, <3>2 DEF Migrates
  <2>5. CASE Reset
    BY <2>1, <2>5 DEF Reset, Written, NotRefused, Migrates
  <2> QED  BY <2>2, <2>3, <2>4, <2>5
<1>2. CASE Reset
  <2>1. nvs'["wifi_valid"] = Absent /\ nvs'["paired"] = Absent
    BY <1>2 DEF Reset, Blank, Keys
  <2>2. SchemaIsThere' /\ CredentialsWhole'
    BY <2>1 DEF SchemaIsThere, CredentialsWhole, WifiWhole, TokenWhole
  <2> QED  BY <1>2, <2>2 DEF Reset, Written, NotRefused, Migrates
<1> QED  BY <1>1, <1>2 DEF Taken, Freed, Kept

LEMMA StoreWriting ==
  ASSUME Base, StoreInv, StoreWrites, UNCHANGED failing
  PROVE  StoreInv'
<1>1. PICK w : Wrote(w) /\ Went(w)
  BY WriteEffect DEF StoreWrites
<1>2. Busy
  BY DEF StoreWrites, Write
<1> QED
  BY <1>1, <1>2, WrittenStep, NotRefusedStep, MigratesStep, SchemaStep, CredentialsStep DEF StoreInv

LEMMA StoreStep ==
  ASSUME Base, StoreInv, [BootNext]_bootVars
  PROVE  StoreInv'
<1>1. CASE BootNext /\ StoreWrites
  BY <1>1, StoreWriting DEF BootNext
<1>2. CASE BootNext /\ ~StoreWrites
  BY <1>2, StepGood, StoreQuiet DEF Good, BootNext
<1>3. CASE UNCHANGED bootVars
  BY <1>3, StoreQuiet DEF bootVars, Kept
<1> QED  BY <1>1, <1>2, <1>3

LEMMA InitStore == BootInit => StoreInv
<1> SUFFICES ASSUME BootInit PROVE StoreInv
  OBVIOUS
<1>1. nvs["wifi_valid"] = Absent /\ nvs["paired"] = Absent
  BY DEF BootInit, SettingsInit, Flashes, Legacy, Blank, Keys, LegacyKeys
<1>2. SchemaIsThere /\ CredentialsWhole
  BY <1>1 DEF SchemaIsThere, CredentialsWhole, WifiWhole, TokenWhole
<1>3. ~Busy
  BY DEF BootInit, SettingsInit, Busy
<1> QED  BY <1>2, <1>3 DEF StoreInv, Written, NotRefused, Migrates

----------------------------------------------------------------------------
(* The tasks and the flash.                                                *)

(* A load that is done has migrated. *)
LEMMA LoadedIsMigrated ==
  ASSUME Base, StoreInv, ~failing, Done, call.op = "load"
  PROVE  call.ok /\ ~NeedsMigration
<1>1. Busy /\ call.at > Len(call.script) /\ LegacyStands
  BY DEF Base, Done
<1>2. call.ok
  BY <1>1 DEF StoreInv, NotRefused
<1>3. CASE call.script = <<>>
  BY <1>1, <1>2, <1>3 DEF StoreInv, Migrates
<1>4. CASE call.script # <<>>
  <2> DEFINE s == call.script
             l == Len(s)
  <2>1. s = MigrateLegacy
    BY <1>1, <1>4 DEF Base, CallOK, Known
  <2>2. l \in Nat \ {0} /\ s[l].key = "schema" /\ s[l].value = Schema
    BY <1>1, <2>1, MigrationSchema DEF SchemaAt
  <2>3. call.at = l + 1
    BY <1>1, <2>2 DEF Base, CallOK
  <2>4. l \in 1 .. call.at - 1 /\ Latest(l)
    BY <2>2, <2>3 DEF Latest
  <2>5. nvs[s[l].key] = s[l].value
    BY <1>1, <2>4, StandsOnFlash DEF StoreInv
  <2>6. nvs["schema"] = Schema
    BY <2>2, <2>5
  <2>7. ~NeedsMigration
    <3>1. Schema # Absent /\ ~(Schema < Schema)
      OBVIOUS
    <3> QED  BY <2>6, <3>1 DEF NeedsMigration
  <2> QED  BY <1>2, <2>7
<1> QED  BY <1>3, <1>4

(* What a finished call of the application or of pairing has left. *)
LEMMA DisplayIsSaved ==
  ASSUME Base, StoreInv, Done, call.op = "saveDisplay", call.ok
  PROVE  nvs["brightness"] = call.argument
<1> DEFINE s == call.script
           n == call.argument
<1>1. Busy /\ s = SaveDisplay(n) /\ call.at > Len(s) /\ call.at \in 1 .. Len(s) + 1
  BY DEF Base, CallOK, Known, Done
<1>2. Len(s) = 4 /\ s[2].key = "brightness" /\ s[2].value = n /\ s[2].checked
  BY <1>1, SaveDisplayIs
<1>3. s[3].key = "screen" /\ s[4].key = "volume_step"
  BY <1>1, SaveDisplayIs
<1>4. call.at = 5
  BY <1>1, <1>2
<1>5. 2 \in 1 .. call.at - 1 /\ Latest(2)
  BY <1>2, <1>3, <1>4 DEF Latest
<1>6. nvs[s[2].key] = s[2].value
  BY <1>1, <1>2, <1>5 DEF StoreInv, Written
<1> QED  BY <1>2, <1>6

LEMMA TokenIsSaved ==
  ASSUME Base, StoreInv, ~failing, Done, call.op = "saveToken"
  PROVE  call.ok /\ nvs["paired"] = TRUE /\ nvs["token"] = call.argument
<1> DEFINE s == call.script
           n == call.argument
<1>1. Busy /\ s = SaveToken(n) /\ call.at > Len(s) /\ call.at \in 1 .. Len(s) + 1
  BY DEF Base, CallOK, Known, Done
<1>2. Len(s) = 4 /\ TokenFrom(s, 2, n)
  BY <1>1, SaveTokenIs
<1> HIDE DEF s, n
<1>3. s[3].key = "token" /\ s[3].value = n /\ s[4].key = "paired" /\ s[4].value = TRUE
  BY <1>2 DEF TokenFrom
<1>4. call.at = 5
  BY <1>1, <1>2
<1>5. 3 \in 1 .. call.at - 1 /\ Latest(3) /\ 4 \in 1 .. call.at - 1 /\ Latest(4)
  BY <1>3, <1>4 DEF Latest, s
<1>6. nvs[s[3].key] = s[3].value
  BY <1>1, <1>5, StandsOnFlash DEF StoreInv, s
<1>7. nvs[s[4].key] = s[4].value
  BY <1>1, <1>5, StandsOnFlash DEF StoreInv, s
<1>8. nvs["token"] = n
  BY <1>3, <1>6
<1>9. nvs["paired"] = TRUE
  BY <1>3, <1>7
<1>10. call.ok
  BY <1>1 DEF StoreInv, NotRefused
<1> QED  BY <1>8, <1>9, <1>10 DEF n

LEMMA TokenIsCleared ==
  ASSUME Base, StoreInv, ~failing, Done, call.op = "clearToken", call.ok
  PROVE  nvs["paired"] = FALSE
<1> DEFINE s == call.script
<1>1. Busy /\ s = ClearToken /\ call.at > Len(s) /\ call.at \in 1 .. Len(s) + 1
  BY DEF Base, CallOK, Known, Done
<1>2. Len(s) = 2 /\ s[1].key = "paired" /\ s[1].value = FALSE /\ s[2].key = "token"
  BY <1>1, ClearTokenIs
<1> HIDE DEF s
<1>3. call.at = 3
  BY <1>1, <1>2
<1>4. 1 \in 1 .. call.at - 1 /\ Latest(1)
  BY <1>2, <1>3 DEF Latest, s
<1>5. nvs[s[1].key] = s[1].value
  BY <1>1, <1>4 DEF StoreInv, Written, s
<1> QED  BY <1>2, <1>5

LEMMA ChosenKnown ==
  ASSUME Base  PROVE chosen \in Displays \cup {Absent}
BY DEF Base, BootTypeOK

LEMMA BrightnessWrites ==
  ASSUME Base, Busy, NEW w, Wrote(w), w.key = "brightness"
  PROVE  call.op = "saveDisplay"
<1> DEFINE s == call.script
           n == call.argument
<1>1. w = s[call.at] /\ call.at \in 1 .. Len(s) /\ LegacyStands
  BY DEF Wrote, Base
<1>2. CASE call.op = "load"
  <2>1. s = MigrateLegacy
    BY <1>1, <1>2 DEF Base, CallOK, Known
  <2> HIDE DEF s
  <2>2. call.at = Len(s) \/ call.at \in 1 .. Len(s) - 1
    BY <1>1, <2>1, MigrationSchema
  <2> QED  BY <1>1, <2>1, <2>2, MigrationSchema DEF SchemaAt
<1>3. CASE call.op = "saveWifi"
  <2>1. s = SaveWifi(n)
    BY <1>3 DEF Base, CallOK, Known
  <2> HIDE DEF s, n
  <2>2. Len(s) = 5 /\ SchemaAt(s, 1) /\ NetworkFrom(s, 2, n[1], n[2])
    BY <2>1, SaveWifiIs
  <2>3. s[1].key = "schema"
    BY <2>2 DEF SchemaAt
  <2>4. s[2].key = "wifi_valid" /\ s[3].key = "ssid" /\ s[4].key = "password" /\ s[5].key = "wifi_valid"
    BY <2>2 DEF NetworkFrom
  <2> QED  BY <1>1, <2>2, <2>3, <2>4
<1>4. CASE call.op = "saveToken"
  <2>1. s = SaveToken(n)
    BY <1>4 DEF Base, CallOK, Known
  <2> HIDE DEF s, n
  <2>2. Len(s) = 4 /\ SchemaAt(s, 1) /\ TokenFrom(s, 2, n)
    BY <2>1, SaveTokenIs
  <2>3. s[1].key = "schema"
    BY <2>2 DEF SchemaAt
  <2>4. s[2].key = "paired" /\ s[3].key = "token" /\ s[4].key = "paired"
    BY <2>2 DEF TokenFrom
  <2> QED  BY <1>1, <2>2, <2>3, <2>4
<1>5. CASE call.op = "clearToken"
  <2>1. s = ClearToken
    BY <1>5 DEF Base, CallOK, Known
  <2> HIDE DEF s
  <2> QED  BY <1>1, <2>1, ClearTokenIs
<1>6. CASE call.op = "saveHost"
  <2>1. s = SaveHostOverride(n)
    BY <1>6 DEF Base, CallOK, Known
  <2> HIDE DEF s, n
  <2>2. Len(s) = 3 /\ s[1].key = "schema" /\ s[2].key = "host" /\ s[3].key = "port"
    BY <2>1, SaveHostIs DEF SchemaAt
  <2> QED  BY <1>1, <2>2
<1> QED  BY <1>2, <1>3, <1>4, <1>5, <1>6 DEF Base, CallOK, Known

LEMMA ChosenStep ==
  ASSUME Base, StoreInv, ChosenIsKept, [BootNext]_bootVars
  PROVE  ChosenIsKept'
<1> USE DEF ChosenIsKept
<1>1. CASE PowerOn
  BY <1>1 DEF PowerOn
<1>2. CASE Begin
  <2>1. ~Busy' /\ nvs' = nvs
    BY <1>2, ReturnFrees DEF Begin, Freed
  <2>2. chosen' # Absent => chosen' = nvs["brightness"]
    BY <1>2 DEF Begin
  <2> QED  BY <2>1, <2>2
<1>3. CASE PersistSettings
  <2>1. Known("saveDisplay", chosen, SaveDisplay(chosen))
    BY ChosenKnown, <1>3 DEF Known
  <2>2. Taken /\ call'.op = "saveDisplay" /\ call'.argument = chosen
    BY <1>3, <2>1, StartTakes DEF PersistSettings, Callers
  <2> QED  BY <1>3, <2>2 DEF PersistSettings, tasks
<1>4. CASE SettingsPersisted
  <2>1. ~Busy' /\ nvs' = nvs /\ dirty' = ~call.ok /\ UNCHANGED <<app, chosen>>
    BY <1>4, ReturnFrees DEF SettingsPersisted, Freed
  <2>2. Busy /\ Done /\ call.op = "saveDisplay"
    BY <1>4 DEF SettingsPersisted, Returns, Done
  <2>3. app = "loop" /\ chosen # Absent => call.argument = chosen
    BY <2>2
  <2>4. call.ok => nvs["brightness"] = call.argument
    BY <2>2, DisplayIsSaved
  <2> QED  BY <2>1, <2>3, <2>4
<1>5. CASE PerformFactoryReset
  BY <1>5 DEF PerformFactoryReset, NotCleared, Busy
<1>6. CASE \E d \in Displays : AdjustSetting(d)
  <2>1. dirty' = TRUE /\ UNCHANGED <<nvs, call, app>> /\ AtLoop
    BY <1>6 DEF AdjustSetting
  <2>2. ~(Busy /\ call.op = "saveDisplay")
    BY <2>1 DEF AtLoop, Base, PlaceOK
  <2> QED  BY <2>1, <2>2 DEF Busy
<1>7. CASE StoreWrites
  <2>1. PICK w : Wrote(w) /\ Went(w)
    BY <1>7, WriteEffect DEF StoreWrites
  <2>2. Busy /\ UNCHANGED <<app, chosen, dirty>>
    BY <1>7 DEF StoreWrites, Write, tasks
  <2>3. call.op # "saveDisplay" => nvs'["brightness"] = nvs["brightness"]
    BY <2>1, <2>2, BrightnessWrites DEF Wrote, Keys
  <2> QED  BY <2>1, <2>2, <2>3 DEF Went
<1>8. CASE PowerLoss
  BY <1>8 DEF PowerLoss
<1>9. CASE NetworkGood
  <2>1. nvs' = nvs /\ UNCHANGED <<app, chosen, dirty>>
    BY <1>9 DEF NetworkGood, Taken, Freed, Kept
  <2>2. Busy' /\ call'.op = "saveDisplay" => Busy /\ call.op = "saveDisplay" /\ call' = call
    <3>1. CASE Taken /\ call'.by = "network"
      BY <1>9, <3>1 DEF NetworkGood, PlaceOK
    <3>2. CASE Freed
      BY <3>2 DEF Freed
    <3>3. CASE Kept
      BY <3>3 DEF Kept, Busy
    <3> QED  BY <1>9, <3>1, <3>2, <3>3 DEF NetworkGood
  <2> QED  BY <2>1, <2>2
<1>10. CASE UNCHANGED bootVars
  BY <1>10 DEF bootVars, tasks, Busy
<1> QED
  BY <1>1, <1>2, <1>3, <1>4, <1>5, <1>6, <1>7, <1>8, <1>9, <1>10, NetworkTaskGood
     DEF BootNext, System, User

LEMMA WorksStep ==
  ASSUME Base, StoreInv, WorksWithStored, Base', [BootNext]_bootVars
  PROVE  WorksWithStored'
<1> SUFFICES ASSUME ~failing, network' = "run", app' # "restarting"
             PROVE  /\ settings'.wifi = Wifi'
                    /\ ~(Busy' /\ call'.by = "network") => settings'.token = Token'
                    /\ Busy' /\ call'.op = "clearToken" =>
                         call'.ok /\ (call'.at <= 2 => nvs'["token"] # Absent)
  BY DEF WorksWithStored, BootNext, bootVars
<1> DEFINE Worked == /\ settings.wifi = Wifi
                     /\ ~(Busy /\ call.by = "network") => settings.token = Token
                     /\ Busy /\ call.op = "clearToken" =>
                          call.ok /\ (call.at <= 2 => nvs["token"] # Absent)
<1>1. network = "run" /\ app # "restarting" => Worked
  BY DEF WorksWithStored
<1>2. app' \notin {"off", "begin"}
  BY DEF Base, PlaceOK
<1>3. nvs' = nvs => Wifi' = Wifi /\ Token' = Token
  BY DEF Wifi, Token
<1> HIDE DEF Worked
<1>4. CASE PowerOn \/ Begin \/ PowerLoss
  BY <1>2, <1>4 DEF PowerOn, Begin, PowerLoss
<1>5. CASE PersistSettings
  <2>1. /\ nvs' = nvs /\ ~Busy /\ UNCHANGED <<network, app, settings>>
        /\ call'.by = "app" /\ call'.op = "saveDisplay"
    <3>1. Known("saveDisplay", chosen, SaveDisplay(chosen))
      BY ChosenKnown DEF Known
    <3> QED  BY <1>5, <3>1, StartTakes DEF PersistSettings, Callers, tasks, Taken
  <2> QED  BY <1>1, <1>3, <2>1 DEF Worked
<1>6. CASE SettingsPersisted
  <2>1. /\ nvs' = nvs /\ ~Busy' /\ UNCHANGED <<network, app, settings>>
        /\ call.by = "app"
    BY <1>6, ReturnFrees DEF SettingsPersisted, Freed, Returns
  <2> QED  BY <1>1, <1>3, <2>1 DEF Worked
<1>7. CASE PerformFactoryReset
  <2>1. UNCHANGED <<nvs, call, network, app, settings>>
    BY <1>7 DEF PerformFactoryReset, NotCleared
  <2> QED  BY <1>1, <1>3, <2>1 DEF Worked, Busy
<1>8. CASE \E d \in Displays : AdjustSetting(d)
  <2>1. UNCHANGED <<nvs, call, network, app, settings>>
    BY <1>8 DEF AdjustSetting
  <2> QED  BY <1>1, <1>3, <2>1 DEF Worked, Busy
<1>9. CASE StoreWrites
  <2>1. PICK w : Wrote(w) /\ Went(w)
    BY <1>9, WriteEffect DEF StoreWrites
  <2>2. Busy /\ UNCHANGED <<app, network, settings>>
    BY <1>9 DEF StoreWrites, Write, tasks
  <2>3. Worked
    BY <1>1, <2>2
  <2>4. \/ call.by = "app" /\ call.op = "saveDisplay"
        \/ call.by = "network" /\ call.op \in {"saveToken", "clearToken"}
    BY <2>2 DEF Base, PlaceOK
  <2>5. w.key \notin {"wifi_valid", "ssid", "password"}
        /\ (call.op = "saveDisplay" => w.key \notin {"paired", "token"})
    BY <2>1, <2>2, <2>4, OtherWrites
  <2>6. Wifi' = Wifi
    BY <2>1, <2>5 DEF Wifi, Wrote, Keys
  <2>7. call.op = "saveDisplay" => Token' = Token
    BY <2>1, <2>5 DEF Token, Wrote, Keys
  <2>8. CASE call.op = "clearToken"
    <3>1. /\ call.ok /\ (call.at <= 2 => nvs["token"] # Absent)
          /\ call.script = ClearToken /\ w = call.script[call.at] /\ call.at \in 1 .. Len(call.script)
      BY <2>1, <2>2, <2>3, <2>8 DEF Worked, Base, CallOK, Known, Wrote
    <3>2. call.at \in 1 .. 2 /\ nvs["token"] # Absent
      BY <3>1, ClearTokenIs
    <3>3. CASE call.at = 1
      <4>1. w.key = "paired" /\ w.value # Absent
        BY <3>1, <3>3, ClearTokenIs
      <4>2. call'.ok /\ nvs'["token"] = nvs["token"]
        BY <2>1, <3>1, <4>1 DEF Went, Wrote, Keys
      <4> QED  BY <2>1, <2>2, <2>3, <2>4, <2>6, <2>8, <3>2, <4>2 DEF Went, Worked
    <3>4. CASE call.at = 2
      <4>1. w.key = "token"
        BY <3>1, <3>4, ClearTokenIs
      <4>2. call'.at = call.at + 1 /\ call'.ok = call.ok
        BY <2>1, <3>2, <4>1 DEF Went
      <4>3. call'.ok /\ call'.at = 3
        BY <3>1, <3>4, <4>2
      <4> QED  BY <2>1, <2>2, <2>3, <2>4, <2>6, <2>8, <4>3 DEF Went, Worked
    <3> QED  BY <3>2, <3>3, <3>4
  <2>9. CASE call.op # "clearToken"
    BY <2>1, <2>2, <2>3, <2>4, <2>6, <2>7, <2>9 DEF Went, Worked
  <2> QED  BY <2>8, <2>9
<1>10. CASE NetworkLoads \/ InstallBootstrap
  BY <1>10 DEF NetworkLoads, InstallBootstrap, tasks
<1>11. CASE NetworkLoaded
  <2>1. Busy /\ Done /\ call.op = "load" /\ nvs' = nvs /\ ~Busy'
    BY <1>11, ReturnFrees DEF NetworkLoaded, Returns, Done, Freed
  <2>2. call.ok /\ ~NeedsMigration
    BY <2>1, LoadedIsMigrated
  <2>3. Wifi # Absent /\ LoadStatus \in {"Empty", "Ok"}
    BY <1>11, <2>2 DEF NetworkLoaded, AfterLoad, LoadStatus
  <2>4. nvs["wifi_valid"] = TRUE
    BY <2>3 DEF Wifi
  <2>5. nvs["schema"] # Absent
    BY <2>2, <2>4 DEF StoreInv, SchemaIsThere, NeedsMigration
  <2>6. LoadStatus = "Ok"
    BY <2>3, <2>5 DEF LoadStatus
  <2>7. settings' = Loaded
    BY <1>11, <2>2, <2>6 DEF NetworkLoaded
  <2> QED  BY <1>3, <2>1, <2>7 DEF Loaded
<1>12. CASE BootstrapInstalled
  BY <1>12 DEF BootstrapInstalled
<1>13. CASE (\E n \in Networks : HandleSave(n)) \/ (\E e \in Endpoints : WifiSaved(e)) \/ PortalStops
  BY <1>13 DEF HandleSave, WifiSaved, PortalStops, tasks
<1>14. CASE HostSaved
  BY <1>14 DEF HostSaved, Returns, Done, Base, PlaceOK
<1>15. CASE \E t \in Tokens : Pair(t)
  <2> PICK t \in Tokens : Pair(t)
    BY <1>15
  <2>1. /\ nvs' = nvs /\ ~Busy /\ Busy' /\ UNCHANGED <<network, app, settings>>
        /\ call'.by = "network" /\ call'.op = "saveToken"
    <3>1. Known("saveToken", t, SaveToken(t))
      BY DEF Known
    <3> QED  BY <3>1, StartTakes DEF Pair, Callers, tasks, Taken
  <2> QED  BY <1>1, <1>3, <2>1 DEF Worked
<1>16. CASE Paired
  <2>1. /\ nvs' = nvs /\ ~Busy' /\ UNCHANGED <<network, app>>
        /\ Busy /\ Done /\ call.op = "saveToken"
    BY <1>16, ReturnFrees DEF Paired, Freed, Returns, Done
  <2>2. call.ok /\ nvs["paired"] = TRUE /\ nvs["token"] = call.argument
    BY <2>1, TokenIsSaved
  <2>3. settings' = [settings EXCEPT !.token = call.argument]
    BY <1>16, <2>2 DEF Paired
  <2>4. settings'.wifi = settings.wifi /\ settings'.token = call.argument
    BY <2>3 DEF Base, PlaceOK
  <2>5. Token = call.argument
    BY <2>2 DEF Token
  <2> QED  BY <1>1, <1>3, <2>1, <2>4, <2>5 DEF Worked
<1>17. CASE Unpair
  <2>1. /\ nvs' = nvs /\ ~Busy /\ Busy' /\ UNCHANGED <<network, app, settings>>
        /\ call'.by = "network" /\ call'.op = "clearToken" /\ call'.ok = TRUE
        /\ settings.token # Absent
    <3>1. Known("clearToken", Absent, ClearToken)
      BY DEF Known
    <3> QED  BY <1>17, <3>1, StartTakes DEF Unpair, Callers, tasks, Taken
  <2>2. Worked
    BY <1>1, <2>1
  <2>3. nvs["token"] # Absent
    BY <2>1, <2>2 DEF Worked, Token
  <2> QED  BY <1>3, <2>1, <2>2, <2>3 DEF Worked
<1>18. CASE Unpaired
  <2>1. /\ nvs' = nvs /\ ~Busy' /\ UNCHANGED <<network, app>>
        /\ Busy /\ Done /\ call.op = "clearToken"
    BY <1>18, ReturnFrees DEF Unpaired, Freed, Returns, Done
  <2>2. Worked /\ call.ok
    BY <1>1, <2>1 DEF Worked
  <2>3. nvs["paired"] = FALSE
    BY <2>1, <2>2, TokenIsCleared
  <2>4. settings' = [settings EXCEPT !.token = Absent]
    BY <1>18, <2>2 DEF Unpaired
  <2>5. settings'.wifi = settings.wifi /\ settings'.token = Absent
    BY <2>4 DEF Base, PlaceOK
  <2>6. Token = Absent
    BY <2>3 DEF Token
  <2> QED  BY <1>3, <2>1, <2>2, <2>5, <2>6 DEF Worked
<1>19. CASE UNCHANGED bootVars
  <2>1. UNCHANGED <<nvs, call, network, app, settings>>
    BY <1>19 DEF bootVars, tasks
  <2> QED  BY <1>1, <1>3, <2>1 DEF Worked, Busy
<1> QED
  BY <1>4, <1>5, <1>6, <1>7, <1>8, <1>9, <1>10, <1>11, <1>12, <1>13, <1>14, <1>15, <1>16, <1>17,
     <1>18, <1>19 DEF BootNext, System, User

(* The schema of a migrated network. *)
LEMMA MigratedNetwork ==
  ASSUME Base, StoreInv, ~failing, Busy, call.op = "load", LegacyNetwork,
         NEW w, Wrote(w), w.key = "schema"
  PROVE  nvs["wifi_valid"] = TRUE
<1> DEFINE s == call.script
<1>1. s = MigrateLegacy /\ LegacyStands /\ w = s[call.at] /\ call.at \in 1 .. Len(s)
  BY DEF Base, CallOK, Known, Wrote
<1> HIDE DEF s
<1>2. call.at = Len(s)
  <2>1. call.at = Len(s) \/ call.at \in 1 .. Len(s) - 1
    BY <1>1, MigrationSchema
  <2> QED  BY <1>1, <2>1, MigrationSchema
<1>3. NetworkFrom(s, 1, nvs["wifi_ssid"], nvs["wifi_pass"])
  BY <1>1, MigrateBoth, MigrateNetwork
<1>4. s[4].key = "wifi_valid" /\ s[4].value = TRUE
  BY <1>3 DEF NetworkFrom
<1>5. 4 \in 1 .. call.at - 1 /\ Latest(4)
  <2>1. CASE LegacyToken
    <3>1. Len(s) = 8 /\ TokenFrom(s, 5, nvs["host_token"])
      BY <1>1, <2>1, MigrateBoth
    <3>2. s[5].key = "paired" /\ s[6].key = "token" /\ s[7].key = "paired"
      BY <3>1 DEF TokenFrom
    <3> QED  BY <1>2, <1>4, <3>1, <3>2 DEF Latest, s
  <2>2. CASE ~LegacyToken
    <3>1. Len(s) = 5
      BY <1>1, <2>2, MigrateNetwork
    <3> QED  BY <1>2, <3>1 DEF Latest, s
  <2> QED  BY <2>1, <2>2
<1>6. nvs[s[4].key] = s[4].value
  BY <1>5, StandsOnFlash DEF StoreInv, s
<1> QED  BY <1>4, <1>6

LEMMA KeptStep ==
  ASSUME Base, StoreInv, NetworkKept, Base', [BootNext]_bootVars
  PROVE  NetworkKept'
<1> SUFFICES ASSUME ~failing, ~build.force, LegacyNetwork'
             PROVE  /\ app' # "restarting"
                    /\ network' \in {"off", "start", "run"}
                    /\ nvs'["schema"] \in {Absent, Schema}
                    /\ nvs'["schema"] # Absent => nvs'["wifi_valid"] = TRUE
                    /\ app' = "loop" => nvs'["schema"] # Absent
  <2>1. UNCHANGED <<failing, build>>
    BY ApplicationGood, NetworkTaskGood
       DEF BootNext, bootVars, tasks, System, User, PowerOn, Begin, PersistSettings, SettingsPersisted,
           PerformFactoryReset, AdjustSetting, StoreWrites, PowerLoss, NetworkGood
  <2> QED  BY <2>1 DEF NetworkKept
<1> DEFINE Held == /\ app # "restarting"
                   /\ network \in {"off", "start", "run"}
                   /\ nvs["schema"] \in {Absent, Schema}
                   /\ nvs["schema"] # Absent => nvs["wifi_valid"] = TRUE
                   /\ app = "loop" => nvs["schema"] # Absent
<1>1. LegacyNetwork => Held
  BY DEF NetworkKept
<1>2. nvs' = nvs => LegacyNetwork /\ Held
  BY <1>1, LegacySame
<1> HIDE DEF Held
<1>3. CASE UNCHANGED <<nvs, app, network>>
  BY <1>2, <1>3 DEF Held
<1>4. CASE PowerOn
  <2>1. nvs' = nvs /\ UNCHANGED network /\ app' = "begin"
    BY <1>4 DEF PowerOn, Start
  <2> QED  BY <1>2, <2>1 DEF Held
<1>5. CASE Begin
  <2>1. nvs' = nvs /\ app' = "loop" /\ network' = "start" /\ Done /\ call.op = "load"
    BY <1>5 DEF Begin, Return, Returns
  <2>2. ~NeedsMigration
    BY <2>1, LoadedIsMigrated
  <2>3. nvs["schema"] # Absent
    BY <1>2, <2>1, <2>2 DEF NeedsMigration, LegacyNetwork
  <2> QED  BY <1>2, <2>1, <2>3 DEF Held
<1>6. CASE PersistSettings \/ SettingsPersisted \/ \E d \in Displays : AdjustSetting(d)
  BY <1>3, <1>6 DEF PersistSettings, SettingsPersisted, AdjustSetting, Start, Return, tasks
<1>7. CASE PerformFactoryReset
  <2>1. CASE NotCleared /\ UNCHANGED app
    BY <1>3, <1>7, <2>1 DEF PerformFactoryReset, NotCleared
  <2>2. CASE Cleared
    <3>1. nvs'["wifi_ssid"] = Absent
      BY <2>2 DEF Cleared, Blank, Keys, LegacyKeys
    <3> QED  BY <3>1 DEF LegacyNetwork
  <2> QED  BY <1>7, <2>1, <2>2 DEF PerformFactoryReset
<1>8. CASE StoreWrites
  <2>1. PICK w : Wrote(w) /\ Went(w)
    BY <1>8, WriteEffect DEF StoreWrites
  <2>2. Busy /\ UNCHANGED <<app, network>> /\ FlashOK
    BY <1>8, TypeParts DEF StoreWrites, Write, tasks, Base
  <2>3. \A k \in LegacyKeys : nvs'[k] = nvs[k]
    BY <2>1, <2>2, WriteFlash
  <2>4. LegacyNetwork /\ Held
    BY <1>1, <2>3, LegacySame
  <2>5. nvs'["schema"] = nvs["schema"] \/ (w.key = "schema" /\ nvs'["schema"] = Schema)
    BY <2>1 DEF Wrote, Fits, Keys
  <2>6. Schema # Absent
    OBVIOUS
  <2>7. call.op \in {"load", "saveDisplay", "saveToken", "clearToken"}
    BY <2>2, <2>4 DEF Base, PlaceOK, Held
  <2>8. ASSUME nvs'["schema"] # Absent
        PROVE  nvs'["wifi_valid"] = TRUE
    <3>1. CASE call.op = "load"
      <4>1. call.script = MigrateLegacy /\ LegacyStands /\ call.at \in 1 .. Len(call.script)
        BY <2>1, <2>2, <3>1 DEF Base, CallOK, Known, Wrote
      <4>2. nvs["schema"] = Absent
        BY <2>2, <3>1, <4>1, MigrationSchema DEF StoreInv, Migrates
      <4>3. w.key = "schema"
        BY <2>5, <2>8, <4>2
      <4>4. nvs["wifi_valid"] = TRUE
        BY <2>1, <2>2, <2>4, <3>1, <4>3, MigratedNetwork
      <4> QED  BY <2>1, <4>3, <4>4 DEF Wrote, Keys
    <3>2. CASE call.op # "load"
      <4>1. app = "loop"
        BY <2>2, <2>4, <2>7, <3>2 DEF Base, PlaceOK, TasksOK, BootTypeOK, Held
      <4>2. nvs["wifi_valid"] = TRUE
        BY <2>4, <4>1 DEF Held
      <4>3. w.key # "wifi_valid"
        BY <2>1, <2>2, <2>7, <3>2, OtherWrites
      <4> QED  BY <2>1, <4>2, <4>3 DEF Wrote, Keys
    <3> QED  BY <3>1, <3>2
  <2> QED  BY <2>2, <2>4, <2>5, <2>6, <2>8 DEF Held
<1>9. CASE NetworkLoaded
  <2>1. nvs' = nvs /\ UNCHANGED app /\ network' = AfterLoad /\ Done /\ call.op = "load"
        /\ network \in {"start", "again", "provisioned"}
    BY <1>9 DEF NetworkLoaded, Return, Returns, Base, PlaceOK, Done
  <2>2. Held /\ call.ok /\ network = "start" /\ app = "loop"
    BY <1>2, <2>1, LoadedIsMigrated DEF Held, Base, PlaceOK, BootTypeOK
  <2>3. nvs["schema"] = Schema /\ Schema # Absent /\ ~(Schema > Schema) /\ nvs["wifi_valid"] = TRUE
    BY <2>2 DEF Held
  <2>4. WifiWhole /\ TokenWhole
    BY DEF StoreInv, CredentialsWhole
  <2>5. <<nvs["ssid"], nvs["password"]>> \in Networks
    BY <2>3, <2>4 DEF WifiWhole
  <2>6. nvs["ssid"] # Absent /\ nvs["password"] # Absent
    BY <2>5
  <2>7. nvs["paired"] = TRUE => nvs["token"] # Absent
    BY <2>4 DEF TokenWhole
  <2>8. LoadStatus = "Ok"
    BY <2>3, <2>6, <2>7 DEF LoadStatus
  <2>9. Wifi # Absent
    BY <2>3, <2>5, <2>6 DEF Wifi
  <2>10. ~WantsBootstrap
    BY <2>8 DEF WantsBootstrap
  <2>11. AfterLoad = "run"
    BY <2>2, <2>8, <2>9, <2>10 DEF AfterLoad
  <2> QED  BY <2>1, <2>2, <2>11 DEF Held
<1>10. CASE NetworkLoads \/ InstallBootstrap \/ (\E n \in Networks : HandleSave(n))
            \/ (\E t \in Tokens : Pair(t)) \/ Unpair
  BY <1>3, <1>10 DEF NetworkLoads, InstallBootstrap, HandleSave, Pair, Unpair, Start, tasks
<1>11. CASE HostSaved \/ Paired \/ Unpaired \/ \E e \in Endpoints : WifiSaved(e)
  BY <1>3, <1>11 DEF HostSaved, Paired, Unpaired, WifiSaved, Return, tasks
<1>12. CASE BootstrapInstalled \/ PortalStops
  <2>1. nvs' = nvs /\ network \in {"bootstrap", "portal"}
    BY <1>12 DEF BootstrapInstalled, PortalStops, Return
  <2> QED  BY <1>2, <2>1 DEF Held
<1>13. CASE PowerLoss
  <2>1. nvs' = nvs /\ app' = "off" /\ network' = "off"
    BY <1>13 DEF PowerLoss, PowerGoes
  <2> QED  BY <1>2, <2>1 DEF Held
<1>14. CASE UNCHANGED bootVars
  BY <1>3, <1>14 DEF bootVars, tasks
<1> QED
  BY <1>4, <1>5, <1>6, <1>7, <1>8, <1>9, <1>10, <1>11, <1>12, <1>13, <1>14 DEF BootNext, System, User

LEMMA InitTasks == BootInit => WorksWithStored /\ ChosenIsKept /\ NetworkKept
<1> SUFFICES ASSUME BootInit PROVE WorksWithStored /\ ChosenIsKept /\ NetworkKept
  OBVIOUS
<1>1. app = "off" /\ network = "off"
  BY DEF BootInit
<1>2. LegacyNetwork => nvs["schema"] = Absent
  BY DEF BootInit, SettingsInit, Flashes, Legacy, Blank, Keys, LegacyKeys, LegacyNetwork
<1> QED  BY <1>1, <1>2 DEF WorksWithStored, ChosenIsKept, NetworkKept

----------------------------------------------------------------------------
(* The invariant, and what it says.                                        *)

LEMMA InitInv == BootInit => IInv
BY InitBase, InitStore, InitTasks DEF IInv

LEMMA NextInv == IInv /\ [BootNext]_bootVars => IInv'
<1> SUFFICES ASSUME IInv, [BootNext]_bootVars PROVE IInv'
  OBVIOUS
<1>1. Base'
  BY BaseStep DEF IInv
<1>2. StoreInv'
  BY StoreStep DEF IInv
<1>3. WorksWithStored' /\ ChosenIsKept' /\ NetworkKept'
  BY <1>1, WorksStep, ChosenStep, KeptStep DEF IInv
<1> QED  BY <1>1, <1>2, <1>3 DEF IInv

LEMMA Invariance == BootSpec => []IInv
BY InitInv, NextInv, PTL DEF BootSpec

(* Type correctness of the settings store and of the tasks that use it.     *)
THEOREM BootTypes == BootSpec => []BootTypeOK
<1>1. IInv => BootTypeOK
  BY DEF IInv, Base
<1> QED  BY <1>1, Invariance, PTL

(* A flash that refuses no write never holds the name of one network with    *)
(* the password of another as valid, nor a pairing without its token,        *)
(* wherever power went in saveWifi, saveToken, clearToken or the migration.  *)
THEOREM CredentialsAreWhole == BootSpec => []CommittedCredentialIsWhole
<1>1. IInv => CommittedCredentialIsWhole
  <2> SUFFICES ASSUME ~failing, WifiWhole, TokenWhole
               PROVE  Whole
    BY DEF IInv, StoreInv, CredentialsWhole, CommittedCredentialIsWhole
  <2>1. ASSUME Wifi # Absent  PROVE Wifi \in Networks
    <3>1. nvs["wifi_valid"] = TRUE
      BY <2>1 DEF Wifi
    <3>2. <<nvs["ssid"], nvs["password"]>> \in Networks
      BY <3>1 DEF WifiWhole
    <3>3. nvs["password"] # Absent
      BY <3>2
    <3> QED  BY <3>1, <3>2, <3>3 DEF Wifi
  <2> QED  BY <2>1 DEF Whole, TokenWhole
<1> QED  BY <1>1, Invariance, PTL

(* What the device works with is what it would find after a restart: no      *)
(* approval is lost and none comes back, and a display setting that is not   *)
(* in flash is still to be saved, even when the flash refuses writes.        *)
THEOREM RestartFindsSettings == BootSpec => []RestartKeepsSettings
<1>1. IInv => RestartKeepsSettings
  BY DEF IInv, Base, PlaceOK, WorksWithStored, ChosenIsKept, RestartKeepsSettings, Loaded
<1> QED  BY <1>1, Invariance, PTL

(* A device that has the old firmware's network neither asks for set-up nor  *)
(* finds its settings unreadable, wherever power goes in the migration.      *)
THEOREM UpgradeFindsNetwork == BootSpec => []UpgradeKeepsNetwork
<1>1. IInv => UpgradeKeepsNetwork
  BY DEF IInv, NetworkKept, UpgradeKeepsNetwork
<1> QED  BY <1>1, Invariance, PTL
=============================================================================
