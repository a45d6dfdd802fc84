----------------------------- MODULE DeviceBoot -----------------------------
(***************************************************************************)
(* Who uses the settings: the application task (application.cpp), the        *)
(* network task (NetworkManager::run) and the set-up page it serves          *)
(* (provisioning_portal.cpp), from power-on to power loss.                   *)
(***************************************************************************)
EXTENDS SettingsStore

CONSTANTS
    Builds         \* firmware: the built-in network, or Absent, and kForceBootstrapWifi

ASSUME BootAssumption ==
    Builds \subseteq [network : Networks \cup {Absent}, force : BOOLEAN]

VARIABLES
    build,         \* the firmware that runs
    app,           \* where the application task is
    network,       \* where the network task is
    settings,      \* the network task's DeviceSettings: network and token
    saved,         \* credentialsSaved_
    chosen,        \* the display settings as the user sees them
    dirty          \* settingsDirty_

tasks == <<build, app, network, settings, saved, chosen, dirty>>
bootVars == <<failing, nvs, call, tasks>>

NoSettings == [wifi |-> Absent, token |-> Absent]
Loaded == [wifi |-> Wifi, token |-> Token]

BootInit ==
    /\ SettingsInit
    /\ build \in Builds /\ app = "off" /\ network = "off"
    /\ settings = NoSettings /\ saved = FALSE
    /\ chosen = Absent /\ dirty = FALSE
-----------------------------------------------------------------------------
(* The application. *)
PowerOn ==
    /\ app = "off"
    /\ Start("app", "load", Absent, Load)
    /\ app' = "begin"
    /\ UNCHANGED <<build, network, settings, saved, chosen, dirty>>

(* begin() goes on whatever the status is; its last act starts the network   *)
(* task.  Unreadable settings leave the defaults.                            *)
Begin ==
    /\ Returns("app", "load") /\ Return
    /\ app' = "loop" /\ network' = "start"
    /\ chosen' = IF call.ok /\ LoadStatus = "Ok" THEN nvs["brightness"] ELSE Absent
    /\ UNCHANGED <<build, settings, saved, dirty>>

(* In its loop the application is not in a call of its own. *)
AtLoop == app = "loop" /\ (Busy => call.by # "app")

AdjustSetting(d) ==
    /\ AtLoop /\ d # chosen
    /\ chosen' = d /\ dirty' = TRUE
    /\ UNCHANGED <<nvs, call, build, app, network, settings, saved>>

PersistSettings ==
    /\ AtLoop /\ dirty
    /\ Start("app", "saveDisplay", chosen, SaveDisplay(chosen))
    /\ UNCHANGED tasks

SettingsPersisted ==
    /\ Returns("app", "saveDisplay") /\ Return
    /\ dirty' = ~call.ok
    /\ UNCHANGED <<build, app, network, settings, saved, chosen>>

(* Confirmed, or the chord held for five seconds. *)
PerformFactoryReset ==
    /\ AtLoop
    /\ \/ Cleared /\ app' = "restarting"
       \/ NotCleared /\ UNCHANGED app
    /\ UNCHANGED <<build, network, settings, saved, chosen, dirty>>
-----------------------------------------------------------------------------
(* The network task.  Between the 350 ms of a factory reset and the restart  *)
(* it goes on.                                                               *)
NetworkLoads ==
    /\ network \in {"start", "again", "provisioned"}
    /\ Start("network", "load", Absent, Load)
    /\ UNCHANGED tasks

(* The name of the stored network counts here whether it is valid or not.    *)
WantsBootstrap ==
    /\ build.network # Absent
    /\ \/ LoadStatus = "Empty"
       \/ build.force /\ nvs["ssid"] # build.network[1]

AfterLoad ==
    CASE ~call.ok \/ LoadStatus \in {"Unsupported", "Corrupt"} -> "halted"
      [] network = "start" /\ call.ok /\ LoadStatus \in {"Empty", "Ok"} /\ WantsBootstrap -> "bootstrap"
      [] network # "start" /\ LoadStatus = "Empty" -> "halted"
      [] network = "provisioned" /\ LoadStatus = "Ok" /\ Wifi = Absent -> "halted"
      [] OTHER -> IF Wifi = Absent THEN "portal" ELSE "run"

NetworkLoaded ==
    /\ Returns("network", "load") /\ Return
    /\ network' = AfterLoad
    /\ settings' = IF call.ok /\ LoadStatus = "Ok" THEN Loaded ELSE settings
    /\ UNCHANGED <<build, app, saved, chosen, dirty>>

InstallBootstrap ==
    /\ network = "bootstrap"
    /\ Start("network", "saveWifi", build.network, SaveWifi(build.network))
    /\ UNCHANGED tasks
BootstrapInstalled ==
    /\ network = "bootstrap" /\ Returns("network", "saveWifi") /\ Return
    /\ network' = IF call.ok THEN "again" ELSE "halted"
    /\ UNCHANGED <<build, app, settings, saved, chosen, dirty>>

(* The set-up page.  It stays up two seconds after a submission was saved,   *)
(* and takes another one in that time.                                       *)
HandleSave(n) ==
    /\ network = "portal"
    /\ Start("network", "saveWifi", n, SaveWifi(n))
    /\ UNCHANGED tasks
WifiSaved(e) ==
    /\ network = "portal" /\ Returns("network", "saveWifi")
    /\ IF call.ok
       THEN /\ call' = [by |-> "network", op |-> "saveHost", argument |-> e,
                        script |-> SaveHostOverride(e), at |-> 1, ok |-> TRUE]
            /\ UNCHANGED nvs
       ELSE Return
    /\ UNCHANGED tasks
HostSaved ==
    /\ Returns("network", "saveHost") /\ Return
    /\ saved' = (saved \/ call.ok)
    /\ UNCHANGED <<build, app, network, settings, chosen, dirty>>
PortalStops ==
    /\ network = "portal" /\ saved /\ (Busy => call.by # "network")
    /\ network' = "provisioned"
    /\ UNCHANGED <<build, nvs, call, app, settings, saved, chosen, dirty>>

(* pairDevice, when the host has issued a token. *)
Pair(t) ==
    /\ network = "run" /\ settings.token = Absent
    /\ Start("network", "saveToken", t, SaveToken(t))
    /\ UNCHANGED tasks
Paired ==
    /\ Returns("network", "saveToken") /\ Return
    /\ settings' = IF call.ok THEN [settings EXCEPT !.token = call.argument] ELSE settings
    /\ UNCHANGED <<build, app, network, saved, chosen, dirty>>

(* runWebSocket, when the host refuses the token. *)
Unpair ==
    /\ network = "run" /\ settings.token # Absent
    /\ Start("network", "clearToken", Absent, ClearToken)
    /\ UNCHANGED tasks
Unpaired ==
    /\ Returns("network", "clearToken") /\ Return
    /\ settings' = IF call.ok THEN [settings EXCEPT !.token = Absent] ELSE settings
    /\ UNCHANGED <<build, app, network, saved, chosen, dirty>>
-----------------------------------------------------------------------------
StoreWrites == Write /\ UNCHANGED tasks

(* Power is lost, or the restart that ends a factory reset. *)
PowerLoss ==
    /\ app # "off"
    /\ PowerGoes
    /\ app' = "off" /\ network' = "off" /\ UNCHANGED build
    /\ settings' = NoSettings /\ saved' = FALSE
    /\ chosen' = Absent /\ dirty' = FALSE

System ==
    \/ PowerOn \/ Begin \/ PersistSettings \/ SettingsPersisted
    \/ NetworkLoads \/ NetworkLoaded \/ InstallBootstrap \/ BootstrapInstalled
    \/ \E e \in Endpoints : WifiSaved(e)
    \/ HostSaved \/ PortalStops \/ Paired \/ Unpaired
    \/ StoreWrites

User ==
    \/ \E d \in Displays : AdjustSetting(d)
    \/ PerformFactoryReset
    \/ \E n \in Networks : HandleSave(n)
    \/ \E t \in Tokens : Pair(t)
    \/ Unpair

BootNext == (System \/ User \/ PowerLoss) /\ UNCHANGED failing

BootSpec == BootInit /\ [][BootNext]_bootVars

-----------------------------------------------------------------------------
Places == {"off", "start", "again", "bootstrap", "portal", "provisioned", "run", "halted"}
(* Type invariant. *)
BootTypeOK ==
    /\ DOMAIN nvs = Keys
    /\ nvs["schema"] \in {Schema, Schema + 1, Absent}
    /\ {nvs["wifi_valid"], nvs["paired"]} \subseteq {TRUE, FALSE, Absent}
    /\ nvs["ssid"] \in {n[1] : n \in Networks} \cup {Absent}
    /\ nvs["password"] \in {n[2] : n \in Networks} \cup {Absent}
    /\ nvs["token"] \in Tokens \cup {Absent}
    /\ nvs["host"] \in {e[1] : e \in Endpoints} \cup {Absent}
    /\ nvs["port"] \in {e[2] : e \in Endpoints} \cup {Absent}
    /\ {nvs["brightness"], nvs["screen"], nvs["volume_step"]} \subseteq Displays \cup {Absent}
    /\ build \in Builds /\ app \in {"off", "begin", "loop", "restarting"} /\ network \in Places
    /\ settings.wifi \in {Absent} \cup ({n[1] : n \in Networks} \X ({n[2] : n \in Networks} \cup {NoPassword}))
    /\ settings.token \in Tokens \cup {Absent}
    /\ saved \in BOOLEAN /\ dirty \in BOOLEAN
    /\ chosen \in Displays \cup {Absent}

(* What the device works with is what it finds after a restart, but for what *)
(* is just being saved: no approval is lost and none comes back             *)
(* (HARDWARE_SMOKE_TEST.md, "ESP32 reboot reconnects without another         *)
(* approval"), and a display setting that is not in flash is still to be     *)
(* saved, although writes fail, the user goes on adjusting and other calls   *)
(* hold the store (persistSettingsIfDue).                                    *)
RestartKeepsSettings ==
    /\ ~failing /\ network = "run" /\ app # "restarting" /\ (Busy => call.by # "network")
         => settings = Loaded
    /\ app = "loop" /\ chosen # Absent /\ ~dirty => nvs["brightness"] = chosen

(* An upgrade does not lose the network of the old firmware, wherever power  *)
(* goes in the migration: a device that has it neither asks for set-up nor   *)
(* finds its settings unreadable.  A built-in network that is forced on the  *)
(* device (kForceBootstrapWifi) is another matter: interrupted halfway, it   *)
(* ends on the set-up page.                                                  *)
UpgradeKeepsNetwork ==
    ~failing /\ ~build.force /\ LegacyNetwork /\ app # "restarting"
        => network \notin {"portal", "halted"}
=============================================================================
