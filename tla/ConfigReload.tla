---------------------------- MODULE ConfigReload ----------------------------
(***************************************************************************)
(* Which configuration a running API process uses: what ConfigManager      *)
(* (config/config_manager.py), FeatureFlagManager and                      *)
(* AlertTypeSettingsManager (src/config_ext) keep in memory, the routes    *)
(* that change files or memory, and the ConfigWatcher that polls the       *)
(* modification times of the files (src/config_ext/hot_reload.py).         *)
(*                                                                         *)
(* Files are also written by the dashboard, by scripts and by hand: any    *)
(* process, any time, any content.  Four kinds of file behave differently  *)
(* when they are read:                                                     *)
(*   client       read on first use and then cached; a bad one raises      *)
(*   Strict       default_config.yaml, models.yaml: a bad one raises       *)
(*   features     a bad one counts as the built-in flags                   *)
(*   alert_types  a bad one counts as no rules                             *)
(* A write changes a file's modification time.                             *)
(***************************************************************************)
EXTENDS Integers, FiniteSets

CONSTANTS
  Strict,      \* the files whose loading may raise
  ClientFile,  \* contents of a client's file that pass validation
  Setting,     \* contents of a strict file that pass validation
  Rules,       \* contents of alert_types.yaml that can be parsed
  NoRules,     \* alert types when there is no usable file
  BuiltIn,     \* the built-in value of the feature flag, "on" or "off"
  EnvFlag,     \* what the environment may say of it
  Bad,         \* content that does not parse or does not validate
  Absent,      \* no cached copy
  MaxMissed    \* bounds the files written while the process starts

Lenient == {"features", "alert_types"}
File == {"client"} \cup Strict \cup Lenient

(* The feature flag in a client's file, in the environment or in the global *)
(* file; only the first two may leave it out. *)
Switch == {"on", "off"}
Flag == Switch \cup {"unset"}

ClientView == [core : {c.core : c \in ClientFile}, flag : Flag]

Contents(f) ==
  {Bad} \cup (CASE f = "client" -> ClientFile
                [] f = "features" -> Switch
                [] f = "alert_types" -> Rules
                [] OTHER -> Setting)

(* What memory may hold of a file. *)
Loadable(f) ==
  CASE f = "client" -> ClientView \cup {Absent}
    [] f = "features" -> Switch
    [] f = "alert_types" -> Rules \cup {NoRules}
    [] OTHER -> Setting

ASSUME FileAssumption == Strict \cap ({"client"} \cup Lenient) = {}

ASSUME ContentAssumption ==
  /\ \A c \in ClientFile : DOMAIN c = {"core", "flag"} /\ c.flag \in Flag
  /\ Bad \notin ClientFile /\ Bad \notin Switch /\ Bad \notin Rules /\ Bad \notin Setting
  /\ Absent \notin ClientView
  /\ BuiltIn \in Switch /\ EnvFlag \subseteq Flag

VARIABLES
  disk,     \* the content of each file
  mem,      \* what the process has of each file
  dirty,    \* the files whose modification time is not the one the watcher noted
  phase,    \* "down", "starting" (loaded, not yet watching), or "up"
  env,      \* ALERTTRIAGE_FEATURE_<FLAG>
  missed    \* files that were written while starting (not program state)

vars == <<disk, mem, dirty, phase, env, missed>>

TypeOK ==
  /\ \A f \in File : disk[f] \in Contents(f) /\ mem[f] \in Loadable(f)
  /\ DOMAIN disk = File /\ DOMAIN mem = File
  /\ dirty \subseteq File
  /\ phase \in {"down", "starting", "up"}
  /\ env \in EnvFlag
  /\ missed \subseteq File

----------------------------------------------------------------------------
(* A variation: the schema keeps the sections it does not know. *)
ValidatedKeepingSections(c) == c

(* What ClientConfig keeps of a client's file: its fields, and no other       *)
(* section.  features is another section. *)
Validated(c) == [core |-> c.core, flag |-> "unset"]

(* A variation: an unusable file is taken as it is. *)
LoadedFlagsUnchecked == disk["features"]

(* _load_global of the feature flags: the file over the built-in flags. *)
LoadedFlags == IF disk["features"] = Bad THEN BuiltIn ELSE disk["features"]

(* _load of the alert types. *)
LoadedRules == IF disk["alert_types"] = Bad THEN NoRules ELSE disk["alert_types"]

(* _client_features: an error counts as no override. *)
ClientFlag ==
  IF mem["client"] # Absent THEN mem["client"].flag
  ELSE IF disk["client"] # Bad THEN Validated(disk["client"]).flag
  ELSE "unset"

(* FeatureFlagManager.is_enabled: global, then environment, then client. *)
IsEnabled ==
  IF ClientFlag # "unset" THEN ClientFlag
  ELSE IF env # "unset" THEN env
  ELSE mem["features"]

(* FeatureFlagManager.get, and with it the flags that the API lists: global, *)
(* then client, then environment. *)
GetFlag ==
  IF env # "unset" THEN env
  ELSE IF ClientFlag # "unset" THEN ClientFlag
  ELSE mem["features"]

(* _on_config_change reads both lenient files again. *)
WithLenient(m) ==
  [m EXCEPT !["features"] = LoadedFlags, !["alert_types"] = LoadedRules]

----------------------------------------------------------------------------
(* A process of this system writes f: the watcher, if there is one, sees a    *)
(* modification time that it does not know. *)
Write(f, v) ==
  /\ disk' = [disk EXCEPT ![f] = v]
  /\ dirty' = IF phase = "up" THEN dirty \cup {f} ELSE dirty
  /\ missed' = IF phase = "starting" THEN missed \cup {f} ELSE missed

(* The dashboard, a script or somebody's editor. *)
Edit(f, v) ==
  /\ v \in Contents(f) \ {disk[f]}
  /\ phase = "starting" => Cardinality(missed \cup {f}) <= MaxMissed
  /\ Write(f, v)
  /\ UNCHANGED <<mem, phase, env>>

GetClient ==
  /\ phase = "up"
  /\ mem["client"] = Absent
  /\ disk["client"] # Bad
  /\ mem' = [mem EXCEPT !["client"] = Validated(disk["client"])]
  /\ UNCHANGED <<disk, dirty, phase, env, missed>>

(* PUT /config/{client_id}, PUT /config/features/{client_id} and PUT          *)
(* /config/alert-types/{rule}: only the first drops the cached copy. *)
UpdateClient(c) ==
  /\ phase = "up"
  /\ Write("client", c)
  /\ mem' = [mem EXCEPT !["client"] = Absent]
  /\ UNCHANGED <<phase, env>>

UpdateClientFlags(flag) ==
  /\ phase = "up"
  /\ disk["client"] # Bad
  /\ [disk["client"] EXCEPT !.flag = flag] \in ClientFile
  /\ Write("client", [disk["client"] EXCEPT !.flag = flag])
  /\ UNCHANGED <<mem, phase, env>>

UpdateRule(r) ==
  /\ phase = "up"
  /\ disk["alert_types"] # Bad
  /\ Write("alert_types", r)
  /\ mem' = [mem EXCEPT !["alert_types"] = r]
  /\ UNCHANGED <<phase, env>>

(* POST /config/reload. *)
TriggerReload ==
  /\ phase = "up"
  /\ mem' = WithLenient([mem EXCEPT !["client"] = Absent])
  /\ missed' = missed \ ({"client"} \cup Lenient)
  /\ UNCHANGED <<disk, dirty, phase, env>>

(* A variation: a file that is not a client's is left for later. *)
PollClientsOnly(f) ==
  /\ phase = "up"
  /\ f \in dirty
  /\ f = "client"
  /\ dirty' = dirty \ {f}
  /\ mem' = WithLenient([mem EXCEPT !["client"] = Absent])
  /\ missed' = missed \ ({"client"} \cup Lenient)
  /\ UNCHANGED <<disk, phase, env>>

(* A variation: a client's file does not drop the cached copy. *)
PollKeepingCache(f) ==
  /\ phase = "up"
  /\ f \in dirty
  /\ dirty' = dirty \ {f}
  /\ mem' = WithLenient(IF f \in Strict /\ disk[f] # Bad
                          THEN [mem EXCEPT ![f] = disk[f]] ELSE mem)
  /\ missed' = missed \ ({f} \cup Lenient)
  /\ UNCHANGED <<disk, phase, env>>

(* _check_changes finds that f changed.  The new modification time is noted   *)
(* first; then f is loaded, and unless that raises the callback loads both     *)
(* lenient files.  A strict file that does not load leaves memory as it was. *)
Poll(f) ==
  /\ phase = "up"
  /\ f \in dirty
  /\ dirty' = dirty \ {f}
  /\ \/ /\ f \in Strict /\ disk[f] = Bad
        /\ UNCHANGED <<mem, missed>>
     \/ /\ f \in Strict /\ disk[f] # Bad
        /\ mem' = WithLenient([mem EXCEPT ![f] = disk[f]])
        /\ missed' = missed \ ({f} \cup Lenient)
     \/ /\ f = "client"
        /\ mem' = WithLenient([mem EXCEPT ![f] = Absent])
        /\ missed' = missed \ ({f} \cup Lenient)
     \/ /\ f \in Lenient
        /\ mem' = WithLenient(mem)
        /\ missed' = missed \ Lenient
  /\ UNCHANGED <<disk, phase, env>>

(* The process loads every file that it keeps.  It does not start when a      *)
(* strict file is bad. *)
Start ==
  /\ phase = "down"
  /\ \A f \in Strict : disk[f] # Bad
  /\ mem' = WithLenient([f \in File |-> IF f = "client" THEN Absent ELSE disk[f]])
  /\ phase' = "starting"
  /\ UNCHANGED <<disk, dirty, env, missed>>

(* The watcher's task notes the modification times that the files have now. *)
Watch ==
  /\ phase = "starting"
  /\ phase' = "up"
  /\ dirty' = {}
  /\ UNCHANGED <<disk, mem, env, missed>>

Stop ==
  /\ phase \in {"starting", "up"}
  /\ phase' = "down"
  /\ dirty' = {} /\ missed' = {}
  /\ UNCHANGED <<disk, mem, env>>

----------------------------------------------------------------------------
Init ==
  /\ \E c \in ClientFile, s \in Switch, r \in Rules, strict \in [Strict -> Setting] :
       disk = [f \in File |-> CASE f = "client" -> c
                                [] f = "features" -> s
                                [] f = "alert_types" -> r
                                [] OTHER -> strict[f]]
  /\ mem = WithLenient([f \in File |-> IF f = "client" THEN Absent ELSE disk[f]])
  /\ dirty = {} /\ missed = {}
  /\ phase = "starting"
  /\ env \in EnvFlag

Next ==
  \/ \E f \in File : \E v \in Contents(f) : Edit(f, v)
  \/ GetClient
  \/ \E c \in ClientFile : UpdateClient(c)
  \/ \E flag \in Switch : UpdateClientFlags(flag)
  \/ \E r \in Rules : UpdateRule(r)
  \/ TriggerReload
  \/ \E f \in File : Poll(f)
  \/ Start \/ Watch \/ Stop

(* The polling loop catches what loading raises, so it goes on as long as the *)
(* process runs. *)
Fairness == \A f \in File : WF_vars(Poll(f))

Spec == Init /\ [][Next]_vars /\ Fairness

----------------------------------------------------------------------------
(* Memory agrees with f: a copy of a good file, no copy of a bad client file, *)
(* the fallback of a bad lenient one; of a bad strict one, whatever came last. *)
InSync(f) ==
  CASE f = "client" ->
         mem[f] = Absent \/ (disk[f] # Bad /\ mem[f] = Validated(disk[f]))
    [] f = "features" -> mem[f] = LoadedFlags
    [] f = "alert_types" -> mem[f] = LoadedRules
    [] OTHER -> disk[f] = Bad \/ mem[f] = disk[f]

(* Whatever a running process has that its files no longer say is going to be *)
(* noticed by the watcher, whoever wrote the file and whichever route cached  *)
(* or changed the copy; except for a file that was written after it was loaded *)
(* and before the watcher first looked, which nobody notices. *)
StaleIsNoticed ==
  phase = "up" => \A f \in File : f \in dirty \/ f \in missed \/ InSync(f)

(* A file that is left alone is what memory has of it in the end, in a process *)
(* that stays up, with the same exception.  Of models.yaml this is the copy of *)
(* the ConfigManager: ModelRouter built its backends from the one there was at *)
(* the start and keeps them (hot_reload.py:115-157, analyzer.py:60). *)
Converges ==
  \A f \in File : \A v \in Contents(f) :
    <>[](phase = "up" /\ disk[f] = v /\ f \notin missed) => <>[]InSync(f)

(* is_enabled and get rank a client's override and the environment in opposite *)
(* orders, and never differ: no override survives the schema, against "3.      *)
(* Per-client features.<flag>.enabled in client config" (feature_flags.py:70). *)
FlagAnswersAgree == phase = "up" => IsEnabled = GetFlag

=============================================================================
