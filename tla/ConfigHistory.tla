---------------------------- MODULE ConfigHistory ----------------------------
(***************************************************************************)
(* The history of one client's configuration: the live YAML file, the      *)
(* snapshots and their index (src/config_ext/versioning.py), the routes    *)
(* that change them (src/api/routers/config_api.py) and the cached copy    *)
(* that ConfigManager.get_client serves (config/config_manager.py).        *)
(*                                                                         *)
(* The API process has one event loop and its handlers here never await,   *)
(* so they run one after the other; but each makes several file writes,    *)
(* none of them atomic, and the process may end at any of them.  The       *)
(* dashboard is another process and writes the live file at any time.      *)
(*                                                                         *)
(* A configuration is a member of a small set.  What get_client keeps of   *)
(* one is View: the fields of the ClientConfig schema, without the other   *)
(* sections (features, alert_types) a file may have.  A version id is the  *)
(* pair of a number and the second it was made in.                         *)
(***************************************************************************)
EXTENDS Integers, Sequences, FiniteSets

CONSTANTS
  Config,       \* contents of a configuration file
  Valid,        \* those that ClientConfig accepts
  View,         \* what get_client makes of a content
  Stub,         \* what get_client serves when there is no file
  Torn,         \* a file whose writing was cut short
  Absent,       \* no file, nothing cached, no snapshot
  Idle,         \* no handler is running
  MaxVersions,  \* _MAX_VERSIONS
  LastSecond,   \* bounds the clock
  MaxCrashes    \* bounds the crashes

ASSUME ConfigAssumption ==
  /\ Valid \subseteq Config /\ Stub \in Valid
  /\ View \in [Config -> Config]
  /\ \A c \in Config : View[View[c]] = View[c]
  /\ \A c \in Valid : View[c] \in Valid
  /\ Torn \notin Config /\ Absent \notin Config /\ Torn # Absent

ASSUME HistoryAssumption ==
  MaxVersions \in Nat \ {0} /\ LastSecond \in Nat /\ MaxCrashes \in Nat

Content == Config \cup {Torn}
VersionId == (1..MaxVersions + 1) \X (0..LastSecond)
Entry == [id : VersionId, current : BOOLEAN, saved : Content]
Handler == [kind : {"update", "snapshot", "rollback"},
            step : {"file", "prune", "index", "live", "mark"},
            id : VersionId, old : Content \cup {Absent}, new : Content]

ASSUME IdleAssumption == Idle \notin Handler

VARIABLES
  live,      \* config/client_configs/<client>.yaml
  cache,     \* ConfigManager._client_cache[client]
  index,     \* VERSIONS.json, oldest first (saved is not program state)
  files,     \* the snapshot files
  handler,   \* the handler that is running, and its next write
  now,       \* the clock, in seconds
  crashes,   \* how often the process ended inside a handler
  edited,    \* whether the dashboard wrote since the handler began (not program state)
  reused,    \* whether the id of a listed version was given out again (not program state)
  gap        \* whether the oldest version lost its file in a crash (not program state)

vars == <<live, cache, index, files, handler, now, crashes, edited, reused, gap>>

TypeOK ==
  /\ live \in Content \cup {Absent}
  /\ cache \in Valid \cup {Absent}
  /\ index \in Seq(Entry) /\ Len(index) <= MaxVersions
  /\ files \in [VersionId -> Content \cup {Absent}]
  /\ handler \in Handler \cup {Idle}
  /\ now \in 0..LastSecond
  /\ crashes \in 0..MaxCrashes
  /\ edited \in BOOLEAN /\ reused \in BOOLEAN /\ gap \in BOOLEAN

Listed == {index[i].id : i \in DOMAIN index}

(* A variation: a new version is numbered from one. *)
FirstId == <<1, now>>

(* The id of the next version: the length of the index, which never exceeds  *)
(* MaxVersions, and the second. *)
NextId == <<Len(index) + 1, now>>

At(kind, step) == handler # Idle /\ handler.kind = kind /\ handler.step = step
Goto(step) == handler' = [handler EXCEPT !.step = step]

----------------------------------------------------------------------------
(* What get_client may answer.  It raises for a file that it cannot parse or *)
(* that the schema refuses. *)
Served ==
  IF cache # Absent THEN {cache}
  ELSE IF live = Absent THEN {Stub}
  ELSE IF live \in Valid THEN {View[live]}
  ELSE {}

GetClient ==
  /\ handler = Idle
  /\ \E c \in Served : cache' = c
  /\ UNCHANGED <<live, index, files, handler, now, crashes, edited, reused, gap>>

(* The start of any handler: config is what it is going to save or restore.  *)
Begin(kind, step, id, old, new) ==
  /\ handler = Idle
  /\ handler' = [kind |-> kind, step |-> step, id |-> id, old |-> old, new |-> new]
  /\ edited' = FALSE
  /\ UNCHANGED <<live, index, files, now, crashes, reused, gap>>

(* A variation: the new configuration is what gets saved. *)
StartUpdateSavingNew(c) ==
  /\ c \in Valid
  /\ Begin("update", IF live = Absent THEN "live" ELSE "file", NextId, c, c)
  /\ UNCHANGED cache

(* PUT /config/{client_id} with a payload that the schema accepts. *)
StartUpdate(c) ==
  /\ c \in Valid
  /\ Begin("update", IF live = Absent THEN "live" ELSE "file", NextId, live, c)
  /\ UNCHANGED cache

(* POST /config/{client_id}/snapshot saves what get_client answers. *)
StartSnapshot ==
  \E c \in Served :
    /\ cache' = c
    /\ Begin("snapshot", "file", NextId, c, c)

(* POST /config/{client_id}/rollback/{version_id} of a version that is there. *)
StartRollback(id) ==
  /\ id \in Listed
  /\ files[id] # Absent
  /\ Begin("rollback", "live", id, live, files[id])
  /\ UNCHANGED cache

(* snapshot() writes the snapshot's file. *)
WriteSnapshot ==
  /\ At("update", "file") \/ At("snapshot", "file")
  /\ files' = [files EXCEPT ![handler.id] = handler.old]
  /\ reused' = (reused \/ handler.id \in Listed)
  /\ Goto(IF Len(index) >= MaxVersions THEN "prune" ELSE "index")
  /\ UNCHANGED <<live, cache, index, now, crashes, edited, gap>>

(* A variation: the newest version is pruned. *)
PruneNewest ==
  /\ handler # Idle /\ handler.step = "prune"
  /\ files' = [files EXCEPT ![index[Len(index)].id] = Absent]
  /\ Goto("index")
  /\ UNCHANGED <<live, cache, index, now, crashes, edited, reused, gap>>

(* It deletes the oldest version's file, if there is one, when the index is full. *)
Prune ==
  /\ handler # Idle /\ handler.step = "prune"
  /\ files' = [files EXCEPT ![index[1].id] = Absent]
  /\ Goto("index")
  /\ UNCHANGED <<live, cache, index, now, crashes, edited, reused, gap>>

(* A variation: the limit is not looked at. *)
IndexUnpruned ==
  Append([i \in DOMAIN index |-> [index[i] EXCEPT !.current = FALSE]],
         [id |-> handler.id, current |-> TRUE, saved |-> handler.old])

(* A variation: the entries that are there keep their marks. *)
IndexKeepingMarks ==
  LET all == Append(index, [id |-> handler.id, current |-> TRUE, saved |-> handler.old])
  IN  IF Len(all) > MaxVersions THEN Tail(all) ELSE all

(* The index with the new version, the only current one, and without the     *)
(* oldest when there are too many. *)
IndexWithNew ==
  LET unmarked == [i \in DOMAIN index |-> [index[i] EXCEPT !.current = FALSE]]
      all == Append(unmarked, [id |-> handler.id, current |-> TRUE, saved |-> handler.old])
  IN  IF Len(all) > MaxVersions THEN Tail(all) ELSE all

(* _save_index at the end of snapshot().  An update goes on to write the new *)
(* configuration. *)
SaveIndex ==
  /\ handler # Idle /\ handler.step = "index"
  /\ index' = IndexWithNew
  /\ IF handler.kind = "update" THEN Goto("live") ELSE handler' = Idle
  /\ gap' = FALSE
  /\ UNCHANGED <<live, cache, files, now, crashes, edited, reused>>

(* The update writes the live file and drops the cached copy. *)
WriteUpdate ==
  /\ At("update", "live")
  /\ live' = handler.new
  /\ cache' = Absent
  /\ handler' = Idle
  /\ UNCHANGED <<index, files, now, crashes, edited, reused, gap>>

(* rollback() writes the snapshot to the live file. *)
WriteRollback ==
  /\ At("rollback", "live")
  /\ live' = handler.new
  /\ Goto("mark")
  /\ UNCHANGED <<cache, index, files, now, crashes, edited, reused, gap>>

(* It marks every entry with that id as current, and the route drops the     *)
(* cached copy. *)
MarkCurrent ==
  /\ At("rollback", "mark")
  /\ index' = [i \in DOMAIN index |-> [index[i] EXCEPT !.current = (index[i].id = handler.id)]]
  /\ cache' = Absent
  /\ handler' = Idle
  /\ UNCHANGED <<live, files, now, crashes, edited, reused, gap>>

(* PUT /config/features/{client_id} rewrites one section of the live file,    *)
(* which the schema does not know. *)
UpdateClientFlags(c) ==
  /\ handler = Idle
  /\ live \in Config
  /\ View[c] = View[live]
  /\ live' = c
  /\ UNCHANGED <<cache, index, files, handler, now, crashes, edited, reused, gap>>

(* The dashboard's editor writes any mapping, and does not look at the schema. *)
DashboardPut(c) ==
  /\ live' = c
  /\ edited' = TRUE
  /\ UNCHANGED <<cache, index, files, handler, now, crashes, reused, gap>>

Tick ==
  /\ now < LastSecond
  /\ now' = now + 1
  /\ UNCHANGED <<live, cache, index, files, handler, crashes, edited, reused, gap>>

(* The process ends before a handler's next write, or in the middle of it: a  *)
(* file is then cut short.  An index that was cut short reads as empty. *)
Crash ==
  /\ handler # Idle
  /\ crashes < MaxCrashes
  /\ crashes' = crashes + 1
  /\ handler' = Idle
  /\ cache' = Absent
  /\ gap' = (gap \/ (handler.step = "index" /\ Len(index) >= MaxVersions))
  /\ \/ UNCHANGED <<live, index, files, reused>>
     \/ /\ handler.step = "file"
        /\ files' = [files EXCEPT ![handler.id] = Torn]
        /\ reused' = (reused \/ handler.id \in Listed)
        /\ UNCHANGED <<live, index>>
     \/ /\ handler.step \in {"index", "mark"}
        /\ index' = <<>>
        /\ UNCHANGED <<live, files, reused>>
     \/ /\ handler.step = "live"
        /\ live' = Torn
        /\ UNCHANGED <<index, files, reused>>
  /\ UNCHANGED <<now, edited>>

----------------------------------------------------------------------------
Init ==
  /\ live \in Valid \cup {Absent}
  /\ cache = Absent
  /\ index = <<>>
  /\ files = [id \in VersionId |-> Absent]
  /\ handler = Idle
  /\ now = 0
  /\ crashes = 0
  /\ edited = FALSE /\ reused = FALSE /\ gap = FALSE

Next ==
  \/ GetClient
  \/ \E c \in Valid : StartUpdate(c)
  \/ StartSnapshot
  \/ \E id \in Listed : StartRollback(id)
  \/ WriteSnapshot \/ Prune \/ SaveIndex
  \/ WriteUpdate \/ WriteRollback \/ MarkCurrent
  \/ \E c \in Config : UpdateClientFlags(c)
  \/ \E c \in Config : DashboardPut(c)
  \/ Tick
  \/ Crash

Spec == Init /\ [][Next]_vars

----------------------------------------------------------------------------
(* Every version that the index lists can be rolled back to, and has what was *)
(* saved under it, as long as no id was given out twice.  The one exception is *)
(* the oldest version of a full index while a new one takes its place, or when *)
(* the process ended just then: its file goes before the index says so. *)
ListedIsSaved ==
  ~reused =>
    \A i \in DOMAIN index :
      \/ files[index[i].id] = index[i].saved
      \/ /\ i = 1 /\ Len(index) = MaxVersions
         /\ files[index[i].id] = Absent
         /\ gap \/ (handler # Idle /\ handler.step = "index")

(* Two versions are given one id only within a second, and only when the index *)
(* is full: until then its length tells them apart. *)
SameIdOnlyWhenFull ==
  [][reused' /\ ~reused => Len(index) = MaxVersions]_vars

(* Of the versions in a history that is not empty exactly one is current, as *)
(* long as no id was given out twice. *)
OneCurrent ==
  ~reused /\ index # <<>> =>
    Cardinality({i \in DOMAIN index : index[i].current}) = 1

(* An update never overwrites a configuration that no listed version has,     *)
(* unless the dashboard wrote it while the update was running. *)
NothingOverwrittenUnsaved ==
  [][(handler # Idle /\ handler.kind = "update" /\ live' # live /\ ~edited' /\ ~reused)
       => \/ live = Absent
          \/ \E i \in DOMAIN index : files[index[i].id] = live]_vars

=============================================================================
