------------------------- MODULE ConfigHistoryProofs -------------------------
(***************************************************************************)
(* What holds of a client's configuration history for any configurations,  *)
(* any schema, any number of versions and any crashes.                     *)
(***************************************************************************)
EXTENDS ConfigHistory, FiniteSetTheorems, TLAPS

(* A handler that makes a new version, and the steps that each handler has. *)
Making == handler # Idle /\ handler.kind \in {"update", "snapshot"}

Steps ==
  /\ handler # Idle /\ handler.kind = "rollback" => handler.step \in {"live", "mark"}
  /\ handler # Idle /\ handler.kind = "update" => handler.step # "mark"
  /\ handler # Idle /\ handler.kind = "snapshot" => handler.step \notin {"live", "mark"}
  /\ handler # Idle /\ handler.step \in {"file", "prune", "index"} => handler.old # Absent
  /\ handler # Idle /\ handler.step = "prune" => Len(index) = MaxVersions
  /\ handler # Idle /\ handler.kind = "rollback" => handler.id \in Listed

(* Until the index is full its entries are numbered from one. *)
Numbers ==
  /\ Len(index) < MaxVersions => \A i \in DOMAIN index : index[i].id[1] = i
  /\ handler # Idle /\ handler.step \in {"file", "prune", "index"} =>
       handler.id[1] = Len(index) + 1

(* No two entries have one id, and a new version is none of them. *)
Distinct ==
  ~reused =>
    /\ \A i, j \in DOMAIN index : index[i].id = index[j].id => i = j
    /\ handler # Idle /\ handler.step \in {"prune", "index"} =>
         handler.id \notin Listed /\ files[handler.id] = handler.old

(* One entry is current. *)
Marked ==
  ~reused /\ index # <<>> =>
    \E i \in DOMAIN index : \A j \in DOMAIN index : index[j].current <=> j = i

(* What an update is about to overwrite. *)
Secured ==
  handler # Idle /\ handler.kind = "update" /\ ~edited =>
    /\ handler.old = live
    /\ ~reused /\ handler.step = "live" =>
         live = Absent \/ \E i \in DOMAIN index : files[index[i].id] = live

(* The versions that an entry more leaves no room for. *)
Dropped == IF Len(index) = MaxVersions THEN 1 ELSE 0

HistoryInv ==
  /\ TypeOK
  /\ Steps /\ Numbers /\ Distinct /\ Marked /\ Secured
  /\ ListedIsSaved

----------------------------------------------------------------------------
(* What the index has. *)
LEMMA IndexTypes ==
  ASSUME TypeOK
  PROVE  /\ Len(index) \in 0..MaxVersions /\ DOMAIN index = 1..Len(index)
         /\ \A i \in DOMAIN index : /\ index[i] \in Entry
                                    /\ index[i].id \in VersionId
                                    /\ index[i].saved \in Content
         /\ MaxVersions \in Nat \ {0} /\ Len(index) \in Nat
<1>1. MaxVersions \in Nat \ {0}
  BY HistoryAssumption
<1>2. index \in Seq(Entry) /\ Len(index) <= MaxVersions
  BY DEF TypeOK
<1>3. Len(index) \in Nat /\ DOMAIN index = 1..Len(index) /\ \A i \in DOMAIN index : index[i] \in Entry
  BY <1>2
<1>4. \A e \in Entry : e.id \in VersionId /\ e.saved \in Content
  BY DEF Entry
<1>5. QED
  BY <1>1, <1>2, <1>3, <1>4

(* The number of the next version and the second are an id. *)
LEMMA NextIdType ==
  ASSUME TypeOK
  PROVE  NextId \in VersionId /\ NextId[1] = Len(index) + 1
BY IndexTypes, HistoryAssumption DEF TypeOK, NextId, VersionId

(* A handler goes to its next step. *)
LEMMA GotoStep ==
  ASSUME handler \in Handler, NEW step \in {"file", "prune", "index", "live", "mark"},
         Goto(step)
  PROVE  /\ handler' \in Handler /\ handler' # Idle /\ handler'.step = step
         /\ handler'.kind = handler.kind /\ handler'.id = handler.id
         /\ handler'.old = handler.old /\ handler'.new = handler.new
BY IdleAssumption DEF Goto, Handler

(* A history whose entries only have other marks. *)
LEMMA Remarked ==
  ASSUME NEW s \in Seq(Entry), NEW t \in [1..Len(s) -> Entry]
  PROVE  t \in Seq(Entry) /\ Len(t) = Len(s)
OBVIOUS

(* A history without its oldest entry. *)
LEMMA Tailed ==
  ASSUME NEW s \in Seq(Entry), s # <<>>
  PROVE  /\ Tail(s) \in Seq(Entry) /\ Len(Tail(s)) = Len(s) - 1
         /\ \A i \in 1..Len(Tail(s)) : Tail(s)[i] = s[i + 1]
OBVIOUS

(* A history with one entry more. *)
LEMMA Appended ==
  ASSUME NEW s \in Seq(Entry), NEW e \in Entry
  PROVE  /\ Append(s, e) \in Seq(Entry) /\ Len(Append(s, e)) = Len(s) + 1
         /\ \A i \in 1..Len(s) : Append(s, e)[i] = s[i]
         /\ Append(s, e)[Len(s) + 1] = e
OBVIOUS

(* The index that snapshot() writes. *)
LEMMA NewIndex ==
  ASSUME TypeOK, handler \in Handler, handler.old \in Content
  PROVE  /\ IndexWithNew \in Seq(Entry)
         /\ Len(IndexWithNew) = Len(index) + 1 - Dropped
         /\ Len(IndexWithNew) \in 1..MaxVersions
         /\ \A i \in 1..(Len(index) - Dropped) :
              /\ IndexWithNew[i].id = index[i + Dropped].id
              /\ IndexWithNew[i].saved = index[i + Dropped].saved
              /\ IndexWithNew[i].current = FALSE
         /\ IndexWithNew[Len(IndexWithNew)] =
              [id |-> handler.id, current |-> TRUE, saved |-> handler.old]
<1> DEFINE unmarked == [i \in DOMAIN index |-> [index[i] EXCEPT !.current = FALSE]]
           new == [id |-> handler.id, current |-> TRUE, saved |-> handler.old]
           all == Append(unmarked, new)
<1>1. new \in Entry
  BY DEF Handler, Entry
<1>2. \A i \in DOMAIN index : /\ unmarked[i] \in Entry
                              /\ unmarked[i].id = index[i].id
                              /\ unmarked[i].saved = index[i].saved
                              /\ unmarked[i].current = FALSE
  BY IndexTypes DEF Entry
<1>3. unmarked \in [1..Len(index) -> Entry]
  BY <1>2, IndexTypes
<1>4. index \in Seq(Entry)
  BY DEF TypeOK
<1>5. unmarked \in Seq(Entry) /\ Len(unmarked) = Len(index)
  BY <1>3, <1>4, Remarked
<1> HIDE DEF unmarked, new
<1>6. /\ all \in Seq(Entry) /\ Len(all) = Len(index) + 1
      /\ \A i \in 1..Len(index) : all[i] = unmarked[i]
      /\ all[Len(index) + 1] = new
  BY <1>1, <1>5, Appended
<1> HIDE DEF all
<1>7. IndexWithNew = IF Len(all) > MaxVersions THEN Tail(all) ELSE all
  BY DEF IndexWithNew, all, unmarked, new
<1>8. CASE Len(index) = MaxVersions
  <2>1. all # <<>>
    BY <1>6, IndexTypes
  <2>2. /\ Tail(all) \in Seq(Entry) /\ Len(Tail(all)) = Len(index)
        /\ \A i \in 1..Len(index) : Tail(all)[i] = all[i + 1]
    BY <1>6, <2>1, Tailed, IndexTypes
  <2>3. IndexWithNew = Tail(all) /\ Dropped = 1
    BY <1>6, <1>7, <1>8, IndexTypes DEF Dropped
  <2>4. \A i \in 1..(Len(index) - 1) : Tail(all)[i] = unmarked[i + 1]
    BY <1>6, <2>2, IndexTypes
  <2>5. Tail(all)[Len(index)] = new
    BY <1>6, <1>8, <2>2, IndexTypes
  <2>6. \A i \in 1..(Len(index) - 1) :
          /\ unmarked[i + 1].id = index[i + 1].id
          /\ unmarked[i + 1].saved = index[i + 1].saved
          /\ unmarked[i + 1].current = FALSE
    BY <1>2, IndexTypes
  <2>7. Len(index) + 1 - 1 = Len(index) /\ Len(index) \in 1..MaxVersions
    BY <1>8, IndexTypes
  <2>8. QED
    BY <2>2, <2>3, <2>4, <2>5, <2>6, <2>7 DEF new
<1>9. CASE Len(index) # MaxVersions
  <2>1. IndexWithNew = all /\ Dropped = 0 /\ Len(index) < MaxVersions
    BY <1>6, <1>7, <1>9, IndexTypes DEF Dropped
  <2>2. QED
    BY <1>2, <1>6, <2>1, IndexTypes DEF new
<1>10. QED
  BY <1>8, <1>9

----------------------------------------------------------------------------
(* The history, its files and what was given out stay as they are while a    *)
(* handler begins or ends. *)
LEMMA HistoryStays ==
  ASSUME HistoryInv, UNCHANGED <<index, files, reused>>,
         handler' = Idle \/ (handler' # Idle /\ handler = Idle
                              /\ handler'.step \notin {"prune", "index"}),
         gap => gap',
         handler # Idle /\ handler.step = "index" /\ Len(index) = MaxVersions => gap'
  PROVE  Distinct' /\ Marked' /\ ListedIsSaved'
<1>1. Distinct'
  BY DEF HistoryInv, Distinct
<1>2. Marked'
  BY DEF HistoryInv, Marked
<1>3. ListedIsSaved'
  BY DEF HistoryInv, ListedIsSaved
<1>4. QED
  BY <1>1, <1>2, <1>3

(* A handler begins, or a configuration is read. *)
LEMMA StartsKeep ==
  ASSUME HistoryInv,
         \/ GetClient \/ (\E c \in Valid : StartUpdate(c)) \/ StartSnapshot
         \/ \E id \in Listed : StartRollback(id)
  PROVE  HistoryInv'
<1>1. \A c \in Served : c \in Valid
  BY ConfigAssumption DEF Served, HistoryInv, TypeOK
<1>2. CASE GetClient
  <2>1. cache' \in Valid
    BY <1>1, <1>2 DEF GetClient
  <2>2. TypeOK'
    BY <1>2, <2>1 DEF GetClient, HistoryInv, TypeOK
  <2>3. Distinct' /\ Marked' /\ ListedIsSaved'
    BY <1>2 DEF GetClient, HistoryInv, Distinct, Marked, ListedIsSaved, Listed
  <2>4. Steps' /\ Numbers' /\ Secured'
    BY <1>2 DEF GetClient, HistoryInv, Steps, Numbers, Secured
  <2>5. QED
    BY <2>2, <2>3, <2>4 DEF HistoryInv
<1>3. ASSUME NEW kind \in {"update", "snapshot"}, NEW step \in {"file", "live"},
             NEW old \in Content \cup {Absent}, NEW new \in Content,
             Begin(kind, step, NextId, old, new),
             step = "file" => old # Absent,
             step = "live" => kind = "update",
             kind = "update" => old = live /\ (step = "live" => live = Absent),
             cache' \in Valid \cup {Absent}
      PROVE  HistoryInv'
  <2>1. [kind |-> kind, step |-> step, id |-> NextId, old |-> old, new |-> new] \in Handler
    BY <1>3, NextIdType DEF HistoryInv, Handler
  <2>2. /\ handler = Idle /\ handler' # Idle /\ handler' \in Handler
        /\ handler'.kind = kind /\ handler'.step = step /\ handler'.id = NextId
        /\ handler'.old = old /\ handler'.new = new /\ edited' = FALSE
        /\ UNCHANGED <<live, index, files, now, crashes, reused, gap>>
    BY <1>3, <2>1, IdleAssumption DEF Begin
  <2>3. TypeOK'
    BY <1>3, <2>2 DEF HistoryInv, TypeOK
  <2>4. Distinct' /\ Marked' /\ ListedIsSaved'
    BY <1>3, <2>2, HistoryStays
  <2>5. Steps' /\ Numbers' /\ Secured'
    BY <1>3, <2>2, NextIdType DEF HistoryInv, Steps, Numbers, Secured
  <2>6. QED
    BY <2>3, <2>4, <2>5 DEF HistoryInv
<1>4. ASSUME NEW c \in Valid, StartUpdate(c)
      PROVE  HistoryInv'
  <2>1. c \in Content /\ live \in Content \cup {Absent}
    BY ConfigAssumption DEF Content, HistoryInv, TypeOK
  <2>2. Begin("update", IF live = Absent THEN "live" ELSE "file", NextId, live, c)
    BY <1>4 DEF StartUpdate
  <2>3. cache' \in Valid \cup {Absent}
    BY <1>4 DEF StartUpdate, HistoryInv, TypeOK
  <2>4. CASE live = Absent
    BY <1>3, <2>1, <2>2, <2>3, <2>4
  <2>5. CASE live # Absent
    BY <1>3, <2>1, <2>2, <2>3, <2>5
  <2>6. QED
    BY <2>4, <2>5
<1>5. CASE StartSnapshot
  <2>1. PICK c \in Served : cache' = c /\ Begin("snapshot", "file", NextId, c, c)
    BY <1>5 DEF StartSnapshot
  <2>2. c \in Valid /\ c \in Content /\ c # Absent
    BY <1>1, ConfigAssumption DEF Content
  <2>3. QED
    BY <1>3, <2>1, <2>2
<1>6. ASSUME NEW id \in Listed, StartRollback(id)
      PROVE  HistoryInv'
  <2>1. id \in VersionId /\ files[id] \in Content /\ live \in Content \cup {Absent}
    BY <1>6, IndexTypes DEF StartRollback, Listed, HistoryInv, TypeOK
  <2>2. [kind |-> "rollback", step |-> "live", id |-> id, old |-> live,
         new |-> files[id]] \in Handler
    BY <2>1 DEF Handler
  <2>3. /\ handler = Idle /\ handler' # Idle /\ handler' \in Handler
        /\ handler'.kind = "rollback" /\ handler'.step = "live" /\ handler'.id = id
        /\ edited' = FALSE
        /\ UNCHANGED <<live, cache, index, files, now, crashes, reused, gap>>
    BY <1>6, <2>2, IdleAssumption DEF StartRollback, Begin
  <2>4. TypeOK'
    BY <2>3 DEF HistoryInv, TypeOK
  <2>5. Distinct' /\ Marked' /\ ListedIsSaved'
    BY <2>3, HistoryStays
  <2>6. Steps' /\ Numbers' /\ Secured'
    BY <2>3 DEF HistoryInv, Steps, Numbers, Secured, Listed
  <2>7. QED
    BY <2>4, <2>5, <2>6 DEF HistoryInv
<1>7. QED
  BY <1>2, <1>4, <1>5, <1>6

(* What a handler that saves something knows. *)
LEMMA Saving ==
  ASSUME HistoryInv, handler # Idle, handler.step \in {"file", "prune", "index"}
  PROVE  /\ handler \in Handler /\ handler.id \in VersionId /\ handler.old \in Content
         /\ handler.kind \in {"update", "snapshot"}
         /\ handler.id[1] = Len(index) + 1
         /\ index \in Seq(Entry)
<1>1. handler \in Handler
  BY DEF HistoryInv, TypeOK
<1>2. /\ handler.id \in VersionId /\ handler.old \in Content \cup {Absent}
      /\ handler.kind \in {"update", "snapshot", "rollback"}
  BY <1>1 DEF Handler
<1>3. QED
  BY <1>1, <1>2 DEF HistoryInv, TypeOK, Steps, Numbers

(* The snapshot's file is written, whole or not, under an id that is not        *)
(* listed or that is reused. *)
LEMMA FileWritten ==
  ASSUME HistoryInv, handler # Idle, handler.step = "file",
         NEW content \in Content, files' = [files EXCEPT ![handler.id] = content],
         reused' = (reused \/ handler.id \in Listed), UNCHANGED index
  PROVE  /\ files' \in [VersionId -> Content \cup {Absent}]
         /\ files'[handler.id] = content
         /\ reused' \in BOOLEAN /\ (reused => reused')
         /\ ~reused' => /\ handler.id \notin Listed
                        /\ \A i \in DOMAIN index : files'[index[i].id] = files[index[i].id]
<1>1. handler.id \in VersionId
  BY Saving
<1>2. reused' \in BOOLEAN /\ (reused => reused') /\ (~reused' => handler.id \notin Listed)
  BY DEF HistoryInv, TypeOK
<1>3. ~reused' => \A i \in DOMAIN index : files'[index[i].id] = files[index[i].id]
  BY <1>1, <1>2, IndexTypes DEF HistoryInv, TypeOK, Listed
<1>4. QED
  BY <1>1, <1>2, <1>3 DEF HistoryInv, TypeOK

(* snapshot() writes the file. *)
LEMMA WriteSnapshotKeeps ==
  ASSUME HistoryInv, WriteSnapshot
  PROVE  HistoryInv'
<1>1. handler # Idle /\ handler.step = "file"
  BY DEF WriteSnapshot, At
<1>2. /\ handler \in Handler /\ handler.id \in VersionId /\ handler.old \in Content
      /\ handler.kind \in {"update", "snapshot"} /\ handler.id[1] = Len(index) + 1
  BY <1>1, Saving
<1>3. /\ files' \in [VersionId -> Content \cup {Absent}]
      /\ files'[handler.id] = handler.old
      /\ reused' \in BOOLEAN /\ (reused => reused')
      /\ ~reused' => /\ handler.id \notin Listed
                     /\ \A i \in DOMAIN index : files'[index[i].id] = files[index[i].id]
  BY <1>1, <1>2, FileWritten DEF WriteSnapshot
<1>4. /\ handler' \in Handler /\ handler' # Idle
      /\ handler'.step = (IF Len(index) >= MaxVersions THEN "prune" ELSE "index")
      /\ handler'.kind = handler.kind /\ handler'.id = handler.id
      /\ handler'.old = handler.old /\ handler'.new = handler.new
  BY <1>2, GotoStep DEF WriteSnapshot
<1>5. UNCHANGED <<live, cache, index, now, crashes, edited, gap>>
  BY DEF WriteSnapshot
<1>6. Len(index) \in 0..MaxVersions /\ MaxVersions \in Nat
  BY IndexTypes DEF HistoryInv
<1>7. TypeOK'
  BY <1>3, <1>4, <1>5 DEF HistoryInv, TypeOK
<1>8. Steps'
  BY <1>2, <1>4, <1>5, <1>6, ConfigAssumption DEF Steps, Content
<1>9. Numbers' /\ Marked'
  BY <1>2, <1>3, <1>4, <1>5 DEF HistoryInv, Numbers, Marked
<1>10. Distinct'
  BY <1>3, <1>4, <1>5 DEF HistoryInv, Distinct, Listed
<1>11. Secured'
  BY <1>1, <1>4, <1>5 DEF HistoryInv, Secured
<1>12. ListedIsSaved'
  BY <1>1, <1>3, <1>4, <1>5, <1>6 DEF HistoryInv, ListedIsSaved
<1>13. QED
  BY <1>7, <1>8, <1>9, <1>10, <1>11, <1>12 DEF HistoryInv

(* The oldest version of a full index loses its file. *)
LEMMA PruneKeeps ==
  ASSUME HistoryInv, Prune
  PROVE  HistoryInv'
<1>1. handler # Idle /\ handler.step = "prune"
  BY DEF Prune
<1>2. /\ handler \in Handler /\ handler.id \in VersionId /\ handler.old \in Content
      /\ handler.kind \in {"update", "snapshot"} /\ handler.id[1] = Len(index) + 1
  BY <1>1, Saving
<1>3. /\ Len(index) = MaxVersions /\ 1 \in DOMAIN index /\ index[1].id \in VersionId
      /\ \A i \in DOMAIN index : index[i].id \in VersionId
      /\ DOMAIN index = 1..Len(index)
  BY <1>1, IndexTypes DEF HistoryInv, Steps
<1>4. /\ handler' \in Handler /\ handler' # Idle /\ handler'.step = "index"
      /\ handler'.kind = handler.kind /\ handler'.id = handler.id
      /\ handler'.old = handler.old /\ handler'.new = handler.new
  BY <1>2, GotoStep DEF Prune
<1>5. UNCHANGED <<live, cache, index, now, crashes, edited, reused, gap>>
  BY DEF Prune
<1>6. /\ files' \in [VersionId -> Content \cup {Absent}] /\ files'[index[1].id] = Absent
      /\ \A v \in VersionId : v # index[1].id => files'[v] = files[v]
  BY <1>3 DEF Prune, HistoryInv, TypeOK
<1>7. TypeOK'
  BY <1>4, <1>5, <1>6 DEF HistoryInv, TypeOK
<1>8. Steps'
  BY <1>2, <1>4, <1>5, ConfigAssumption DEF Steps, Content
<1>9. Numbers' /\ Marked'
  BY <1>2, <1>4, <1>5 DEF HistoryInv, Numbers, Marked
<1>10. ~reused => /\ handler.id # index[1].id
                  /\ \A i \in DOMAIN index : i # 1 => index[i].id # index[1].id
  BY <1>1, <1>3 DEF HistoryInv, Distinct, Listed
<1>11. Distinct'
  BY <1>1, <1>2, <1>4, <1>5, <1>6, <1>10 DEF HistoryInv, Distinct, Listed
<1>12. Secured'
  BY <1>1, <1>4, <1>5 DEF HistoryInv, Secured
<1>13. ListedIsSaved'
  <2>1. ASSUME ~reused, NEW i \in DOMAIN index, i # 1
        PROVE  files'[index[i].id] = index[i].saved
    BY <1>3, <1>6, <1>10, <2>1 DEF HistoryInv, ListedIsSaved
  <2>2. QED
    BY <1>3, <1>4, <1>5, <1>6, <2>1 DEF ListedIsSaved
<1>14. QED
  BY <1>7, <1>8, <1>9, <1>11, <1>12, <1>13 DEF HistoryInv

(* The index has the new version, and not the oldest if it was full. *)
LEMMA SaveIndexKeeps ==
  ASSUME HistoryInv, SaveIndex
  PROVE  HistoryInv'
<1> DEFINE n == Len(index)
<1>1. handler # Idle /\ handler.step = "index" /\ index' = IndexWithNew
  BY DEF SaveIndex
<1>2. /\ handler \in Handler /\ handler.id \in VersionId /\ handler.old \in Content
      /\ handler.kind \in {"update", "snapshot"} /\ handler.id[1] = n + 1
  BY <1>1, Saving
<1>3. /\ n \in 0..MaxVersions /\ DOMAIN index = 1..n /\ MaxVersions \in Nat \ {0}
      /\ Dropped \in {0, 1} /\ (Dropped = 1 <=> n = MaxVersions)
  BY IndexTypes DEF HistoryInv, Dropped
<1>3a. n \in Nat /\ MaxVersions \in Nat /\ n <= MaxVersions
  BY IndexTypes DEF HistoryInv
<1>4. /\ index' \in Seq(Entry) /\ Len(index') = n + 1 - Dropped
      /\ Len(index') \in 1..MaxVersions
      /\ index'[Len(index')] = [id |-> handler.id, current |-> TRUE, saved |-> handler.old]
      /\ \A i \in 1..(n - Dropped) : /\ index'[i].id = index[i + Dropped].id
                                     /\ index'[i].saved = index[i + Dropped].saved
                                     /\ index'[i].current = FALSE
  <2>1. TypeOK
    BY DEF HistoryInv
  <2>2. QED
    BY <1>1, <1>2, <2>1, NewIndex
<1>4a. DOMAIN index' = 1..Len(index')
  BY <1>4
<1>4b. \/ n < MaxVersions /\ Dropped = 0 /\ Len(index') = n + 1
       \/ n = MaxVersions /\ Dropped = 1 /\ Len(index') = n
  <2>1. Len(index') = n + 1 - Dropped
    BY <1>4
  <2>2. CASE n = MaxVersions
    BY <1>3, <1>3a, <2>1, <2>2
  <2>3. CASE n # MaxVersions
    <3>1. Dropped = 0
      BY <2>3 DEF Dropped
    <3>2. n < MaxVersions
      BY <1>3a, <2>3
    <3>3. Len(index') = n + 1
      BY <1>3a, <2>1, <3>1
    <3>4. QED
      BY <3>1, <3>2, <3>3
  <2>4. QED
    BY <2>2, <2>3
<1>5. /\ index'[Len(index')].id = handler.id /\ index'[Len(index')].saved = handler.old
      /\ index'[Len(index')].current = TRUE
  BY <1>4
<1>6. /\ UNCHANGED <<live, cache, files, now, crashes, edited, reused>> /\ gap' = FALSE
      /\ \/ handler' = Idle
         \/ /\ handler.kind = "update" /\ handler' \in Handler /\ handler' # Idle
            /\ handler'.step = "live" /\ handler'.kind = "update"
            /\ handler'.old = handler.old
  BY <1>2, GotoStep DEF SaveIndex
<1>7. \A i \in DOMAIN index' :
        \/ i = Len(index')
        \/ i \in 1..(n - Dropped) /\ i + Dropped \in DOMAIN index
  <2>1. SUFFICES ASSUME NEW i \in DOMAIN index', i # Len(index')
                 PROVE  i \in 1..(n - Dropped) /\ i + Dropped \in DOMAIN index
    OBVIOUS
  <2>2. i \in Nat /\ i >= 1 /\ i <= Len(index')
    BY <1>4, <1>4a
  <2>3. DOMAIN index = 1..n
    BY <1>3
  <2>4. CASE n < MaxVersions /\ Dropped = 0 /\ Len(index') = n + 1
    BY <1>3a, <2>1, <2>2, <2>3, <2>4
  <2>5. CASE n = MaxVersions /\ Dropped = 1 /\ Len(index') = n
    BY <1>3a, <2>1, <2>2, <2>3, <2>5
  <2>6. QED
    BY <1>4b, <2>4, <2>5
<1>8. TypeOK'
  <2>1. Len(index') <= MaxVersions
    BY <1>3a, <1>4b
  <2>2. QED
    BY <1>4, <1>6, <2>1 DEF HistoryInv, TypeOK
<1>9. Steps'
  BY <1>6 DEF Steps
<1>10. Numbers'
  <2>1. ASSUME Len(index') < MaxVersions, NEW i \in DOMAIN index'
        PROVE  index'[i].id[1] = i
    <3>1. Dropped = 0 /\ n < MaxVersions /\ Len(index') = n + 1
      BY <1>3a, <1>4b, <2>1
    <3>2. CASE i = Len(index')
      BY <1>2, <1>5, <3>1, <3>2
    <3>3. CASE i \in 1..(n - Dropped) /\ i + Dropped \in DOMAIN index
      <4>1. i + Dropped = i
        BY <1>3a, <3>1, <3>3
      <4>2. index[i].id[1] = i
        BY <3>1, <3>3, <4>1 DEF HistoryInv, Numbers
      <4>3. QED
        BY <1>4, <3>3, <4>1, <4>2
    <3>4. QED
      BY <1>7, <2>1, <3>2, <3>3
  <2>2. QED
    BY <1>6, <2>1 DEF Numbers
<1>11. ~reused => /\ files[handler.id] = handler.old
                  /\ \A i \in DOMAIN index : index[i].id # handler.id
  BY <1>1 DEF HistoryInv, Distinct, Listed
<1>12. Distinct'
  <2>1. ASSUME ~reused, NEW i \in DOMAIN index', NEW j \in DOMAIN index',
               index'[i].id = index'[j].id
        PROVE  i = j
    <3>1. CASE i = Len(index') /\ j = Len(index')
      BY <3>1
    <3>2. CASE i = Len(index') /\ j # Len(index')
      BY <1>4, <1>5, <1>7, <1>11, <2>1, <3>2
    <3>3. CASE i # Len(index') /\ j = Len(index')
      BY <1>4, <1>5, <1>7, <1>11, <2>1, <3>3
    <3>4. CASE i # Len(index') /\ j # Len(index')
      <4>1. /\ i \in 1..(n - Dropped) /\ i + Dropped \in DOMAIN index
            /\ j \in 1..(n - Dropped) /\ j + Dropped \in DOMAIN index
        BY <1>7, <3>4
      <4>2. index[i + Dropped].id = index[j + Dropped].id
        BY <1>4, <2>1, <4>1
      <4>3. i + Dropped = j + Dropped
        BY <2>1, <4>1, <4>2 DEF HistoryInv, Distinct
      <4>4. QED
        BY <1>3a, <1>4b, <4>1, <4>3
    <3>5. QED
      BY <3>1, <3>2, <3>3, <3>4
  <2>2. QED
    BY <1>6, <2>1 DEF Distinct
<1>13. Marked'
  <2>1. Len(index') \in DOMAIN index'
    BY <1>4
  <2>2. \A j \in DOMAIN index' : index'[j].current <=> j = Len(index')
    BY <1>3, <1>4, <1>5, <1>7
  <2>3. QED
    BY <2>1, <2>2 DEF Marked
<1>14. ListedIsSaved'
  <2>1. ASSUME ~reused, NEW i \in DOMAIN index'
        PROVE  files[index'[i].id] = index'[i].saved
    <3>1. CASE i = Len(index')
      BY <1>5, <1>11, <2>1, <3>1
    <3>2. CASE i \in 1..(n - Dropped) /\ i + Dropped \in DOMAIN index
      <4>1. ~(i + Dropped = 1 /\ n = MaxVersions)
        BY <1>3a, <1>4b, <3>2
      <4>2. files[index[i + Dropped].id] = index[i + Dropped].saved
        BY <2>1, <3>2, <4>1 DEF HistoryInv, ListedIsSaved
      <4>3. QED
        BY <1>4, <3>2, <4>2
    <3>3. QED
      BY <1>7, <3>1, <3>2
  <2>2. QED
    BY <1>6, <2>1 DEF ListedIsSaved
<1>15. Secured'
  <2>1. CASE handler' = Idle
    BY <2>1 DEF Secured
  <2>2. CASE handler' # Idle
    <3>1. handler.kind = "update" /\ handler'.old = handler.old
      BY <1>6, <2>2
    <3>2. ~edited => handler.old = live
      BY <1>1, <3>1 DEF HistoryInv, Secured
    <3>3. ~edited /\ ~reused => files[index'[Len(index')].id] = live
      BY <1>5, <1>11, <3>2
    <3>4. Len(index') \in DOMAIN index'
      BY <1>4
    <3>5. QED
      BY <1>6, <3>1, <3>2, <3>3, <3>4 DEF Secured
  <2>3. QED
    BY <2>1, <2>2
<1>16. QED
  BY <1>8, <1>9, <1>10, <1>12, <1>13, <1>14, <1>15 DEF HistoryInv

----------------------------------------------------------------------------
(* The live file is written, by a handler or by somebody else. *)
LEMMA LiveKeeps ==
  ASSUME HistoryInv,
         \/ WriteUpdate \/ WriteRollback
         \/ \E c \in Config : UpdateClientFlags(c) \/ DashboardPut(c)
  PROVE  HistoryInv'
<1>1. handler # Idle => handler \in Handler /\ handler.new \in Content
  BY DEF HistoryInv, TypeOK, Handler
<1>2. Config \subseteq Content
  BY DEF Content
<1>3. CASE WriteUpdate
  <2>1. TypeOK'
    BY <1>1, <1>3 DEF WriteUpdate, At, HistoryInv, TypeOK
  <2>2. Distinct' /\ Marked' /\ ListedIsSaved'
    BY <1>3, HistoryStays DEF WriteUpdate, At
  <2>3. Steps' /\ Numbers' /\ Secured'
    BY <1>3 DEF WriteUpdate, HistoryInv, Steps, Numbers, Secured
  <2>4. QED
    BY <2>1, <2>2, <2>3 DEF HistoryInv
<1>4. CASE WriteRollback
  <2>1. /\ handler' \in Handler /\ handler' # Idle /\ handler'.step = "mark"
        /\ handler'.kind = "rollback" /\ handler'.id = handler.id
        /\ handler # Idle /\ handler.kind = "rollback" /\ handler.step = "live"
        /\ live' = handler.new
        /\ UNCHANGED <<cache, index, files, now, crashes, edited, reused, gap>>
    BY <1>1, <1>4, GotoStep DEF WriteRollback, At
  <2>2. TypeOK'
    BY <1>1, <2>1 DEF HistoryInv, TypeOK
  <2>3. Distinct' /\ Marked' /\ ListedIsSaved'
    BY <2>1 DEF HistoryInv, Distinct, Marked, ListedIsSaved, Listed
  <2>4. Steps' /\ Numbers' /\ Secured'
    BY <2>1 DEF HistoryInv, Steps, Numbers, Secured, Listed
  <2>5. QED
    BY <2>2, <2>3, <2>4 DEF HistoryInv
<1>5. ASSUME NEW c \in Config, UpdateClientFlags(c) \/ DashboardPut(c)
      PROVE  HistoryInv'
  <2>1. /\ live' = c /\ handler # Idle => edited' = TRUE
        /\ edited' \in BOOLEAN
        /\ UNCHANGED <<cache, index, files, handler, now, crashes, reused, gap>>
    BY <1>5 DEF UpdateClientFlags, DashboardPut, HistoryInv, TypeOK
  <2>2. TypeOK'
    BY <1>2, <2>1, <1>5 DEF HistoryInv, TypeOK, UpdateClientFlags, DashboardPut
  <2>3. Distinct' /\ Marked' /\ ListedIsSaved'
    BY <2>1 DEF HistoryInv, Distinct, Marked, ListedIsSaved, Listed
  <2>4. Steps' /\ Numbers' /\ Secured'
    BY <1>5 DEF HistoryInv, Steps, Numbers, Secured, Listed, UpdateClientFlags, DashboardPut
  <2>5. QED
    BY <2>2, <2>3, <2>4 DEF HistoryInv
<1>6. QED
  BY <1>3, <1>4, <1>5

(* The version that was rolled back to is the current one. *)
LEMMA MarkCurrentKeeps ==
  ASSUME HistoryInv, MarkCurrent
  PROVE  HistoryInv'
<1>1. /\ handler # Idle /\ handler.kind = "rollback" /\ handler.id \in Listed
      /\ handler' = Idle /\ cache' = Absent
      /\ UNCHANGED <<live, files, now, crashes, edited, reused, gap>>
  BY DEF MarkCurrent, At, HistoryInv, Steps
<1>2. /\ DOMAIN index' = DOMAIN index
      /\ \A i \in DOMAIN index : /\ index'[i].id = index[i].id
                                 /\ index'[i].saved = index[i].saved
                                 /\ index'[i].current <=> index[i].id = handler.id
                                 /\ index'[i] \in Entry
  BY IndexTypes DEF MarkCurrent, HistoryInv, Entry
<1>3. index' \in Seq(Entry) /\ Len(index') = Len(index)
  <2>1. index' \in [1..Len(index) -> Entry]
    BY <1>2, IndexTypes DEF MarkCurrent, HistoryInv
  <2>2. QED
    BY <2>1, Remarked DEF HistoryInv, TypeOK
<1>4. TypeOK'
  BY <1>1, <1>3 DEF HistoryInv, TypeOK
<1>5. Steps' /\ Numbers' /\ Secured'
  BY <1>1, <1>2, <1>3 DEF HistoryInv, Steps, Numbers, Secured
<1>6. Distinct'
  BY <1>1, <1>2 DEF HistoryInv, Distinct
<1>7. Marked'
  <2>1. PICK i \in DOMAIN index : index[i].id = handler.id
    BY <1>1 DEF Listed
  <2>2. ~reused => \A j \in DOMAIN index' : index'[j].current <=> j = i
    BY <1>2, <2>1 DEF HistoryInv, Distinct
  <2>3. QED
    BY <1>1, <1>2, <2>1, <2>2 DEF Marked
<1>8. ListedIsSaved'
  BY <1>1, <1>2, <1>3, IndexTypes DEF HistoryInv, ListedIsSaved, MarkCurrent, At
<1>9. QED
  BY <1>4, <1>5, <1>6, <1>7, <1>8 DEF HistoryInv

(* The process ends before or in the middle of a write. *)
LEMMA CrashKeeps ==
  ASSUME HistoryInv, Crash
  PROVE  HistoryInv'
<1>1. /\ handler # Idle /\ handler' = Idle /\ cache' = Absent
      /\ crashes' \in 0..MaxCrashes /\ UNCHANGED <<now, edited>>
      /\ gap' \in BOOLEAN /\ (gap => gap')
      /\ handler.step = "index" /\ Len(index) = MaxVersions => gap'
  <2>1. crashes' \in 0..MaxCrashes
    <3>1. crashes \in 0..MaxCrashes /\ crashes < MaxCrashes /\ crashes' = crashes + 1
      BY DEF Crash, HistoryInv, TypeOK
    <3>2. QED
      BY <3>1, HistoryAssumption
  <2>2. gap' \in BOOLEAN /\ (gap => gap')
    BY DEF Crash, HistoryInv, TypeOK
  <2>3. handler.step = "index" /\ Len(index) = MaxVersions => gap'
    <3>1. Len(index) = MaxVersions => Len(index) >= MaxVersions
      BY IndexTypes DEF HistoryInv
    <3>2. QED
      BY <3>1 DEF Crash
  <2>4. QED
    BY <2>1, <2>2, <2>3 DEF Crash
<1>2. Steps' /\ Secured'
  BY <1>1 DEF Steps, Secured
<1>3. CASE UNCHANGED <<live, index, files, reused>>
  <2>1. TypeOK' /\ Numbers'
    BY <1>1, <1>3 DEF HistoryInv, TypeOK, Numbers
  <2>2. Distinct' /\ Marked' /\ ListedIsSaved'
    BY <1>1, <1>3, HistoryStays
  <2>3. QED
    BY <1>2, <2>1, <2>2 DEF HistoryInv
<1>4. CASE handler.step = "live" /\ live' = Torn /\ UNCHANGED <<index, files, reused>>
  <2>1. TypeOK' /\ Numbers'
    BY <1>1, <1>4 DEF HistoryInv, TypeOK, Numbers, Content
  <2>2. Distinct' /\ Marked' /\ ListedIsSaved'
    BY <1>1, <1>4, HistoryStays
  <2>3. QED
    BY <1>2, <2>1, <2>2 DEF HistoryInv
<1>5. CASE index' = <<>> /\ UNCHANGED <<live, files, reused>>
  <2>1. index' \in Seq(Entry) /\ Len(index') = 0 /\ DOMAIN index' = {}
    BY <1>5
  <2>2. TypeOK'
    BY <1>1, <1>5, <2>1, HistoryAssumption DEF HistoryInv, TypeOK
  <2>3. Numbers' /\ Distinct' /\ Marked' /\ ListedIsSaved'
    BY <1>1, <1>5, <2>1 DEF Numbers, Distinct, Marked, ListedIsSaved
  <2>4. QED
    BY <1>2, <2>2, <2>3 DEF HistoryInv
<1>6. CASE /\ handler.step = "file"
           /\ files' = [files EXCEPT ![handler.id] = Torn]
           /\ reused' = (reused \/ handler.id \in Listed)
           /\ UNCHANGED <<live, index>>
  <2>1. Torn \in Content
    BY DEF Content
  <2>2. /\ files' \in [VersionId -> Content \cup {Absent}]
        /\ reused' \in BOOLEAN /\ (reused => reused')
        /\ ~reused' => \A i \in DOMAIN index : files'[index[i].id] = files[index[i].id]
    BY <1>1, <1>6, <2>1, FileWritten
  <2>3. TypeOK' /\ Numbers'
    BY <1>1, <1>6, <2>2 DEF HistoryInv, TypeOK, Numbers
  <2>4. Distinct' /\ Marked'
    BY <1>1, <1>6, <2>2 DEF HistoryInv, Distinct, Marked
  <2>5. ListedIsSaved'
    BY <1>1, <1>6, <2>2 DEF HistoryInv, ListedIsSaved
  <2>6. QED
    BY <1>2, <2>3, <2>4, <2>5 DEF HistoryInv
<1>7. QED
  BY <1>3, <1>4, <1>5, <1>6 DEF Crash

(* Time passes. *)
LEMMA TickKeeps ==
  ASSUME HistoryInv, Tick
  PROVE  HistoryInv'
<1>1. TypeOK'
  BY HistoryAssumption DEF Tick, HistoryInv, TypeOK
<1>2. Steps' /\ Numbers' /\ Secured' /\ Distinct' /\ Marked' /\ ListedIsSaved'
  BY DEF Tick, HistoryInv, Steps, Numbers, Secured, Distinct, Marked, ListedIsSaved, Listed
<1>3. QED
  BY <1>1, <1>2 DEF HistoryInv

(* Nothing is listed at first. *)
LEMMA InitHistory ==
  ASSUME Init
  PROVE  HistoryInv
<1>1. TypeOK
  <2>1. live \in Content \cup {Absent}
    BY ConfigAssumption DEF Init, Content
  <2>2. index \in Seq(Entry) /\ Len(index) <= MaxVersions
    BY HistoryAssumption DEF Init
  <2>3. files \in [VersionId -> Content \cup {Absent}]
    BY DEF Init
  <2>4. now \in 0..LastSecond
    BY HistoryAssumption DEF Init
  <2>5. crashes \in 0..MaxCrashes
    BY HistoryAssumption DEF Init
  <2>6. QED
    BY <2>1, <2>2, <2>3, <2>4, <2>5 DEF Init, TypeOK
<1>2. Steps /\ Numbers /\ Secured /\ Distinct /\ Marked /\ ListedIsSaved
  BY DEF Init, Steps, Numbers, Secured, Distinct, Marked, ListedIsSaved
<1>3. QED
  BY <1>1, <1>2 DEF HistoryInv

(* The invariant of one client's history: its index, the files, the handler that *)
(* is running and what that is about to overwrite (versioning.py, config_api.py). *)
THEOREM HistoryInvariant == Spec => []HistoryInv
<1>1. Init => HistoryInv
  BY InitHistory
<1>2. HistoryInv /\ [Next]_vars => HistoryInv'
  <2>1. CASE Next
    BY <2>1, StartsKeep, WriteSnapshotKeeps, PruneKeeps, SaveIndexKeeps, LiveKeeps,
       MarkCurrentKeeps, CrashKeeps, TickKeeps DEF Next
  <2>2. CASE UNCHANGED vars
    BY <2>2 DEF vars, HistoryInv, TypeOK, Steps, Numbers, Secured, Distinct, Marked,
      ListedIsSaved, Listed
  <2>3. QED
    BY <2>1, <2>2
<1>3. QED
  BY <1>1, <1>2, PTL DEF Spec

(* Types, for any configurations and any number of versions. *)
THEOREM HistoryTypes == Spec => []TypeOK
<1>1. HistoryInv => TypeOK
  BY DEF HistoryInv
<1>2. QED
  BY <1>1, HistoryInvariant, PTL

(* Every listed version can be rolled back to and has what was saved, through any *)
(* crashes, as long as no id was given out twice (versioning.py:61-90). *)
THEOREM ListedVersionsAreSaved == Spec => []ListedIsSaved
<1>1. HistoryInv => ListedIsSaved
  BY DEF HistoryInv
<1>2. QED
  BY <1>1, HistoryInvariant, PTL

(* Exactly one version of a history is current (versioning.py:76-90, 113-116). *)
THEOREM OneVersionCurrent == Spec => []OneCurrent
<1>1. HistoryInv => OneCurrent
  <2>1. SUFFICES ASSUME HistoryInv, ~reused, index # <<>>
                 PROVE  Cardinality({i \in DOMAIN index : index[i].current}) = 1
    BY DEF OneCurrent
  <2>2. PICK i \in DOMAIN index : \A j \in DOMAIN index : index[j].current <=> j = i
    BY <2>1 DEF HistoryInv, Marked
  <2>3. {j \in DOMAIN index : index[j].current} = {i}
    BY <2>2
  <2>4. QED
    BY <2>3, FS_Singleton
<1>2. QED
  BY <1>1, HistoryInvariant, PTL

(* An id is given out twice only when the index is full: its length is the      *)
(* number of the next version, and never returns to what it was before           *)
(* (versioning.py:65). *)
THEOREM IdsRepeatOnlyWhenFull == Spec => SameIdOnlyWhenFull
<1>1. HistoryInv /\ [Next]_vars => [reused' /\ ~reused => Len(index) = MaxVersions]_vars
  <2>1. SUFFICES ASSUME HistoryInv, [Next]_vars, reused', ~reused
                 PROVE  Len(index) = MaxVersions
    OBVIOUS
  <2>2. handler # Idle /\ handler.step = "file" /\ handler.id \in Listed
    BY <2>1 DEF Next, vars, GetClient, StartUpdate, StartSnapshot, StartRollback, Begin,
      WriteSnapshot, At, Prune, SaveIndex, WriteUpdate, WriteRollback, MarkCurrent,
      UpdateClientFlags, DashboardPut, Tick, Crash
  <2>3. PICK i \in DOMAIN index : index[i].id = handler.id
    BY <2>2 DEF Listed
  <2>4. handler.id[1] = Len(index) + 1 /\ i \in 1..Len(index) /\ Len(index) \in 0..MaxVersions
    BY <2>1, <2>2, Saving, IndexTypes DEF HistoryInv
  <2>5. Len(index) < MaxVersions => index[i].id[1] = i
    BY <2>1 DEF HistoryInv, Numbers
  <2>6. QED
    BY <2>3, <2>4, <2>5, HistoryAssumption
<1>2. QED
  BY <1>1, HistoryInvariant, PTL DEF Spec, SameIdOnlyWhenFull

(* An update overwrites only what a listed version has, unless the dashboard     *)
(* wrote it meanwhile (config_api.py:96-113). *)
THEOREM UpdatesOverwriteSaved == Spec => NothingOverwrittenUnsaved
<1> DEFINE Overwritten ==
      (handler # Idle /\ handler.kind = "update" /\ live' # live /\ ~edited' /\ ~reused)
        => \/ live = Absent
           \/ \E i \in DOMAIN index : files[index[i].id] = live
<1>1. HistoryInv /\ [Next]_vars => [Overwritten]_vars
  <2>1. SUFFICES ASSUME HistoryInv, [Next]_vars, handler # Idle, handler.kind = "update",
                        live' # live, ~edited', ~reused
                 PROVE  \/ live = Absent
                        \/ \E i \in DOMAIN index : files[index[i].id] = live
    OBVIOUS
  <2>2. handler.step = "live" /\ ~edited
    BY <2>1 DEF Next, vars, GetClient, StartUpdate, StartSnapshot, StartRollback, Begin,
      WriteSnapshot, At, Prune, SaveIndex, WriteUpdate, WriteRollback, MarkCurrent,
      UpdateClientFlags, DashboardPut, Tick, Crash
  <2>3. QED
    BY <2>1, <2>2 DEF HistoryInv, Secured
<1>2. QED
  BY <1>1, HistoryInvariant, PTL DEF Spec, NothingOverwrittenUnsaved

=============================================================================
