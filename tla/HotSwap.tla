------------------------------ MODULE HotSwap ------------------------------
(***************************************************************************)
(* The database file of one node: hot swaps, restarts and restores.        *)
(*                                                                         *)
(* Every snapshot a replica receives becomes a file of its own, generation *)
(* gen+1 of the base file (generation 0); the node's own rows are carried  *)
(* over table by table, the live pointer is switched, and the old file is  *)
(* removed after a grace period (swap.go, local.go).  At a start the node  *)
(* applies a staged restore to the base file (backup.go) and then opens    *)
(* the newest generation it finds (swap.go NewLive).                       *)
(*                                                                         *)
(* A write is one local row (a device, a session, a traffic delta) that a  *)
(* handler stores through the database handle it took before.  A snapshot  *)
(* may lack the token of a row (the master went back to an older backup):  *)
(* such rows stay behind.  Files that passed ValidateSnapshot stay valid.  *)
(***************************************************************************)
EXTENDS Naturals, Sequences, FiniteSets

CONSTANTS
    Write,      \* local rows the node will store
    TableOf,    \* the table of each
    MaxGen,     \* bound: generations; 0 for a node that never swaps (the master)
    MaxCrash,   \* bound: crashes
    MaxStage    \* bound: restores staged

\* carryQueries, in the order they run.
Carried == <<"devices", "sessions", "traffic">>

ASSUME HotSwapAssumption ==
    /\ TableOf \in [Write -> {"devices", "sessions", "traffic"}]
    /\ MaxGen \in Nat /\ MaxCrash \in Nat /\ MaxStage \in Nat

VARIABLES
    disk,       \* the files by generation, 0 the base
    staged,     \* the ".restore" file beside each generation
    cur,        \* the generation the live pointer names (in memory)
    retired,    \* generations replaced but still open
    swap,       \* SwapFile in progress
    phase,      \* of the process: "down", "moved", "applied", "up"
    req,        \* the handler that stores each write
    upload,     \* the restore being uploaded: the generation it will lie beside
    crashes, stages,
    exposed,    \* history: acknowledged rows that a swap may have missed or left behind
    last,       \* history: the newest generation that was ever live
    promised    \* history: a restore was accepted and no start has followed

vars == <<disk, staged, cur, retired, swap, phase, req, upload, crashes, stages,
          exposed, last, promised>>

Gen == 0..MaxGen
NoFile == [from |-> "none", rows |-> {}]
File == [from : {"none", "own", "master", "restore"}, rows : SUBSET Write]

\* gone: the rows whose token the snapshot has not; saw: the others there were at the start
NoSwap == [st |-> "idle", done |-> 0, saw |-> {}, gone |-> {}]
Swap == [st : {"idle", "carry"}, done : 0..Len(Carried), saw : SUBSET Write, gone : SUBSET Write]

New == [st |-> "new", h |-> 0]
NoUpload == [st |-> "idle", h |-> 0]
Handler == [st : {"new", "held", "acked", "failed"}, h : Gen]
Upload == [st : {"idle", "held"}, h : Gen]

On(g) == disk[g].from # "none"
Acked == {w \in Write : req[w].st = "acked"}
Up == phase = "up"

\* Wrong: the oldest snapshot is taken.
NewestReversed == IF \E g \in Gen \ {0} : On(g)
                  THEN CHOOSE g \in Gen \ {0} : On(g) /\ \A k \in Gen \ {0} : On(k) => g <= k
                  ELSE 0

\* latestGeneration: the newest snapshot file, or the base.
Newest == IF \E g \in Gen \ {0} : On(g)
          THEN CHOOSE g \in Gen \ {0} : On(g) /\ \A k \in Gen : On(k) => k <= g
          ELSE 0

Init ==
    /\ disk = [g \in Gen |-> IF g = 0 THEN [from |-> "own", rows |-> {}] ELSE NoFile]
    /\ staged = [g \in Gen |-> NoFile]
    /\ cur = 0 /\ retired = {}
    /\ swap = NoSwap
    /\ phase = "down"
    /\ req = [w \in Write |-> New]
    /\ upload = NoUpload
    /\ crashes = 0 /\ stages = 0
    /\ exposed = {} /\ last = 0 /\ promised = FALSE

-----------------------------------------------------------------------------
(* Start: ApplyPendingRestore, then NewLive. *)

\* Wrong: the staged file is cleared away with the journals of the old base.
ApplyMoveClears ==
    /\ phase = "down" /\ staged[0].from # "none"
    /\ disk' = [disk EXCEPT ![0] = NoFile]
    /\ staged' = [staged EXCEPT ![0] = NoFile]
    /\ phase' = "moved"
    /\ UNCHANGED <<cur, retired, swap, req, upload, crashes, stages, exposed, last, promised>>

\* The base is moved away to ".prev" (if there is one) ...
ApplyMove ==
    /\ phase = "down" /\ staged[0].from # "none"
    /\ disk' = [disk EXCEPT ![0] = NoFile]
    /\ phase' = "moved"
    /\ UNCHANGED <<staged, cur, retired, swap, req, upload, crashes, stages, exposed, last, promised>>

\* ... and the staged file takes its name.
ApplyRename ==
    /\ phase = "moved"
    /\ disk' = [disk EXCEPT ![0] = staged[0]]
    /\ staged' = [staged EXCEPT ![0] = NoFile]
    /\ phase' = "applied"
    /\ UNCHANGED <<cur, retired, swap, req, upload, crashes, stages, exposed, last, promised>>

OpenAt(ready, stale) ==
    /\ ready
    /\ phase' = "up"
    /\ cur' = Newest
    /\ disk' = [g \in Gen |->
                 IF g = Newest /\ ~On(g) THEN [from |-> "own", rows |-> {}]
                 ELSE IF g \in stale THEN NoFile ELSE disk[g]]
    /\ last' = IF Newest > last THEN Newest ELSE last
    /\ promised' = FALSE
    /\ UNCHANGED <<staged, retired, swap, req, upload, crashes, stages, exposed>>

Older == {g \in Gen : 0 < g /\ g < Newest}
Applied == phase = "applied" \/ (phase = "down" /\ staged[0].from = "none")

\* Wrong: the opened snapshot is dropped too.
OpenDropsCurrent == OpenAt(Applied, (Older \cup {Newest}) \ {0})

\* NewLive: open the newest generation (an absent file is created empty) and
\* drop the older snapshots; the base file is never dropped.
Open == OpenAt(Applied, Older)

Restoring == staged[0].from # "none" \/ phase \in {"moved", "applied"}

\* The process dies anywhere, in a start or in a swap. Rows a swap had not
\* carried yet may be missing from the generation the next start opens; rows of
\* a base replaced by a restore are gone on purpose.
Crash ==
    /\ phase # "down" /\ crashes < MaxCrash
    /\ phase' = "down"
    /\ crashes' = crashes + 1
    /\ retired' = {} /\ swap' = NoSwap /\ upload' = NoUpload
    /\ req' = [w \in Write |-> IF req[w].st = "held" THEN [st |-> "failed", h |-> 0] ELSE req[w]]
    /\ exposed' = IF cur = 0 /\ Restoring THEN Acked
                  ELSE IF swap.st = "carry" THEN exposed \cup (Acked \ disk[cur + 1].rows)
                  ELSE exposed
    /\ UNCHANGED <<disk, staged, cur, stages, last, promised>>

-----------------------------------------------------------------------------
(* SwapFile, under the mutex of Live. *)

SwapRename ==
    /\ Up /\ swap.st = "idle" /\ cur + 1 \in Gen
    /\ disk' = [disk EXCEPT ![cur + 1] = [from |-> "master", rows |-> {}]]
    /\ \E gone \in SUBSET disk[cur].rows :
          swap' = [st |-> "carry", done |-> 0, saw |-> disk[cur].rows \ gone, gone |-> gone]
    /\ UNCHANGED <<staged, cur, retired, phase, req, upload, crashes, stages, exposed, last, promised>>

\* Wrong: the rows are carried from the base file.
CarryFromBase(t) == {w \in disk[0].rows : TableOf[w] = t}

\* Each query of carryLocal is a statement of its own; it takes the rows whose token is
\* in the snapshot.
CarryTable(t) == {w \in disk[cur].rows \ swap.gone : TableOf[w] = t}

SwapCarry ==
    /\ swap.st = "carry" /\ swap.done < Len(Carried)
    /\ disk' = [disk EXCEPT ![cur + 1].rows = @ \cup CarryTable(Carried[swap.done + 1])]
    /\ swap' = [swap EXCEPT !.done = @ + 1]
    /\ UNCHANGED <<staged, cur, retired, phase, req, upload, crashes, stages, exposed, last, promised>>

\* A query or the opening of the new file fails: the node keeps the old one.
SwapFail ==
    /\ swap.st = "carry"
    /\ disk' = [disk EXCEPT ![cur + 1] = NoFile]
    /\ swap' = NoSwap
    /\ UNCHANGED <<staged, cur, retired, phase, req, upload, crashes, stages, exposed, last, promised>>

SwapStore ==
    /\ swap.st = "carry" /\ swap.done = Len(Carried)
    /\ cur' = cur + 1
    /\ retired' = retired \cup {cur}
    /\ swap' = NoSwap
    /\ last' = IF cur + 1 > last THEN cur + 1 ELSE last
    /\ exposed' = exposed \cup swap.gone
    /\ UNCHANGED <<disk, staged, phase, req, upload, crashes, stages, promised>>

\* After retireAfter: close, and remove the file unless it is the base.
Retire(g) ==
    /\ g \in retired
    /\ retired' = retired \ {g}
    /\ disk' = IF g # 0 THEN [disk EXCEPT ![g] = NoFile] ELSE disk
    /\ UNCHANGED <<staged, cur, swap, phase, req, upload, crashes, stages, exposed, last, promised>>

-----------------------------------------------------------------------------
(* Handlers: sqliteOf takes the live database, the statement runs later. *)

Take(w) ==
    /\ Up /\ req[w].st = "new"
    /\ req' = [req EXCEPT ![w] = [st |-> "held", h |-> cur]]
    /\ UNCHANGED <<disk, staged, cur, retired, swap, phase, upload, crashes, stages, exposed, last, promised>>

StoreRow(w) ==
    /\ req[w].st = "held" /\ req[w].h \in retired \cup {cur}
    /\ disk' = [disk EXCEPT ![req[w].h].rows = @ \cup {w}]
    /\ req' = [req EXCEPT ![w].st = "acked"]
    /\ exposed' = IF req[w].h # cur \/ swap.st = "carry" THEN exposed \cup {w} ELSE exposed
    /\ UNCHANGED <<staged, cur, retired, swap, phase, upload, crashes, stages, last, promised>>

\* "database is closed".
StoreClosed(w) ==
    /\ req[w].st = "held" /\ req[w].h \notin retired \cup {cur}
    /\ req' = [req EXCEPT ![w].st = "failed"]
    /\ UNCHANGED <<disk, staged, cur, retired, swap, phase, upload, crashes, stages, exposed, last, promised>>

\* receiveRestore takes the handle, reads the body, and stages the file beside
\* the file of that handle.
UploadStart ==
    /\ Up /\ upload.st = "idle" /\ stages < MaxStage
    /\ upload' = [st |-> "held", h |-> cur]
    /\ stages' = stages + 1
    /\ UNCHANGED <<disk, staged, cur, retired, swap, phase, req, crashes, exposed, last, promised>>

StageRestore ==
    /\ upload.st = "held"
    /\ staged' = [staged EXCEPT ![upload.h] = [from |-> "restore", rows |-> {}]]
    /\ upload' = NoUpload
    /\ promised' = TRUE
    /\ UNCHANGED <<disk, cur, retired, swap, phase, req, crashes, stages, exposed, last>>

-----------------------------------------------------------------------------
Next ==
    \/ ApplyMove \/ ApplyRename \/ Open \/ Crash
    \/ SwapRename \/ SwapCarry \/ SwapFail \/ SwapStore
    \/ \E g \in Gen : Retire(g)
    \/ \E w \in Write : Take(w) \/ StoreRow(w) \/ StoreClosed(w)
    \/ UploadStart \/ StageRestore

Spec == Init /\ [][Next]_vars

-----------------------------------------------------------------------------
TypeOK ==
    /\ disk \in [Gen -> File] /\ staged \in [Gen -> File]
    /\ cur \in Gen /\ retired \subseteq Gen /\ last \in Gen
    /\ swap \in Swap
    /\ phase \in {"down", "moved", "applied", "up"}
    /\ req \in [Write -> Handler] /\ upload \in Upload
    /\ crashes \in 0..MaxCrash /\ stages \in 0..MaxStage
    /\ exposed \subseteq Write /\ promised \in BOOLEAN

\* The live database always has its file, whatever is retired, dropped or
\* replaced meanwhile; files of retired databases are there while handlers may
\* still write to them.
LiveFilesStay == Up => \A g \in retired \cup {cur} : On(g)

\* A completed swap carries every local row that was there when it began and whose token
\* the snapshot has (local.go: a replica must not lose its accounting at the rate of updates).
SwapKeepsWhatItSaw == [][SwapStore => swap.saw \subseteq disk'[cur'].rows]_vars

\* Over any number of swaps, failures, retirements and restarts the live
\* database holds every acknowledged row, but for those stored while a swap was
\* running or through a retired handle, those not yet carried at a crash, and
\* those whose token a snapshot had not.
LossesExplained == Up /\ swap.st = "idle" => Acked \subseteq disk[cur].rows \cup exposed

\* A restart never goes back behind a generation that was live before (swap.go
\* genSuffix: the node comes up on the last data it received), and never creates an
\* empty database, as after a crash in the middle of applying a restore (backup.go
\* RestoreSuffix).
RestartNotOlder == [][Open => cur' >= last /\ On(cur')]_vars

\* On a node whose base was never replaced (the master), an accepted restore
\* is what the next start opens, whatever crash interrupts applying it.
RestoreAppliedToBase == [][Open /\ promised /\ Newest = 0 => disk'[cur'].from = "restore"]_vars

\* So it is on every node (admin_power.go receiveRestore answers so).
RestoreTakesEffect == [][Open /\ promised => disk'[cur'].from = "restore"]_vars

\* Two statements of the comments that no run lists: local rows survive a
\* restart (sqlite.go, table traffic), and the swap they raced with (local.go
\* carryLocal). TLC refutes both; LossesExplained is what is true of them.
RestartKeepsRows == [][Open /\ ~promised => disk[cur].rows \subseteq disk'[cur'].rows]_vars
SwapKeepsAcked == Up => Acked \subseteq disk[cur].rows
=============================================================================
