--------------------------- MODULE NodeData_proofs ---------------------------
(***************************************************************************)
(* What a node's own data goes through, proved for any rows and tables,    *)
(* nodes, generations, crashes, restores and lost reports: the database of *)
(* HotSwap keeps its file, loses no acknowledged row without a reason and  *)
(* never starts with an older one; the counts of TrafficReport are never   *)
(* lost by a swap and never reported too high.                             *)
(***************************************************************************)
EXTENDS HotSwap, TrafficReport, TLAPS

-----------------------------------------------------------------------------
(* HotSwap. *)

\* What a dead process held is gone with it.
DeadHoldsNothing ==
    ~Up => /\ retired = {} /\ swap = NoSwap /\ upload = NoUpload
           /\ \A w \in Write : req[w].st # "held"

\* Retired generations are behind the live one, and only the file of a running
\* swap is ahead of it.
FilesInOrder ==
    /\ \A g \in retired : g < cur
    /\ swap.st = "carry" => cur + 1 \in Gen /\ On(cur + 1)
    /\ Up => \A g \in Gen : On(g) /\ cur < g => g = cur + 1 /\ swap.st = "carry"
    /\ \A g \in Gen : ~On(g) => disk[g].rows = {}

\* The base is missing only while the staged file has not taken its name.
BaseThere ==
    /\ On(0) \/ (phase \in {"down", "moved"} /\ staged[0].from # "none")
    /\ phase = "moved" => staged[0].from # "none"

\* The swap so far: what it saw is still in the old file, and is in the new one
\* for the tables that are done.
Carrying ==
    swap.st = "carry" =>
        /\ Acked \subseteq swap.saw \cup swap.gone \cup exposed
        /\ swap.saw \subseteq disk[cur].rows \ swap.gone
        /\ \A i \in 1..swap.done : \A w \in swap.saw :
             TableOf[w] = Carried[i] => w \in disk[cur + 1].rows

LiveRows == Up => last = cur /\ Acked \subseteq disk[cur].rows \cup exposed

\* n is the generation that a start opens.
Top(n) ==
    /\ n \in Gen
    /\ n # 0 => On(n)
    /\ \A g \in Gen : On(g) => g <= n

Kept(n) == IF n = 0 /\ Restoring THEN {} ELSE disk[n].rows

\* Between two lives of the process, what LiveRows says of the file that the
\* next start will open.
RestingRows ==
    ~Up => \E n \in Gen : Top(n) /\ last <= n /\ Acked \subseteq Kept(n) \cup exposed

IInv ==
    /\ TypeOK /\ DeadHoldsNothing /\ FilesInOrder /\ BaseThere
    /\ LiveFilesStay /\ Carrying /\ LiveRows /\ RestingRows
\* A restore accepted while no generation was ever swapped in lies beside the
\* base, or has become it.
PromiseInv ==
    /\ upload.st = "held" => upload.h <= last
    /\ \A g \in Gen : staged[g].from \in {"none", "restore"}
    /\ phase = "applied" => staged[0].from = "none"
    /\ promised /\ last = 0 =>
         staged[0].from = "restore" \/ (~Up /\ disk[0].from = "restore")
-----------------------------------------------------------------------------
LEMMA Constants ==
    /\ 0 \in Gen /\ Gen \subseteq Nat
    /\ Len(Carried) = 3
    /\ NoFile \in File /\ NoSwap \in Swap /\ NoUpload \in Upload /\ New \in Handler
<1>1. 0 \in Gen /\ Gen \subseteq Nat
  BY HotSwapAssumption DEF Gen
<1>2. Len(Carried) = 3
  BY DEF Carried
<1> QED
  BY <1>1, <1>2 DEF NoFile, File, NoSwap, Swap, NoUpload, Upload, New, Handler

\* Every table of the node's own rows is carried.
LEMMA TablesCarried == \A w \in Write : \E i \in 1..Len(Carried) : TableOf[w] = Carried[i]
<1> SUFFICES ASSUME NEW w \in Write PROVE \E i \in 1..3 : TableOf[w] = Carried[i]
  BY Constants
<1>1. Carried[1] = "devices" /\ Carried[2] = "sessions" /\ Carried[3] = "traffic"
  BY DEF Carried
<1>2. TableOf[w] \in {"devices", "sessions", "traffic"}
  BY HotSwapAssumption
<1> QED
  BY <1>1, <1>2

\* The newest generation is the one above which there is none.
LEMMA NewestIsTop ==
    ASSUME NEW n \in Gen, Top(n)
    PROVE  Newest = n
<1> USE Constants
<1>1. CASE n = 0
  <2>1. ~\E g \in Gen \ {0} : On(g)
    BY <1>1 DEF Top
  <2> QED
    BY <1>1, <2>1 DEF Newest
<1>2. CASE n # 0
  <2>1. n \in Gen \ {0} /\ On(n) /\ \A k \in Gen : On(k) => k <= n
    BY <1>2 DEF Top
  <2>2. \A m \in Gen \ {0} : (On(m) /\ \A k \in Gen : On(k) => k <= m) => m = n
    BY <2>1
  <2>3. Newest \in Gen \ {0} /\ On(Newest) /\ \A k \in Gen : On(k) => k <= Newest
    BY <2>1 DEF Newest
  <2> QED
    BY <2>2, <2>3
<1> QED
  BY <1>1, <1>2

\* A start leaves the generation it opens as the only one, but for the base.
LEMMA OpenNewest ==
    ASSUME IInv, Open
    PROVE  /\ ~Up /\ Applied
           /\ Top(Newest) /\ last <= Newest /\ Acked \subseteq Kept(Newest) \cup exposed
<1>1. ~Up /\ Applied
  BY DEF Open, OpenAt, Applied, Up
<1>2. PICK n \in Gen : Top(n) /\ last <= n /\ Acked \subseteq Kept(n) \cup exposed
  BY <1>1 DEF IInv, RestingRows
<1> QED
  BY <1>1, <1>2, NewestIsTop

-----------------------------------------------------------------------------
LEMMA InitIInv == Init => IInv
<1> SUFFICES ASSUME Init PROVE IInv
  OBVIOUS
<1> USE Constants
<1>0. /\ disk = [g \in Gen |-> IF g = 0 THEN [from |-> "own", rows |-> {}] ELSE NoFile]
      /\ \A g \in Gen : On(g) <=> g = 0
      /\ \A g \in Gen : disk[g].rows = {}
  BY DEF Init, On, NoFile
<1>1. TypeOK
  <2>1. [from |-> "own", rows |-> {}] \in File
    BY DEF File
  <2>2. disk \in [Gen -> File] /\ staged \in [Gen -> File]
    BY <2>1 DEF Init
  <2>3. /\ 0 \in 0..MaxCrash /\ 0 \in 0..MaxStage
    BY HotSwapAssumption
  <2> QED
    BY <2>2, <2>3 DEF Init, TypeOK
<1>2. Acked = {}
  BY DEF Init, Acked, New
<1>3. Top(0) /\ last <= 0
  BY <1>0 DEF Top, Init
<1> QED
  BY <1>0, <1>1, <1>2, <1>3
     DEF Init, IInv, DeadHoldsNothing, FilesInOrder, BaseThere, LiveFilesStay, Carrying,
         LiveRows, RestingRows, Up, NoSwap, New

LEMMA NextTypeOK == IInv /\ [Next]_vars => TypeOK'
<1> SUFFICES ASSUME IInv, [Next]_vars PROVE TypeOK'
  OBVIOUS
<1>0. TypeOK
  BY DEF IInv
<1> USE <1>0
<1> USE Constants, HotSwapAssumption
<1>1. CASE ApplyMove
  BY <1>1 DEF ApplyMove, TypeOK
<1>2. CASE ApplyRename
  BY <1>2 DEF ApplyRename, TypeOK
<1>3. CASE Open
  <2>1. Newest \in Gen
    BY <1>3, OpenNewest DEF Top
  <2>2. [from |-> "own", rows |-> {}] \in File
    BY DEF File
  <2>3. disk' \in [Gen -> File]
    BY <1>3, <2>2 DEF Open, OpenAt, TypeOK
  <2> QED
    BY <1>3, <2>1, <2>3 DEF Open, OpenAt, TypeOK
<1>4. CASE Crash
  <2>1. req' \in [Write -> Handler]
    BY <1>4 DEF Crash, TypeOK, Handler
  <2>2. exposed' \subseteq Write
    BY <1>4 DEF Crash, TypeOK, Acked
  <2>3. crashes' \in 0..MaxCrash
    BY <1>4 DEF Crash, TypeOK
  <2> QED
    BY <1>4, <2>1, <2>2, <2>3 DEF Crash, TypeOK
<1>5. CASE SwapRename
  <2>1. disk[cur].rows \subseteq Write
    BY DEF TypeOK, File
  <2>2. PICK gone \in SUBSET disk[cur].rows :
          swap' = [st |-> "carry", done |-> 0, saw |-> disk[cur].rows \ gone, gone |-> gone]
    BY <1>5 DEF SwapRename
  <2>3. swap' \in Swap
    BY <2>1, <2>2 DEF Swap
  <2> QED
    BY <1>5, <2>3 DEF SwapRename, TypeOK, File
<1>6. CASE SwapCarry
  <2>1. CarryTable(Carried[swap.done + 1]) \subseteq Write
    BY DEF CarryTable, TypeOK, File
  <2>2. disk' \in [Gen -> File]
    BY <1>6, <2>1 DEF SwapCarry, TypeOK, File
  <2>3. swap' \in Swap
    BY <1>6 DEF SwapCarry, TypeOK, Swap
  <2> QED
    BY <1>6, <2>2, <2>3 DEF SwapCarry, TypeOK
<1>7. CASE SwapFail
  BY <1>7 DEF SwapFail, TypeOK
<1>8. CASE SwapStore
  <2>1. swap.gone \subseteq Write /\ swap' \in Swap
    BY <1>8 DEF SwapStore, TypeOK, Swap
  <2>2. cur + 1 \in Gen
    BY <1>8 DEF SwapStore, IInv, FilesInOrder
  <2> QED
    BY <1>8, <2>1, <2>2 DEF SwapStore, TypeOK
<1>9. ASSUME NEW g \in Gen, Retire(g) PROVE TypeOK'
  BY <1>9 DEF Retire, TypeOK
<1>10. ASSUME NEW w \in Write, Take(w) \/ StoreClosed(w) PROVE TypeOK'
  BY <1>10 DEF Take, StoreClosed, TypeOK, Handler
<1>11. ASSUME NEW w \in Write, StoreRow(w) PROVE TypeOK'
  <2>1. disk' \in [Gen -> File]
    BY <1>11 DEF StoreRow, TypeOK, File
  <2>2. req' \in [Write -> Handler]
    BY <1>11 DEF StoreRow, TypeOK, Handler
  <2> QED
    BY <1>11, <2>1, <2>2 DEF StoreRow, TypeOK
<1>12. CASE UploadStart
  BY <1>12 DEF UploadStart, TypeOK, Upload
<1>14. CASE StageRestore
  <2>1. [from |-> "restore", rows |-> {}] \in File
    BY DEF File
  <2> QED
    BY <1>14, <2>1 DEF StageRestore, TypeOK
<1>13. CASE UNCHANGED vars
  BY <1>13 DEF vars, TypeOK
<1> QED
  BY <1>1, <1>2, <1>3, <1>4, <1>5, <1>6, <1>7, <1>8, <1>9, <1>10, <1>11, <1>12, <1>13, <1>14
     DEF Next
-----------------------------------------------------------------------------
(* What each step does to the rest of the invariant. *)

LEMMA ApplySteps ==
    ASSUME IInv, ApplyMove \/ ApplyRename, TypeOK'
    PROVE  IInv'
<1> USE Constants
<1>1. /\ ~Up /\ ~Up' /\ Restoring /\ Restoring' /\ Acked' = Acked
      /\ UNCHANGED <<cur, retired, swap, req, upload, exposed, last>>
      /\ staged[0].from # "none"
  BY DEF ApplyMove, ApplyRename, Up, Restoring, Acked, IInv, BaseThere
<1>2. /\ \A g \in Gen \ {0} : disk'[g] = disk[g] /\ (On(g)' <=> On(g))
      /\ \A g \in Gen : ~On(g)' => disk'[g].rows = {}
  BY DEF ApplyMove, ApplyRename, IInv, TypeOK, On, FilesInOrder, NoFile, BaseThere
<1>3. BaseThere'
  BY <1>1 DEF ApplyMove, ApplyRename, IInv, TypeOK, BaseThere, On
<1>4. DeadHoldsNothing' /\ swap.st = "idle"
  BY <1>1 DEF IInv, DeadHoldsNothing, NoSwap
<1>5. RestingRows'
  <2>1. PICK n \in Gen : Top(n) /\ last <= n /\ Acked \subseteq Kept(n) \cup exposed
    BY <1>1 DEF IInv, RestingRows
  <2>2. Top(n)'
    <3>1. \A g \in Gen : On(g)' => g <= n
      BY <1>2, <2>1 DEF Top, Gen
    <3>2. n # 0 => On(n)'
      BY <1>2, <2>1 DEF Top
    <3> QED
      BY <3>1, <3>2 DEF Top
  <2>3. Kept(n)' = Kept(n)
    BY <1>1, <1>2 DEF Kept
  <2> QED
    BY <1>1, <2>1, <2>2, <2>3 DEF RestingRows
<1> QED
  BY <1>1, <1>2, <1>3, <1>4, <1>5
     DEF IInv, FilesInOrder, LiveFilesStay, Carrying, LiveRows

LEMMA OpenStep ==
    ASSUME IInv, Open, TypeOK'
    PROVE  IInv'
<1> USE Constants
<1>0. PICK n \in Gen : n = Newest
  BY OpenNewest DEF Top
<1>1. /\ ~Up /\ Applied /\ Top(n) /\ last <= n
      /\ Acked \subseteq Kept(n) \cup exposed
  BY <1>0, OpenNewest
<1>2. /\ Up' /\ cur' = n /\ last' = (IF n > last THEN n ELSE last)
      /\ UNCHANGED <<staged, retired, swap, req, upload, exposed>> /\ Acked' = Acked
  BY <1>0 DEF Open, OpenAt, Up, Acked
<1>3. disk' = [g \in Gen |->
                IF g = n /\ ~On(g) THEN [from |-> "own", rows |-> {}]
                ELSE IF 0 < g /\ g < n THEN NoFile ELSE disk[g]]
  BY <1>0 DEF Open, OpenAt, Older
<1>4. retired = {} /\ swap = NoSwap /\ upload = NoUpload
      /\ \A w \in Write : req[w].st # "held"
  BY <1>1 DEF IInv, DeadHoldsNothing
<1>5. n \in Gen /\ n \in Nat /\ \A g \in Gen : On(g) => g <= n
  BY <1>1 DEF Top
<1>6. On(0)
  BY <1>1 DEF IInv, BaseThere, Applied
<1>7. On(n)
  BY <1>1, <1>6 DEF Top
<1>8. /\ On(n)' /\ On(0)' /\ disk'[n] = disk[n]
      /\ \A g \in Gen : On(g)' => On(g)
      /\ \A g \in Gen : ~On(g)' => disk'[g].rows = {}
  BY <1>3, <1>5, <1>6, <1>7 DEF On, NoFile, IInv, FilesInOrder
<1>9. last' = n
  BY <1>1, <1>2, <1>5 DEF IInv, TypeOK
<1>10. LiveRows'
  BY <1>1, <1>2, <1>8, <1>9 DEF LiveRows, Kept
<1>11. FilesInOrder'
  <2>1. ASSUME NEW g \in Gen, On(g)', n < g PROVE FALSE
    <3>1. On(g)
      BY <1>8, <2>1
    <3>2. g <= n /\ g \in Nat
      BY <1>5, <3>1
    <3> QED
      BY <1>5, <2>1, <3>2
  <2> QED
    BY <1>2, <1>4, <1>8, <2>1 DEF FilesInOrder, NoSwap
<1>12. BaseThere'
  BY <1>2, <1>8 DEF BaseThere, Up
<1>13. LiveFilesStay'
  BY <1>2, <1>4, <1>8 DEF LiveFilesStay
<1> QED
  BY <1>2, <1>4, <1>10, <1>11, <1>12, <1>13
     DEF IInv, DeadHoldsNothing, Carrying, RestingRows, NoSwap

LEMMA CrashStep ==
    ASSUME IInv, Crash, TypeOK'
    PROVE  IInv'
<1> USE Constants
<1>1. /\ phase' = "down" /\ ~Up' /\ retired' = {} /\ swap' = NoSwap /\ upload' = NoUpload
      /\ UNCHANGED <<disk, staged, cur, last>>
  BY DEF Crash, Up
<1>2. Acked' = Acked /\ \A w \in Write : req'[w].st # "held"
  BY DEF Crash, Acked, IInv, TypeOK, Handler
<1>3. \A g : On(g)' <=> On(g)
  BY <1>1 DEF On
<1>4. FilesInOrder'
  BY <1>1, <1>3 DEF IInv, FilesInOrder, NoSwap
<1>5. BaseThere'
  BY <1>1, <1>3 DEF Crash, IInv, BaseThere
<1>6. \E n \in Gen : Top(n) /\ last <= n /\ (Acked \subseteq Kept(n) \cup exposed)'
  <2>1. CASE ~Up
    <3>1. PICK n \in Gen : Top(n) /\ last <= n /\ Acked \subseteq Kept(n) \cup exposed
      BY <2>1 DEF IInv, RestingRows
    <3>2. swap.st = "idle"
      BY <2>1 DEF IInv, DeadHoldsNothing, NoSwap
    <3>3. exposed' = IF cur = 0 /\ Restoring THEN Acked ELSE exposed
      BY <3>2 DEF Crash
    <3>4. exposed \subseteq exposed' \/ exposed' = Acked
      BY <3>3
    <3>5. Kept(n) \subseteq Kept(n)'
      BY <1>1 DEF Kept, Restoring, Crash
    <3> QED
      BY <1>2, <3>1, <3>4, <3>5
  <2>2. CASE Up /\ swap.st = "idle"
    <3>0. PICK c \in Gen : c = cur
      BY DEF IInv, TypeOK
    <3>1. exposed' = IF c = 0 /\ Restoring THEN Acked ELSE exposed
      BY <2>2, <3>0 DEF Crash
    <3>2. On(c) /\ last = c /\ Acked \subseteq disk[c].rows \cup exposed
      BY <2>2, <3>0 DEF IInv, LiveFilesStay, LiveRows
    <3>3. Top(c)
      <4>1. \A g \in Gen : ~(On(g) /\ c < g)
        BY <2>2, <3>0 DEF IInv, FilesInOrder
      <4> QED
        BY <3>2, <4>1 DEF Top
    <3>4. Kept(c)' = IF c = 0 /\ Restoring' THEN {} ELSE disk[c].rows
      BY <1>1 DEF Kept
    <3>5. Restoring' => Restoring
      BY <1>1 DEF Restoring
    <3>6. (Acked \subseteq Kept(c) \cup exposed)'
      BY <1>2, <3>1, <3>2, <3>4, <3>5
    <3> QED
      BY <3>2, <3>3, <3>6
  <2>3. CASE Up /\ swap.st = "carry"
    <3>1. /\ cur \in Nat /\ last = cur /\ cur + 1 \in Gen /\ On(cur + 1)
          /\ Top(cur + 1)
      BY <2>3 DEF IInv, LiveRows, TypeOK, FilesInOrder, Top
    <3>2. Acked \subseteq exposed' \cup disk[cur + 1].rows
      BY <2>3 DEF Crash
    <3>3. Kept(cur + 1)' = disk[cur + 1].rows
      BY <1>1, <3>1 DEF Kept
    <3> QED
      BY <1>2, <3>1, <3>2, <3>3, <1>1
  <2>4. swap.st \in {"idle", "carry"}
    BY DEF IInv, TypeOK, Swap
  <2> QED
    BY <2>1, <2>2, <2>3, <2>4
<1>7. RestingRows'
  <2>1. \A n : Top(n)' <=> Top(n)
    BY <1>3 DEF Top
  <2> QED
    BY <1>1, <1>6, <2>1 DEF RestingRows
<1> QED
  BY <1>1, <1>2, <1>4, <1>5, <1>7
     DEF IInv, DeadHoldsNothing, LiveFilesStay, Carrying, LiveRows, NoSwap

\* A swap runs only in a live process.
LEMMA CarryIsUp == IInv /\ swap.st = "carry" => Up /\ cur \in Nat /\ cur + 1 \in Gen
  BY Constants DEF IInv, DeadHoldsNothing, NoSwap, TypeOK, FilesInOrder

\* The steps of a swap before its end write the file ahead only.
LEMMA AheadSteps ==
    ASSUME IInv, SwapRename \/ SwapCarry \/ SwapFail, TypeOK'
    PROVE  IInv'
<1> USE Constants
<1>1. /\ Up /\ Up' /\ cur \in Gen /\ cur \in Nat /\ cur + 1 \in Gen /\ cur + 1 # 0
      /\ UNCHANGED <<staged, cur, retired, phase, req, upload, exposed, last>>
      /\ Acked' = Acked
  BY CarryIsUp DEF SwapRename, SwapCarry, SwapFail, IInv, TypeOK, Up, Acked
<1>2. \A g \in Gen \ {cur + 1} : disk'[g] = disk[g] /\ (On(g)' <=> On(g))
  BY <1>1 DEF SwapRename, SwapCarry, SwapFail, IInv, TypeOK, On
<1>3. \A g \in retired \cup {cur} : g \in Gen /\ g # cur + 1 /\ g <= cur
  BY <1>1 DEF IInv, FilesInOrder, TypeOK
<1>4. LiveFilesStay'
  BY <1>1, <1>2, <1>3 DEF IInv, LiveFilesStay
<1>5. LiveRows'
  BY <1>1, <1>2, <1>3 DEF IInv, LiveRows
<1>6. BaseThere'
  BY <1>1, <1>2 DEF IInv, BaseThere
<1>7. PICK n \in Gen : n = cur + 1
  BY <1>1
<1>8. \/ On(n)' /\ swap'.st = "carry"
      \/ ~On(n)' /\ swap'.st = "idle" /\ disk'[n].rows = {}
  <2>1. CASE SwapRename
    BY <1>7, <2>1 DEF SwapRename, IInv, TypeOK, On
  <2>2. CASE SwapCarry
    <3>1. On(n) /\ swap'.st = "carry"
      BY <1>7, <2>2 DEF SwapCarry, IInv, TypeOK, Swap, FilesInOrder
    <3>2. disk'[n].from = disk[n].from
      BY <1>7, <2>2 DEF SwapCarry, IInv, TypeOK, File
    <3> QED
      BY <3>1, <3>2 DEF On
  <2>3. CASE SwapFail
    BY <1>7, <2>3 DEF SwapFail, IInv, TypeOK, On, NoFile, NoSwap
  <2> QED
    BY <2>1, <2>2, <2>3
<1>10. FilesInOrder'
  <2>1. \A g \in Gen : ~On(g)' => disk'[g].rows = {}
    <3>1. \A g \in Gen \ {n} : ~On(g)' => disk'[g].rows = {}
      BY <1>2, <1>7 DEF IInv, FilesInOrder
    <3> QED
      BY <1>8, <3>1
  <2>2. \A g \in Gen : On(g)' /\ cur < g => g = cur + 1 /\ swap'.st = "carry"
    BY <1>1, <1>2, <1>7, <1>8 DEF IInv, FilesInOrder
  <2>3. \A g \in retired : g < cur
    BY DEF IInv, FilesInOrder
  <2>4. swap'.st = "carry" => On(n)'
    BY <1>8
  <2> QED
    BY <1>1, <1>7, <2>1, <2>2, <2>3, <2>4 DEF FilesInOrder, On
<1>11. Carrying'
  <2>1. CASE SwapRename
    <3>1. PICK gone \in SUBSET disk[cur].rows :
            swap' = [st |-> "carry", done |-> 0, saw |-> disk[cur].rows \ gone, gone |-> gone]
      BY <2>1 DEF SwapRename
    <3>2. Acked \subseteq disk[cur].rows \cup exposed
      BY <1>1 DEF IInv, LiveRows
    <3>3. \A i \in 1..swap'.done : FALSE
      BY <3>1
    <3> QED
      BY <1>1, <1>2, <1>3, <3>1, <3>2, <3>3 DEF Carrying
  <2>2. CASE SwapCarry
    <3> DEFINE t == Carried[swap.done + 1]
    <3>1. /\ swap.st = "carry" /\ swap.done \in 0..3
          /\ swap'.st = "carry" /\ swap'.saw = swap.saw /\ swap'.done = swap.done + 1
          /\ swap'.gone = swap.gone
          /\ disk'[cur + 1].rows = disk[cur + 1].rows \cup CarryTable(t)
      BY <1>1, <2>2 DEF SwapCarry, IInv, TypeOK, Swap
    <3>2. /\ Acked \subseteq swap.saw \cup swap.gone \cup exposed
          /\ swap.saw \subseteq disk[cur].rows \ swap.gone
          /\ \A i \in 1..swap.done : \A w \in swap.saw :
               TableOf[w] = Carried[i] => w \in disk[cur + 1].rows
      BY <3>1 DEF IInv, Carrying
    <3>3. \A w \in swap.saw : TableOf[w] = t => w \in disk'[cur + 1].rows
      BY <3>1, <3>2 DEF CarryTable
    <3>4. \A i \in 1..swap'.done : i \in 1..swap.done \/ i = swap.done + 1
      BY <3>1
    <3>5. \A i \in 1..swap'.done : \A w \in swap.saw :
            TableOf[w] = Carried[i] => w \in disk'[cur + 1].rows
      BY <3>1, <3>2, <3>3, <3>4
    <3> QED
      BY <1>1, <1>2, <1>3, <3>1, <3>2, <3>5 DEF Carrying
  <2>3. CASE SwapFail
    BY <2>3 DEF SwapFail, Carrying, NoSwap
  <2> QED
    BY <2>1, <2>2, <2>3
<1> QED
  BY <1>1, <1>4, <1>5, <1>6, <1>10, <1>11 DEF IInv, DeadHoldsNothing, RestingRows

LEMMA StoreStep ==
    ASSUME IInv, SwapStore, TypeOK'
    PROVE  IInv'
<1> USE Constants
<1>1. /\ swap.st = "carry" /\ swap.done = 3 /\ Up /\ Up' /\ cur \in Nat /\ cur + 1 \in Gen
      /\ cur' = cur + 1 /\ retired' = retired \cup {cur} /\ swap' = NoSwap
      /\ UNCHANGED <<disk, staged, phase, req, upload>> /\ Acked' = Acked
      /\ exposed' = exposed \cup swap.gone
      /\ last' = IF cur + 1 > last THEN cur + 1 ELSE last
  BY CarryIsUp DEF SwapStore, Up, Acked
<1>2. \A g : On(g)' <=> On(g)
  BY <1>1 DEF On
<1>3. last' = cur + 1
  BY <1>1 DEF IInv, LiveRows
<1>4. On(cur + 1) /\ On(cur)
  BY <1>1 DEF IInv, FilesInOrder, LiveFilesStay
<1>5. swap.saw \subseteq disk[cur + 1].rows
  <2>1. \A w \in swap.saw : w \in Write
    BY DEF IInv, TypeOK, Swap
  <2> QED
    BY <1>1, <2>1, TablesCarried DEF IInv, Carrying
<1>6. LiveRows'
  BY <1>1, <1>3, <1>5 DEF LiveRows, IInv, Carrying
<1>7. LiveFilesStay'
  BY <1>1, <1>2, <1>4 DEF LiveFilesStay, IInv
<1>8. FilesInOrder'
  <2>1. \A g \in retired' : g < cur'
    <3>1. \A g \in retired : g \in Nat /\ g < cur
      BY DEF IInv, FilesInOrder, TypeOK
    <3> QED
      BY <1>1, <3>1
  <2>2. \A g \in Gen : ~(On(g)' /\ cur' < g)
    BY <1>1, <1>2 DEF IInv, FilesInOrder
  <2> QED
    BY <1>1, <1>2, <2>1, <2>2 DEF IInv, FilesInOrder, NoSwap
<1>9. BaseThere'
  BY <1>1, <1>2 DEF IInv, BaseThere
<1> QED
  BY <1>1, <1>6, <1>7, <1>8, <1>9 DEF IInv, DeadHoldsNothing, Carrying, RestingRows, NoSwap

LEMMA RetireStep ==
    ASSUME IInv, NEW r \in Gen, Retire(r), TypeOK'
    PROVE  IInv'
<1> USE Constants
<1>1. /\ r \in retired /\ retired' = retired \ {r} /\ Up /\ Up'
      /\ UNCHANGED <<staged, cur, swap, phase, req, upload, exposed, last>> /\ Acked' = Acked
  BY DEF Retire, IInv, DeadHoldsNothing, Up, Acked
<1>2. r < cur /\ cur \in Gen /\ r \in Nat /\ cur \in Nat /\ r # cur /\ r # cur + 1
  <2>1. r < cur /\ cur \in Gen /\ r \in Nat /\ cur \in Nat
    BY <1>1 DEF IInv, FilesInOrder, TypeOK
  <2> QED
    BY <2>1
<1>3. /\ \A g \in Gen \ {r} : disk'[g] = disk[g] /\ (On(g)' <=> On(g))
      /\ On(r)' => On(r)
      /\ ~On(r)' => disk'[r].rows = {}
      /\ r = 0 => disk' = disk
  BY DEF Retire, IInv, TypeOK, On, NoFile, FilesInOrder
<1>4. FilesInOrder'
  <2>1. swap.st = "carry" => cur + 1 \in Gen \ {r}
    BY <1>2 DEF IInv, FilesInOrder
  <2> QED
    BY <1>1, <1>2, <1>3, <2>1 DEF IInv, FilesInOrder
<1>5. BaseThere'
  BY <1>1, <1>3 DEF IInv, BaseThere, On
<1>6. LiveFilesStay'
  <2>1. \A g \in retired' \cup {cur} : g \in Gen \ {r} /\ On(g)
    BY <1>1, <1>2 DEF IInv, LiveFilesStay, TypeOK
  <2> QED
    BY <1>1, <1>3, <2>1 DEF LiveFilesStay
<1>7. Carrying'
  <2>1. CASE swap.st = "carry"
    <3>1. cur \in Gen \ {r} /\ cur + 1 \in Gen \ {r}
      BY <1>2, <2>1 DEF IInv, FilesInOrder
    <3>2. disk'[cur] = disk[cur] /\ disk'[cur + 1] = disk[cur + 1]
      BY <1>3, <3>1
    <3> QED
      BY <1>1, <3>2 DEF IInv, Carrying
  <2> QED
    BY <1>1, <2>1 DEF Carrying
<1>8. LiveRows'
  BY <1>1, <1>2, <1>3 DEF IInv, LiveRows
<1> QED
  BY <1>1, <1>4, <1>5, <1>6, <1>7, <1>8 DEF IInv, DeadHoldsNothing, RestingRows

\* A row is stored in the live file or in a retired one, never ahead.
LEMMA StoreRowStep ==
    ASSUME IInv, NEW w \in Write, StoreRow(w), TypeOK'
    PROVE  IInv'
<1> USE Constants
<1> DEFINE h == req[w].h
<1>1. /\ Up /\ Up' /\ h \in retired \cup {cur} /\ h \in Gen /\ On(h)
      /\ UNCHANGED <<staged, cur, retired, swap, phase, upload, last>>
      /\ \A v \in Write : v # w => req'[v] = req[v]
      /\ req'[w].st = "acked"
  BY DEF StoreRow, IInv, DeadHoldsNothing, Up, LiveFilesStay, TypeOK, Handler
<1>2. Acked' = Acked \cup {w}
  BY <1>1 DEF Acked
<1>3. /\ \A g \in Gen : disk[g].rows \subseteq disk'[g].rows /\ (On(g)' <=> On(g))
      /\ \A g \in Gen : g # h => disk'[g] = disk[g]
      /\ w \in disk'[h].rows
  BY <1>1 DEF StoreRow, IInv, TypeOK, File, On
<1>4. exposed \subseteq exposed' /\ (w \in exposed' \/ (h = cur /\ swap.st # "carry"))
  BY DEF StoreRow
<1> HIDE DEF h
<1>5. cur \in Gen /\ retired \subseteq Gen
  BY DEF IInv, TypeOK
<1>6. FilesInOrder' /\ BaseThere' /\ LiveFilesStay'
  BY <1>1, <1>3, <1>5 DEF IInv, FilesInOrder, BaseThere, LiveFilesStay
<1>7. Carrying'
  BY <1>1, <1>2, <1>3, <1>4, <1>5 DEF IInv, Carrying, FilesInOrder
<1>8. LiveRows'
  BY <1>1, <1>2, <1>3, <1>4, <1>5 DEF IInv, LiveRows
<1> QED
  BY <1>1, <1>6, <1>7, <1>8 DEF IInv, DeadHoldsNothing, RestingRows

LEMMA NextIInv == IInv /\ [Next]_vars => IInv'
<1> SUFFICES ASSUME IInv, [Next]_vars PROVE IInv'
  OBVIOUS
<1>1. TypeOK'
  BY NextTypeOK
<1>2. ASSUME NEW w \in Write, Take(w) \/ StoreClosed(w) PROVE IInv'
  <2>1. /\ UNCHANGED <<disk, staged, cur, retired, swap, phase, upload, exposed, last>>
        /\ Up \/ \E v \in Write : req[v].st = "held"
    BY <1>2 DEF Take, StoreClosed
  <2>2. Up /\ Up'
    BY <2>1 DEF IInv, DeadHoldsNothing, Up
  <2>3. /\ \A v \in Write : v # w => req'[v] = req[v]
        /\ req[w].st # "acked" /\ req'[w].st # "acked"
    BY <1>2 DEF Take, StoreClosed, IInv, TypeOK, Handler
  <2>4. Acked' = Acked
    BY <2>3 DEF Acked
  <2> QED
    BY <1>1, <2>1, <2>2, <2>4 DEF IInv, DeadHoldsNothing, FilesInOrder, BaseThere,
         LiveFilesStay, Carrying, LiveRows, RestingRows, On
<1>3. CASE UploadStart \/ StageRestore
  <2>1. /\ Acked' = Acked /\ Up /\ Up'
        /\ UNCHANGED <<disk, cur, retired, swap, phase, req, exposed, last>>
    BY <1>3 DEF UploadStart, StageRestore, Acked, IInv, DeadHoldsNothing, NoUpload, Up
  <2>2. BaseThere'
    BY <2>1 DEF IInv, BaseThere, Up, On
  <2> QED
    BY <1>1, <2>1, <2>2 DEF IInv, DeadHoldsNothing, FilesInOrder, LiveFilesStay,
         Carrying, LiveRows, RestingRows, On
<1>4. CASE UNCHANGED vars
  <2>1. UNCHANGED <<Acked, Up, Restoring>> /\ \A g : On(g)' <=> On(g)
    BY <1>4 DEF vars, Acked, Up, Restoring, On
  <2>2. \A n : (Top(n)' <=> Top(n)) /\ Kept(n)' = Kept(n)
    BY <1>4, <2>1 DEF vars, Top, Kept
  <2>3. RestingRows'
    BY <1>4, <2>1, <2>2 DEF vars, IInv, RestingRows
  <2> QED
    BY <1>1, <1>4, <2>1, <2>3 DEF vars, IInv, DeadHoldsNothing, FilesInOrder, BaseThere,
         LiveFilesStay, Carrying, LiveRows
<1> QED
  BY <1>1, <1>2, <1>3, <1>4, ApplySteps, OpenStep, CrashStep, AheadSteps, StoreStep,
     RetireStep, StoreRowStep DEF Next

LEMMA SpecIInv == Spec => []IInv
BY InitIInv, NextIInv, PTL DEF Spec

LEMMA NextPromise == IInv /\ PromiseInv /\ [Next]_vars => PromiseInv'
<1> SUFFICES ASSUME IInv, PromiseInv, [Next]_vars PROVE PromiseInv'
  OBVIOUS
<1> USE Constants
<1>0. TypeOK /\ last \in Nat
  BY DEF IInv, TypeOK
<1>1. CASE ApplyMove \/ ApplyRename
  BY <1>0, <1>1 DEF ApplyMove, ApplyRename, PromiseInv, TypeOK, NoFile, Up, IInv, BaseThere
<1>2. CASE Open
  <2>1. ~Up
    BY <1>2, OpenNewest
  <2> QED
    BY <1>2, <2>1 DEF Open, OpenAt, PromiseInv, IInv, DeadHoldsNothing, NoUpload
<1>3. CASE Crash
  BY <1>3 DEF Crash, PromiseInv, NoUpload, Up
<1>4. CASE SwapRename \/ SwapCarry \/ SwapFail
  BY <1>4, CarryIsUp DEF SwapRename, SwapCarry, SwapFail, PromiseInv, Up
<1>5. CASE SwapStore
  <2>1. Up /\ cur \in Nat /\ last' >= last /\ last' \in Nat
    BY <1>0, <1>5, CarryIsUp DEF SwapStore
  <2>2. upload.st = "held" => upload.h \in Nat
    BY DEF IInv, TypeOK, Upload
  <2>3. UNCHANGED <<disk, staged, phase, upload, promised>>
    BY <1>5 DEF SwapStore
  <2>4. last' = 0 => last = 0
    BY <1>0, <2>1
  <2> QED
    BY <1>0, <2>1, <2>2, <2>3, <2>4 DEF PromiseInv, Up
<1>6. ASSUME NEW g \in Gen, Retire(g) PROVE PromiseInv'
  BY <1>6 DEF Retire, PromiseInv, Up, IInv, DeadHoldsNothing
<1>7. ASSUME NEW w \in Write, StoreRow(w) PROVE PromiseInv'
  BY <1>7 DEF StoreRow, PromiseInv, Up, IInv, DeadHoldsNothing
<1>8. ASSUME NEW w \in Write, Take(w) \/ StoreClosed(w) PROVE PromiseInv'
  BY <1>8 DEF Take, StoreClosed, PromiseInv, Up
<1>9. CASE UploadStart
  BY <1>0, <1>9 DEF UploadStart, PromiseInv, Up, IInv, LiveRows, TypeOK
<1>10. CASE StageRestore
  <2>1. Up /\ upload.h \in Gen /\ upload.h \in Nat /\ upload.h <= last
    BY <1>10 DEF StageRestore, PromiseInv, IInv, TypeOK, Upload, DeadHoldsNothing, NoUpload
  <2>2. last = 0 => upload.h = 0
    BY <1>0, <2>1
  <2> QED
    BY <1>0, <1>10, <2>1, <2>2 DEF StageRestore, PromiseInv, TypeOK, NoUpload, Up
<1>11. CASE UNCHANGED vars
  BY <1>11 DEF vars, PromiseInv, Up
<1> QED
  BY <1>1, <1>2, <1>3, <1>4, <1>5, <1>6, <1>7, <1>8, <1>9, <1>10, <1>11 DEF Next

\* The tables, the files on disk and what handlers and uploads hold stay of their types, whatever a
\* crash leaves of a swap, a restore or a start (swap.go SwapFile, backup.go, db.go).
THEOREM FilesTyped == Spec => []TypeOK
BY SpecIInv, PTL DEF IInv

-----------------------------------------------------------------------------
\* The file of the live database, and of every replaced one that handlers may
\* still hold, is on the disk (swap.go SwapFile, retireLater; NewLive).
THEOREM LiveFiles == Spec => []LiveFilesStay
BY SpecIInv, PTL DEF IInv

\* Over any number of swaps, failed swaps, crashes and restores, the live
\* database holds every acknowledged row but those a race explains (local.go
\* carryLocal).
THEOREM RowsKept == Spec => []LossesExplained
<1>1. IInv => LossesExplained
  BY DEF IInv, LiveRows, LossesExplained
<1> QED
  BY <1>1, SpecIInv, PTL

\* A swap that completes has carried every row it saw (local.go carryQueries).
THEOREM SwapCarries == Spec => SwapKeepsWhatItSaw
<1>1. IInv /\ [Next]_vars => [SwapStore => swap.saw \subseteq disk'[cur'].rows]_vars
  <2> SUFFICES ASSUME IInv, SwapStore PROVE swap.saw \subseteq disk'[cur'].rows
    OBVIOUS
  <2>1. /\ swap.st = "carry" /\ swap.done = 3 /\ cur' = cur + 1 /\ disk' = disk
    BY Constants DEF SwapStore
  <2>2. \A w \in swap.saw : w \in Write
    BY DEF IInv, TypeOK, Swap
  <2> QED
    BY <2>1, <2>2, Constants, TablesCarried DEF IInv, Carrying
<1> QED
  BY <1>1, SpecIInv, PTL DEF Spec, SwapKeepsWhatItSaw

\* A restart opens the newest data the node ever had, in a file that is there,
\* also after a crash inside the application of a restore (swap.go NewLive,
\* backup.go ApplyPendingRestore).
THEOREM RestartsForward == Spec => RestartNotOlder
<1>1. IInv /\ [Next]_vars => [Open => cur' >= last /\ On(cur')]_vars
  <2> SUFFICES ASSUME IInv, Open PROVE cur' >= last /\ On(cur')
    OBVIOUS
  <2>1. Applied /\ Top(Newest) /\ last <= Newest /\ cur' = Newest
    BY OpenNewest DEF Open, OpenAt
  <2>2. On(0)
    BY <2>1 DEF IInv, BaseThere, Applied
  <2>3. Newest \in Nat /\ last \in Nat
    BY <2>1, Constants DEF IInv, TypeOK, Top
  <2> QED
    BY <2>1, <2>2, <2>3 DEF Top
<1> QED
  BY <1>1, SpecIInv, PTL DEF Spec, RestartNotOlder

\* On a node that never swapped, such as the master, the start after an accepted
\* restore opens the restored file, however often it crashed on the way
\* (backup.go ApplyPendingRestore, admin_power.go receiveRestore).
THEOREM RestoreApplied == Spec => RestoreAppliedToBase
<1>1. Init => PromiseInv
  BY Constants DEF Init, PromiseInv, NoUpload, NoFile
<1>2. IInv /\ PromiseInv /\ [Next]_vars
      => [Open /\ promised /\ Newest = 0 => disk'[cur'].from = "restore"]_vars
  <2> SUFFICES ASSUME IInv, PromiseInv, Open, promised, Newest = 0
               PROVE  disk'[cur'].from = "restore"
    OBVIOUS
  <2>1. ~Up /\ Applied /\ Top(Newest) /\ last <= 0 /\ cur' = 0
    BY OpenNewest DEF Open, OpenAt
  <2>2. last = 0
    BY <2>1, Constants DEF IInv, TypeOK
  <2>3. disk[0].from = "restore"
    BY <2>1, <2>2 DEF PromiseInv, Applied, IInv, BaseThere, On
  <2>4. disk'[0] = disk[0]
    BY <2>3, Constants DEF Open, OpenAt, Older, On
  <2> QED
    BY <2>1, <2>3, <2>4
<1> QED
  BY <1>1, <1>2, SpecIInv, NextPromise, PTL DEF Spec, RestoreAppliedToBase

-----------------------------------------------------------------------------
(* TrafficReport. *)

USE TrafficAssumption

ReportInv == ReportTypeOK /\ CountCoversTraffic /\ ReportsNeverAhead /\ InFlightBehind

LEMMA NothingTyped == Zero \in Rows /\ NoBeat \in Beat /\ NoSnap \in Snap
BY DEF Zero, Rows, NoBeat, Beat, NoSnap, Snap

\* A count only grows, and what is compared with it stays below.
Grows == \A n \in Node : traffic[n] <= traffic'[n]

\* Every variable keeps its type.
LEMMA ReportTypeStep == ReportTypeOK /\ [ReportNext]_reportVars => ReportTypeOK'
<1> SUFFICES ASSUME ReportTypeOK, [ReportNext]_reportVars PROVE ReportTypeOK'
  OBVIOUS
<1> USE NothingTyped DEF ReportTypeOK
<1>1. ASSUME NEW n \in Node, Pass(n) PROVE ReportTypeOK'
  BY <1>1 DEF Pass, Rows
<1>2. ASSUME NEW n \in Node, BeatStart(n) PROVE ReportTypeOK'
  <2>1. [st |-> "asked", to |-> master, v |-> Reported(n)] \in Beat
    BY DEF Beat, Reported, Rows
  <2>2. traffic[n] \in Nat
    BY DEF Rows
  <2> QED
    BY <1>2, <2>1, <2>2 DEF BeatStart, Rows
<1>3. ASSUME NEW n \in Node, BeatServe(n) PROVE ReportTypeOK'
  <2>1. beat[n].v \in Nat /\ beat[n].to \in Node
    BY DEF Beat
  <2>2. table' \in [Node -> Rows]
    BY <1>3, <2>1 DEF BeatServe, Accept, Rows
  <2> QED
    BY <1>3, <2>2 DEF BeatServe
<1>4. ASSUME NEW n \in Node, BeatLost(n) PROVE ReportTypeOK'
  BY <1>4 DEF BeatLost
<1>5. ASSUME NEW n \in Node, MasterBeat(n) PROVE ReportTypeOK'
  <2>1. Reported(n) \in Nat /\ traffic[n] \in Nat
    BY DEF Reported, Rows
  <2>2. table' \in [Node -> Rows]
    BY <1>5, <2>1 DEF MasterBeat, Accept, Rows
  <2> QED
    BY <1>5, <2>1, <2>2 DEF MasterBeat, Rows
<1>6. ASSUME NEW n \in Node, PullSnapshot(n) PROVE ReportTypeOK'
  <2>1. [st |-> "got", traffic |-> traffic[master], rows |-> table[master]] \in Snap
    BY DEF Snap, Rows
  <2> QED
    BY <1>6, <2>1 DEF PullSnapshot
<1>7. ASSUME NEW n \in Node, PullInstall(n) PROVE ReportTypeOK'
  <2>1. snap[n].traffic \in Nat /\ snap[n].rows \in Rows
    BY DEF Snap
  <2>2. Larger(traffic[n], snap[n].traffic) \in Nat
    BY <2>1 DEF Larger, Rows
  <2> QED
    BY <1>7, <2>1, <2>2 DEF PullInstall, Rows
<1>8. ASSUME NEW n \in Node, Promote(n) PROVE ReportTypeOK'
  BY <1>8 DEF Promote
<1>9. ASSUME NEW n \in Node, Restart(n) PROVE ReportTypeOK'
  BY <1>9 DEF Restart, Rows
<1>10. CASE UNCHANGED reportVars
  BY <1>10 DEF reportVars
<1> QED
  BY <1>1, <1>2, <1>3, <1>4, <1>5, <1>6, <1>7, <1>8, <1>9, <1>10 DEF ReportNext, Beats, Pulls

\* Counts only grow, whatever step is taken.
LEMMA CountsGrow == ReportTypeOK /\ [ReportNext]_reportVars => Grows
<1> SUFFICES ASSUME ReportTypeOK, [ReportNext]_reportVars PROVE Grows
  OBVIOUS
<1>1. \A n \in Node : traffic[n] \in Nat /\ snap[n].traffic \in Nat
  BY DEF ReportTypeOK, Rows, Snap
<1>2. ASSUME UNCHANGED traffic PROVE Grows
  BY <1>1, <1>2 DEF Grows
<1>3. ASSUME NEW n \in Node, Pass(n) PROVE Grows
  BY <1>1, <1>3 DEF Pass, Grows, ReportTypeOK, Rows
<1>4. ASSUME NEW n \in Node, PullInstall(n) PROVE Grows
  BY <1>1, <1>4 DEF PullInstall, Larger, Grows, ReportTypeOK, Rows
<1> QED
  BY <1>2, <1>3, <1>4 DEF ReportNext, Beats, Pulls, reportVars, BeatStart, BeatServe, BeatLost,
     MasterBeat, PullSnapshot, Promote, Restart

\* The inductive step.
LEMMA ReportStep == ReportInv /\ [ReportNext]_reportVars => ReportInv'
<1> SUFFICES ASSUME ReportInv, [ReportNext]_reportVars PROVE ReportInv'
  OBVIOUS
<1>1. ReportTypeOK /\ ReportTypeOK' /\ Grows
  BY ReportTypeStep, CountsGrow DEF ReportInv
<1>2. /\ \A n \in Node : /\ traffic[n] \in Nat /\ traffic'[n] \in Nat
                         /\ passed[n] \in Nat /\ beat[n].v \in Nat /\ snap[n].traffic \in Nat
      /\ \A d, n \in Node : table[d][n] \in Nat /\ snap[d].rows[n] \in Nat
      /\ total \in Nat
  BY <1>1 DEF ReportTypeOK, Rows, Beat, Snap
<1>3. /\ \A d, n \in Node : table[d][n] <= traffic'[n]
      /\ \A n \in Node : beat[n].v <= traffic'[n]
      /\ \A d, n \in Node : snap[d].rows[n] <= traffic'[n]
  BY <1>1, <1>2 DEF ReportInv, ReportsNeverAhead, InFlightBehind, Grows
<1>4. CountCoversTraffic'
  <2>1. ASSUME NEW n \in Node, Pass(n) PROVE CountCoversTraffic'
    BY <2>1, <1>1, <1>2 DEF Pass, ReportInv, CountCoversTraffic, ReportTypeOK, Rows
  <2>2. ASSUME NEW n \in Node, PullInstall(n) PROVE CountCoversTraffic'
    BY <2>2, <1>1, <1>2 DEF PullInstall, Larger, ReportInv, CountCoversTraffic, InFlightBehind,
       ReportTypeOK, Rows
  <2>3. ASSUME UNCHANGED <<traffic, passed, total>> PROVE CountCoversTraffic'
    BY <2>3 DEF ReportInv, CountCoversTraffic
  <2> QED
    BY <2>1, <2>2, <2>3 DEF ReportNext, Beats, Pulls, reportVars, BeatStart, BeatServe, BeatLost,
       MasterBeat, PullSnapshot, Promote, Restart
<1>5. ReportsNeverAhead'
  <2>1. ASSUME UNCHANGED table PROVE ReportsNeverAhead'
    BY <2>1, <1>3 DEF ReportsNeverAhead
  <2>2. ASSUME NEW n \in Node, BeatServe(n) PROVE ReportsNeverAhead'
    <3>1. \A d, m \in Node : \/ table'[d][m] = table[d][m]
                             \/ m = n /\ table'[d][m] = beat[n].v
      BY <2>2, <1>1 DEF BeatServe, Accept, ReportTypeOK, Rows
    <3> QED
      BY <3>1, <1>3 DEF ReportsNeverAhead
  <2>3. ASSUME NEW n \in Node, MasterBeat(n) PROVE ReportsNeverAhead'
    <3>1. \A d, m \in Node : \/ table'[d][m] = table[d][m]
                             \/ m = n /\ table'[d][m] = traffic[n]
      BY <2>3, <1>1 DEF MasterBeat, Accept, Reported, ReportTypeOK, Rows
    <3> QED
      BY <3>1, <1>1, <1>3 DEF ReportsNeverAhead, Grows
  <2>4. ASSUME NEW n \in Node, PullInstall(n) PROVE ReportsNeverAhead'
    <3>1. \A d \in Node : table'[d] = table[d] \/ table'[d] = snap[n].rows
      BY <2>4, <1>1 DEF PullInstall, ReportTypeOK
    <3> QED
      BY <3>1, <1>3 DEF ReportsNeverAhead
  <2> QED
    BY <2>1, <2>2, <2>3, <2>4 DEF ReportNext, Beats, Pulls, reportVars, Pass, BeatStart, BeatLost,
       PullSnapshot, Promote, Restart
<1>6. InFlightBehind'
  <2>1. total <= total'
    BY <1>2 DEF ReportNext, Beats, Pulls, reportVars, Pass, BeatStart, BeatServe, BeatLost, MasterBeat,
       PullSnapshot, PullInstall, Promote, Restart
  <2>2. \A n \in Node : snap[n].traffic <= total'
    BY <1>1, <1>2, <2>1 DEF ReportInv, InFlightBehind, ReportTypeOK
  <2>3. \A n \in Node : beat'[n].v <= traffic'[n]
    <3>1. \A n \in Node : beat'[n].v \in {beat[n].v, 0, traffic[n]}
      BY <1>1 DEF ReportNext, Beats, Pulls, reportVars, Pass, BeatStart, BeatServe, BeatLost, MasterBeat,
         PullSnapshot, PullInstall, Promote, Restart, NoBeat, Reported, ReportTypeOK
    <3> QED
      BY <3>1, <1>1, <1>2, <1>3 DEF Grows
  <2>4. \A d \in Node : \/ snap'[d] = snap[d] \/ snap'[d] = NoSnap
                        \/ snap'[d].traffic = traffic[master] /\ snap'[d].rows = table[master]
    BY <1>1 DEF ReportNext, Beats, Pulls, reportVars, Pass, BeatStart, BeatServe, BeatLost, MasterBeat,
       PullSnapshot, PullInstall, Promote, Restart, ReportTypeOK
  <2>5. \A d \in Node : snap'[d].traffic <= total'
    BY <1>1, <1>2, <2>1, <2>2, <2>4 DEF ReportInv, CountCoversTraffic, NoSnap, ReportTypeOK
  <2>6. \A d, n \in Node : snap'[d].rows[n] <= traffic'[n]
    BY <1>1, <1>2, <1>3, <2>4 DEF NoSnap, Zero, ReportTypeOK
  <2> QED
    BY <2>3, <2>5, <2>6 DEF InFlightBehind
<1> QED
  BY <1>1, <1>4, <1>5, <1>6 DEF ReportInv

\* The whole inductive invariant holds.
LEMMA ReportInvariant == ReportSpec => []ReportInv
<1>1. ReportInit => ReportInv
  <2>1. ReportInit => ReportTypeOK
    BY NothingTyped DEF ReportInit, ReportTypeOK
  <2>2. ReportInit => CountCoversTraffic /\ ReportsNeverAhead /\ InFlightBehind
    BY DEF ReportInit, CountCoversTraffic, ReportsNeverAhead, InFlightBehind, Zero, NoBeat, NoSnap
  <2> QED
    BY <2>1, <2>2 DEF ReportInv
<1> QED
  BY <1>1, ReportStep, PTL DEF ReportSpec

\* Every variable keeps its type.
THEOREM ReportTypeCorrect == ReportSpec => []ReportTypeOK
BY ReportInvariant, PTL DEF ReportInv

\* A node's count is between what passed through it and what passed in all.
THEOREM CountsCover == ReportSpec => []CountCoversTraffic
BY ReportInvariant, PTL DEF ReportInv

\* No database shows more for a node than the node counted.
THEOREM ReportsBehind == ReportSpec => []ReportsNeverAhead
BY ReportInvariant, PTL DEF ReportInv

\* While nothing is lost and nobody promoted, the reports under way go to the master, each with the
\* count that its node remembers, or with none, and then the master has that count already.
ReportsInOrder ==
    Undisturbed => \A n \in Node :
        IF beat[n].st = "asked"
        THEN beat[n].to = master /\ (beat[n].v = sent[n] \/ (beat[n].v = 0 /\ sent[n] <= table[master][n]))
        ELSE sent[n] <= table[master][n]

\* The master puts no snapshots in place.
MasterPullsNothing == Undisturbed => snap[master].st = "idle"

LEMMA OrderStep ==
  ReportInv /\ ReportsInOrder /\ MasterPullsNothing /\ [ReportNext]_reportVars
    => ReportsInOrder' /\ MasterPullsNothing'
<1> SUFFICES ASSUME ReportInv, ReportsInOrder, MasterPullsNothing, [ReportNext]_reportVars
             PROVE  ReportsInOrder' /\ MasterPullsNothing'
  OBVIOUS
<1>1. /\ ReportTypeOK /\ master \in Node /\ losses \in Nat /\ promotes \in Nat
      /\ \A n \in Node : /\ sent[n] \in Nat /\ traffic[n] \in Nat /\ beat[n].v \in Nat
                         /\ beat[n].st \in {"idle", "asked"} /\ table[master][n] \in Nat
      /\ \A d, n \in Node : table[d][n] \in Nat
  BY DEF ReportInv, ReportTypeOK, Rows, Beat
<1>2. SUFFICES ASSUME Undisturbed' PROVE ReportsInOrder' /\ MasterPullsNothing'
  BY DEF ReportsInOrder, MasterPullsNothing
<1>3. Undisturbed /\ master' = master /\ losses' = losses
  BY <1>1, <1>2 DEF Undisturbed, ReportNext, Beats, Pulls, reportVars, Pass, BeatStart, BeatServe, BeatLost,
     MasterBeat, PullSnapshot, PullInstall, Promote, Restart
<1>4. MasterPullsNothing'
  BY <1>1, <1>3 DEF MasterPullsNothing, ReportNext, Beats, Pulls, reportVars, Pass, BeatStart, BeatServe,
     BeatLost, MasterBeat, PullSnapshot, PullInstall, Promote, Restart, NoSnap, ReportTypeOK
<1>5. ASSUME UNCHANGED <<sent, beat, table>> PROVE ReportsInOrder'
  BY <1>3, <1>5 DEF ReportsInOrder
<1>6. ASSUME NEW n \in Node, BeatStart(n) PROVE ReportsInOrder'
  <2>1. /\ table' = table /\ sent' = [sent EXCEPT ![n] = traffic[n]] /\ beat[n].st = "idle"
        /\ beat' = [beat EXCEPT ![n] = [st |-> "asked", to |-> master, v |-> Reported(n)]]
    BY <1>6 DEF BeatStart
  <2>2. sent[n] <= table[master][n]
    BY <1>3, <2>1 DEF ReportsInOrder
  <2>3. /\ beat'[n].st = "asked" /\ beat'[n].to = master /\ beat'[n].v = Reported(n) /\ sent'[n] = traffic[n]
        /\ \A m \in Node \ {n} : beat'[m] = beat[m] /\ sent'[m] = sent[m]
    BY <1>1, <2>1 DEF ReportTypeOK, Rows
  <2>4. Reported(n) = traffic[n] \/ (Reported(n) = 0 /\ traffic[n] = sent[n])
    BY DEF Reported
  <2> QED
    BY <1>3, <2>1, <2>2, <2>3, <2>4 DEF ReportsInOrder
<1>7. ASSUME NEW n \in Node, BeatServe(n) PROVE ReportsInOrder'
  <2>1. beat[n].st = "asked" /\ beat' = [beat EXCEPT ![n] = NoBeat] /\ sent' = sent /\ beat[n].to = master
    BY <1>3, <1>7 DEF BeatServe, ReportsInOrder
  <2>2. /\ \A m \in Node \ {n} : table'[master][m] = table[master][m] /\ beat'[m] = beat[m]
        /\ table'[master][n] = IF beat[n].v = 0 THEN table[master][n] ELSE beat[n].v
        /\ beat'[n].st = "idle"
    BY <1>1, <1>7, <2>1 DEF BeatServe, Accept, ReportTypeOK, Rows, NoBeat
  <2>3. sent[n] <= table'[master][n]
    BY <1>1, <1>3, <2>1, <2>2 DEF ReportsInOrder
  <2> QED
    BY <1>3, <2>1, <2>2, <2>3 DEF ReportsInOrder
<1>8. ASSUME NEW n \in Node, MasterBeat(n) PROVE ReportsInOrder'
  <2>1. /\ n = master /\ beat[n].st = "idle" /\ beat' = beat /\ sent' = [sent EXCEPT ![n] = traffic[n]]
    BY <1>8 DEF MasterBeat
  <2>2. /\ \A m \in Node \ {n} : table'[master][m] = table[master][m] /\ sent'[m] = sent[m]
        /\ table'[master][n] = IF Reported(n) = 0 THEN table[master][n] ELSE Reported(n)
        /\ sent'[n] = traffic[n]
    BY <1>1, <1>8, <2>1 DEF MasterBeat, Accept, ReportTypeOK, Rows
  <2>3. sent[n] <= table[master][n]
    BY <1>3, <2>1 DEF ReportsInOrder
  <2>4. traffic[n] <= table'[master][n]
    BY <1>1, <2>2, <2>3 DEF Reported
  <2> QED
    BY <1>3, <2>1, <2>2, <2>4 DEF ReportsInOrder
<1>9. ASSUME NEW n \in Node, PullInstall(n) PROVE ReportsInOrder'
  <2>1. n # master /\ table' = [table EXCEPT ![n] = snap[n].rows] /\ beat' = beat /\ sent' = sent
    BY <1>3, <1>9 DEF PullInstall, MasterPullsNothing
  <2>2. table'[master] = table[master]
    BY <1>1, <2>1 DEF ReportTypeOK
  <2> QED
    BY <1>3, <2>1, <2>2 DEF ReportsInOrder
<1>10. ASSUME NEW n \in Node, Restart(n) PROVE ReportsInOrder'
  <2>1. /\ table' = table /\ sent'[n] = 0 /\ beat'[n].st = "idle"
        /\ \A m \in Node \ {n} : beat'[m] = beat[m] /\ sent'[m] = sent[m]
    BY <1>1, <1>10 DEF Restart, ReportTypeOK, Rows, NoBeat
  <2> QED
    BY <1>1, <1>3, <2>1 DEF ReportsInOrder
<1>11. ASSUME NEW n \in Node, BeatLost(n) PROVE FALSE
  BY <1>1, <1>3, <1>11 DEF BeatLost
<1> QED
  BY <1>4, <1>5, <1>6, <1>7, <1>8, <1>9, <1>10, <1>11 DEF ReportNext, Beats, Pulls, reportVars, Pass,
     PullSnapshot, Promote

\* Until a report is lost or sent to a master that was replaced, no node takes a count for reported that
\* the master does not have or is about to get, so that leaving out a count sent before
\* (heartbeat.go report) loses nothing, whatever snapshots and restarts come between.
THEOREM NothingForgotten == ReportSpec => [](SentArrives /\ RestIsAgreement)
<1>1. ReportInit => ReportsInOrder /\ MasterPullsNothing
  BY DEF ReportInit, ReportsInOrder, MasterPullsNothing, Zero, NoBeat, NoSnap
<1>2. ReportsInOrder => SentArrives
  BY DEF ReportsInOrder, SentArrives, Arrives
<1>3. ReportInv /\ ReportsInOrder => RestIsAgreement
  <2> SUFFICES ASSUME ReportInv, ReportsInOrder, Undisturbed, NothingToSend PROVE Agree
    BY DEF RestIsAgreement
  <2>0. \A n \in Node : traffic[n] \in Nat /\ table[master][n] \in Nat
    BY DEF ReportInv, ReportTypeOK, Rows
  <2>1. \A n \in Node : traffic[n] <= table[master][n] /\ table[master][n] <= traffic[n]
    BY DEF ReportsInOrder, NothingToSend, ReportInv, ReportTypeOK, ReportsNeverAhead
  <2> QED
    BY <2>0, <2>1 DEF Agree
<1> QED
  BY <1>1, <1>2, <1>3, ReportInvariant, OrderStep, PTL DEF ReportSpec
=============================================================================
