------------------------ MODULE SnapshotOutboxProofs ------------------------
(***************************************************************************)
(* A data plane that follows the outbox knows where it is behind, and      *)
(* never goes back: for any number of items, transactions, events, batch   *)
(* size, cleanups, lost responses and restarts.                            *)
(*                                                                         *)
(* The argument follows the newest event of each item.  The data plane is  *)
(* behind on an item only while that event is after its cursor; it is in   *)
(* the outbox, or a cleanup has deleted it and the minimum-cursor check    *)
(* will notice.  Each state of the poller has its own form of this, for    *)
(* what the answer under way will make of the local state.                 *)
(***************************************************************************)
EXTENDS SnapshotOutbox, WellFoundedInduction, TLAPS

\* A transaction that can commit has an id.
WritersHaveIds == \A w \in Writers : tx[w].at = "commit" => tx[w].id \in 1..MaxEvents

\* The newest event of the item has not been deleted.
InOutbox(i) == \E e \in outbox : e.item = i /\ e.id = newest[i]

\* Every copy of an item is of the past, and an answer is not older than the local
\* copy it will replace.
CopiesAreOfThePast ==
    \A i \in Items :
        /\ local.items[i] <= stored[i]
        /\ answer.items[i] <= stored[i]
        /\ answer.loaded[i] <= stored[i]
        /\ pc = "apply" => local.items[i] <= answer.items[i]
        /\ answer.loaded[i] # 0 => local.items[i] <= answer.loaded[i]

\* What the place of the poller says of its request and of the local state.
PollerPlaces ==
    /\ revision >= 1 /\ local.revision <= revision /\ answer.revision <= revision
    /\ pc \in {"cursor", "items", "apply"} =>
          /\ 1 <= answer.revision /\ local.revision <= answer.revision
          /\ IF answer.again THEN local.cursor > 0 ELSE local.cursor = 0
    /\ pc = "gone" => local.cursor > 0
    /\ pc \in {"poll", "min", "rows", "load", "answer"} \/ local.cursor > 0 => local.revision # 0
    /\ pc \notin {"load", "answer"} => \A i \in Items : answer.loaded[i] = 0
    /\ pc # "load" => answer.batch = {}
    /\ pc \in {"min", "rows", "load", "answer"} => local.cursor <= answer.cursor

\* The newest event of the item is there, or a poll with cursor c shows its absence.
Traced(i, c) == InOutbox(i) \/ GapShows(c, outbox)

LocalIsCovered ==
    local.revision # 0 =>
        \A i \in Items : local.items[i] < stored[i] =>
            Lost(i) \/ (newest[i] > local.cursor /\ Traced(i, local.cursor))

\* A full snapshot: the cursor was read before the items.
SnapshotIsCovered ==
    pc = "apply" =>
        \A i \in Items : answer.items[i] < stored[i] =>
            \/ Lost(i)
            \/ /\ newest[i] > answer.cursor /\ newest[i] > local.cursor
               /\ Traced(i, answer.cursor)
               /\ local.cursor = 0 => InOutbox(i)

\* Where the next poll will not look for a hole: with cursor zero, and between
\* CheckMinCursor and ReadRows.
NoHoleIsMissed ==
    /\ local.revision # 0
    /\ \/ pc = "rows"
       \/ local.cursor = 0 /\ pc \in {"poll", "min"}
       \/ local.cursor = 0 /\ answer.cursor = 0 /\ pc \in {"items", "apply"}
    => \A i \in Items : local.items[i] < stored[i] => Lost(i) \/ InOutbox(i)

\* What the data plane will hold once it applies the events loaded so far.
Effective(i) == IF answer.loaded[i] = 0 THEN local.items[i] ELSE answer.loaded[i]

\* A batch: the event is still to be loaded or beyond the cursor of the answer.
BatchIsCovered ==
    pc \in {"load", "answer"} =>
        \A i \in Items : Effective(i) < stored[i] =>
            \/ Lost(i)
            \/ \E e \in answer.batch : e.item = i
            \/ newest[i] > answer.cursor /\ Traced(i, answer.cursor)

Inv ==
    /\ OutboxTypeOK /\ WritersHaveIds /\ CopiesAreOfThePast /\ PollerPlaces
    /\ LocalIsCovered /\ SnapshotIsCovered /\ NoHoleIsMissed /\ BatchIsCovered

-----------------------------------------------------------------------------
(* Smallest and greatest ids.                                              *)

LEMMA MinExists ==
  ASSUME NEW S \in SUBSET Nat, S # {}
  PROVE  Min(S) \in S /\ \A x \in S : Min(S) <= x
<1> DEFINE less == OpToRel(<, Nat)
<1>1. \E x \in S : \A y \in S : ~(<<y, x>> \in less)
  BY WFMin, NatLessThanWellFounded, ZenonT(40)
<1>2. PICK x \in S : \A y \in S : ~(<<y, x>> \in less)
  BY <1>1, ZenonT(40)
<1>3. less = {ss \in Nat \X Nat : ss[1] < ss[2]}
  BY DEF OpToRel
<1> HIDE DEF less
<1>4. \A y \in S : x <= y
  <2> SUFFICES ASSUME NEW y \in S PROVE x <= y
    OBVIOUS
  <2>1. x \in Nat /\ y \in Nat /\ ~(<<y, x>> \in less)
    BY <1>2
  <2>2. ~(y < x)
    BY <1>3, <2>1
  <2> QED BY <2>2
<1> QED BY <1>4, ZenonT(40) DEF Min

LEMMA MaxExists ==
  ASSUME NEW n \in Nat, NEW S \in SUBSET (0..n), S # {}
  PROVE  Max(S) \in S /\ \A x \in S : x <= Max(S)
<1> DEFINE T == {m \in Nat : \E x \in S : m = n - x}
<1>1. T \in SUBSET Nat /\ T # {}
  <2>1. PICK x \in S : TRUE
    BY ZenonT(40)
  <2>2. x \in 0..n /\ n - x \in Nat
    OBVIOUS
  <2>3. n - x \in T
    OBVIOUS
  <2> QED BY <2>3, ZenonT(40)
<1>2. Min(T) \in T /\ \A m \in T : Min(T) <= m
  BY <1>1, MinExists, ZenonT(40)
<1>3. PICK x \in S : Min(T) = n - x
  BY <1>2, ZenonT(40)
<1>4. \A y \in S : x >= y
  <2> SUFFICES ASSUME NEW y \in S PROVE x >= y
    OBVIOUS
  <2>1. y \in 0..n /\ x \in 0..n /\ n - y \in Nat
    OBVIOUS
  <2>2. n - y \in T
    OBVIOUS
  <2>3. n - x <= n - y
    BY <1>2, <1>3
  <2> QED BY <2>3
<1> QED BY <1>4, ZenonT(40) DEF Max

LEMMA MaxOfTwo ==
  ASSUME NEW a \in Nat, NEW b \in Nat
  PROVE  Max({a, b}) = IF a >= b THEN a ELSE b
<1>1. {a, b} \in SUBSET (0..(a + b)) /\ {a, b} # {} /\ a + b \in Nat
  OBVIOUS
<1>2. Max({a, b}) \in {a, b} /\ \A x \in {a, b} : x <= Max({a, b})
  BY MaxExists
<1> QED BY <1>2

\* The high watermark of the outbox.
LEMMA LastIdIsHighest ==
  ASSUME OutboxTypeOK
  PROVE  /\ LastId \in Cursors
         /\ \A e \in outbox : e.id <= LastId
         /\ outbox # {} => LastId > 0
         /\ outbox = {} => LastId = 0
<1> DEFINE S == {e.id : e \in outbox} \cup {0}
<1>1. S \in SUBSET (0..MaxEvents) /\ S # {} /\ MaxEvents \in Nat
  BY OutboxAssumption DEF OutboxTypeOK, Events
<1>2. Max(S) \in S /\ \A x \in S : x <= Max(S)
  BY <1>1, MaxExists, ZenonT(40)
<1>3. LastId = Max(S)
  BY DEF LastId
<1> HIDE DEF S
<1>4. LastId \in S /\ \A x \in S : x <= LastId
  BY <1>2, <1>3
<1> USE DEF S
<1>5. \A e \in outbox : e.id \in 1..MaxEvents
  BY DEF OutboxTypeOK, Events
<1> QED BY <1>1, <1>4, <1>5 DEF Cursors

\* The smallest id left.
LEMMA FirstIdIsLowest ==
  ASSUME OutboxTypeOK, outbox # {}
  PROVE  /\ FirstId \in Nat
         /\ \E e \in outbox : e.id = FirstId
         /\ \A e \in outbox : FirstId <= e.id
<1> DEFINE S == {e.id : e \in outbox}
<1>1. S \in SUBSET Nat /\ S # {}
  BY DEF OutboxTypeOK, Events
<1>2. Min(S) \in S /\ \A x \in S : Min(S) <= x
  BY <1>1, MinExists, ZenonT(40)
<1> QED BY <1>1, <1>2 DEF FirstId

\* The minimum-cursor check looks for the gap.
LEMMA CheckFindsGap ==
  ASSUME OutboxTypeOK
  PROVE  GapShows(local.cursor, outbox) <=> outbox # {} /\ local.cursor + 1 < FirstId
<1>1. local.cursor \in Nat /\ \A e \in outbox : e.id \in Nat
  BY OutboxAssumption DEF OutboxTypeOK, Events, Cursors
<1>2. CASE outbox = {}
  BY <1>2 DEF GapShows
<1>3. CASE outbox # {}
  <2>1. /\ FirstId \in Nat /\ \E e \in outbox : e.id = FirstId
        /\ \A e \in outbox : FirstId <= e.id
    BY <1>3, FirstIdIsLowest
  <2> QED BY <1>1, <1>3, <2>1 DEF GapShows
<1> QED BY <1>2, <1>3

LEMMA MoreHasAtLeast ==
  ASSUME NEW n, NEW T, NEW S \in SUBSET T, AtLeast(n, S)
  PROVE  AtLeast(n, T)
<1>1. PICK f \in [1..n -> S] : \A i, j \in 1..n : f[i] = f[j] => i = j
  BY ZenonT(40) DEF AtLeast
<1>2. f \in [1..n -> T]
  OBVIOUS
<1> QED BY <1>1, <1>2, ZenonT(40) DEF AtLeast

\* A batch is empty only when there is nothing after the cursor, and it holds every
\* event after the cursor up to its last one.
LEMMA BatchIsAPrefix ==
  ASSUME OutboxTypeOK
  PROVE  /\ NextBatch \subseteq {e \in outbox : e.id > local.cursor}
         /\ NextBatch = {} => \A e \in outbox : ~(e.id > local.cursor)
         /\ \A e \in NextBatch, d \in outbox :
                d.id > local.cursor /\ d.id <= e.id => d \in NextBatch
<1> DEFINE rows == {e \in outbox : e.id > local.cursor}
           below(e) == {d \in rows : d.id < e.id}
<1>1. NextBatch = {e \in rows : ~AtLeast(Limit, below(e))}
  BY DEF NextBatch
<1>2. \A e \in outbox : e.id \in Nat
  BY DEF OutboxTypeOK, Events
<1>3. NextBatch = {} => rows = {}
  <2> SUFFICES ASSUME rows # {} PROVE NextBatch # {}
    OBVIOUS
  <2> DEFINE S == {e.id : e \in rows}
  <2>1. S \in SUBSET Nat /\ S # {}
    BY <1>2
  <2>2. Min(S) \in S /\ \A x \in S : Min(S) <= x
    BY <2>1, MinExists, ZenonT(40)
  <2>3. PICK e \in rows : \A d \in rows : e.id <= d.id
    BY <2>2, ZenonT(40)
  <2>4. below(e) = {}
    BY <1>2, <2>3
  <2>5. ~AtLeast(Limit, {})
    BY OutboxAssumption DEF AtLeast
  <2> QED BY <1>1, <2>4, <2>5
<1>4. ASSUME NEW e \in NextBatch, NEW d \in rows, d.id <= e.id PROVE d \in NextBatch
  <2>1. e \in rows /\ e.id \in Nat /\ d.id \in Nat
    BY <1>1, <1>2
  <2>2. below(d) \subseteq below(e)
    BY <1>2, <1>4, <2>1
  <2>3. AtLeast(Limit, below(d)) => AtLeast(Limit, below(e))
    BY <2>2, MoreHasAtLeast
  <2> QED BY <1>1, <2>3
<1> QED BY <1>1, <1>3, <1>4

\* The cursor of a batch is that of its last event.
LEMMA LastOfBatchIsHighest ==
  ASSUME OutboxTypeOK, NextBatch # {}
  PROVE  /\ LastOfBatch(NextBatch) \in Cursors
         /\ LastOfBatch(NextBatch) > local.cursor
         /\ \E e \in NextBatch : e.id = LastOfBatch(NextBatch)
<1> DEFINE S == {e.id : e \in NextBatch}
<1>0. NextBatch \subseteq outbox /\ \A e \in NextBatch : e.id > local.cursor
  BY BatchIsAPrefix
<1>1. S \in SUBSET (0..MaxEvents) /\ S # {} /\ MaxEvents \in Nat
  BY <1>0, OutboxAssumption DEF OutboxTypeOK, Events
<1>2. Max(S) \in S /\ \A x \in S : x <= Max(S)
  BY <1>1, MaxExists, ZenonT(40)
<1>3. PICK e \in NextBatch : e.id = LastOfBatch(NextBatch)
  BY <1>2 DEF LastOfBatch
<1>4. e \in outbox /\ e.id > local.cursor
  BY <1>0
<1> QED BY <1>3, <1>4 DEF OutboxTypeOK, Events, Cursors

-----------------------------------------------------------------------------
(* The control plane.                                                      *)

LEMMA InitInv == Init => Inv
<1> SUFFICES ASSUME Init PROVE Inv
  OBVIOUS
<1> USE DEF Init, Nothing, NoTx, NoAnswer, NoLocal
<1>1. OutboxTypeOK
  <2>1. (CHOOSE i \in Items : TRUE) \in Items /\ MaxEvents \in Nat
    BY OutboxAssumption
  <2>2. 0 \in Cursors /\ nextId \in 1..(MaxEvents + 1)
    BY <2>1 DEF Cursors
  <2>3. tx \in [Writers -> Transaction]
    BY <2>1, <2>2, ZenonT(40) DEF Transaction
  <2>4. local \in [items : [Items -> Nat], revision : Nat, cursor : Cursors]
    BY <2>2
  <2>5. answer \in [again : BOOLEAN, revision : Nat, cursor : Cursors,
                    items : [Items -> Nat], batch : SUBSET Events, loaded : [Items -> Nat]]
    BY <2>2
  <2>6. stored \in [Items -> Nat] /\ newest \in [Items -> Cursors]
    BY <2>2
  <2>7. lastId \in 1..MaxEvents /\ cleanups \in Nat /\ faults \in Nat
    BY OutboxAssumption
  <2> QED BY <2>2, <2>3, <2>7, ZenonT(40) DEF OutboxTypeOK
<1>3. WritersHaveIds /\ CopiesAreOfThePast /\ PollerPlaces
  <2>1. /\ outbox = {} /\ pc = "loop" /\ revision = 1 /\ answer.batch = {}
        /\ local.cursor = 0 /\ answer.cursor = 0 /\ local.revision = 0 /\ answer.revision = 0
        /\ \A w \in Writers : tx[w].at = "idle"
    BY ZenonT(40)
  <2>2. \A i \in Items : /\ stored[i] = 0 /\ newest[i] = 0
                          /\ local.items[i] = 0 /\ answer.items[i] = 0 /\ answer.loaded[i] = 0
    BY ZenonT(40)
  <2> QED BY ONLY <2>1, <2>2 DEF WritersHaveIds, CopiesAreOfThePast, PollerPlaces
<1>4. LocalIsCovered /\ SnapshotIsCovered /\ NoHoleIsMissed /\ BatchIsCovered
  BY DEF LocalIsCovered, SnapshotIsCovered, NoHoleIsMissed, BatchIsCovered
<1> QED BY <1>1, <1>3, <1>4 DEF Inv

\* The conjuncts of the invariant, one by one.
LEMMA InvTypes == Inv => OutboxTypeOK
  BY DEF Inv
LEMMA InvIds == Inv => WritersHaveIds
  BY DEF Inv
LEMMA InvPast == Inv => CopiesAreOfThePast
  BY DEF Inv
LEMMA InvPlaces == Inv => PollerPlaces
  BY DEF Inv
LEMMA InvLocal == Inv => LocalIsCovered
  BY DEF Inv
LEMMA InvSnapshot == Inv => SnapshotIsCovered
  BY DEF Inv
LEMMA InvNoHole == Inv => NoHoleIsMissed
  BY DEF Inv
LEMMA InvBatch == Inv => BatchIsCovered
  BY DEF Inv

\* The numbers an invariant state holds.
LEMMA Numbers ==
  ASSUME Inv
  PROVE  /\ MaxEvents \in Nat /\ 0 \in Cursors
         /\ local.cursor \in Nat /\ answer.cursor \in Nat
         /\ local.revision \in Nat /\ answer.revision \in Nat /\ revision \in Nat
         /\ \A i \in Items :
               /\ newest[i] \in Nat /\ stored[i] \in Nat
               /\ local.items[i] \in Nat /\ answer.items[i] \in Nat /\ answer.loaded[i] \in Nat
  BY OutboxAssumption, InvTypes DEF OutboxTypeOK, Cursors

LEMMA Counters ==
  ASSUME Inv
  PROVE  /\ 0 \in Cursors /\ local.cursor \in Nat /\ answer.cursor \in Nat
  BY Numbers

LEMMA Revisions ==
  ASSUME Inv
  PROVE  local.revision \in Nat /\ answer.revision \in Nat /\ revision \in Nat
  BY Numbers

LEMMA ItemNumbers ==
  ASSUME Inv, NEW i \in Items
  PROVE  /\ newest[i] \in Nat /\ stored[i] \in Nat
         /\ local.items[i] \in Nat /\ answer.items[i] \in Nat /\ answer.loaded[i] \in Nat
  BY Numbers

\* Steps that change neither items, events nor the poller.
LEMMA QuietInv ==
  ASSUME Inv, OutboxTypeOK', WritersHaveIds', revision' >= revision,
         UNCHANGED <<stored, outbox, local, pc, answer, newest, late, missed>>
  PROVE  Inv'
<1>1. CopiesAreOfThePast'
  BY InvPast DEF CopiesAreOfThePast
<1>2. PollerPlaces'
  BY InvPlaces, InvTypes DEF PollerPlaces, OutboxTypeOK
<1>3. LocalIsCovered' /\ SnapshotIsCovered' /\ NoHoleIsMissed' /\ BatchIsCovered'
  BY InvLocal, InvSnapshot, InvNoHole, InvBatch
     DEF LocalIsCovered, SnapshotIsCovered, NoHoleIsMissed, BatchIsCovered, Lost, Traced, InOutbox,
         GapShows, Effective
<1> QED BY <1>1, <1>2, <1>3 DEF Inv

LEMMA ChangeItemInv ==
  ASSUME Inv, NEW w \in Writers, NEW i \in Items, ChangeItem(w, i)
  PROVE  Inv'
<1> USE DEF ChangeItem, BumpRevision, database, history
<1>1. OutboxTypeOK'
  <2>1. 0 \in Cursors /\ (~dirty) \in BOOLEAN
    BY OutboxAssumption DEF Cursors
  <2>2. [at |-> "append", id |-> 0, item |-> i, marks |-> ~dirty] \in Transaction
    BY <2>1 DEF Transaction
  <2>3. tx' \in [Writers -> Transaction]
    BY <2>2, InvTypes DEF OutboxTypeOK
  <2> QED BY <2>3, InvTypes DEF OutboxTypeOK
<1>2. WritersHaveIds'
  BY InvIds DEF WritersHaveIds
<1>3. revision' >= revision
  BY InvTypes DEF OutboxTypeOK
<1> QED BY <1>1, <1>2, <1>3, QuietInv

LEMMA AppendEventInv ==
  ASSUME Inv, NEW w \in Writers, AppendEvent(w)
  PROVE  Inv'
<1> USE DEF AppendEvent, NextEventId, history
<1>0. MaxEvents \in Nat
  BY OutboxAssumption
<1>1. OutboxTypeOK'
  <2>1. nextId \in Cursors /\ nextId' \in 1..(MaxEvents + 1)
    BY <1>0, InvTypes DEF Cursors, OutboxTypeOK
  <2>2. tx[w] \in Transaction
    BY InvTypes DEF OutboxTypeOK
  <2>3. [tx[w] EXCEPT !.at = "commit", !.id = nextId] \in Transaction
    BY <2>1, <2>2, ZenonT(40) DEF Transaction
  <2>4. tx' = [tx EXCEPT ![w] = [tx[w] EXCEPT !.at = "commit", !.id = nextId]]
    BY ZenonT(40)
  <2>5. tx' \in [Writers -> Transaction]
    BY <2>3, InvTypes DEF OutboxTypeOK
  <2> QED BY <2>1, <2>5, InvTypes DEF OutboxTypeOK
<1>5. /\ tx'[w].at = "commit" /\ tx'[w].id = nextId
      /\ \A v \in Writers : v # w => tx'[v] = tx[v]
  BY InvTypes DEF OutboxTypeOK
<1>2. WritersHaveIds'
  <2>1. nextId \in 1..MaxEvents
    BY <1>0, InvTypes DEF OutboxTypeOK
  <2> QED BY <1>5, <2>1, InvIds DEF WritersHaveIds
<1>4. revision' >= revision
  BY InvTypes DEF OutboxTypeOK
<1> QED BY <1>1, <1>2, <1>4, QuietInv

LEMMA RollbackInv ==
  ASSUME Inv, NEW w \in Writers, Rollback(w)
  PROVE  Inv'
<1> USE DEF Rollback, database, history
<1>1. OutboxTypeOK'
  <2>1. (CHOOSE i \in Items : TRUE) \in Items
    BY OutboxAssumption
  <2>2. NoTx \in Transaction
    BY OutboxAssumption DEF NoTx, Transaction, Cursors
  <2>3. tx' \in [Writers -> Transaction]
    BY <2>2, InvTypes DEF OutboxTypeOK
  <2> QED BY <2>3, InvTypes DEF OutboxTypeOK
<1>2. WritersHaveIds'
  BY InvIds DEF NoTx, WritersHaveIds
<1>3. revision' >= revision
  BY InvTypes DEF OutboxTypeOK
<1> QED BY <1>1, <1>2, <1>3, QuietInv

LEMMA FlushRevisionInv == ASSUME Inv, FlushRevision PROVE Inv'
<1> USE DEF FlushRevision, history
<1>0. revision \in Nat /\ revision' = revision + 1 /\ dirty' = FALSE
  BY InvTypes DEF OutboxTypeOK
<1>1. revision' \in Nat /\ revision' >= revision
  BY <1>0
<1>4. dirty' \in BOOLEAN
  BY ZenonT(40)
<1>3. OutboxTypeOK'
  BY <1>4, InvTypes DEF OutboxTypeOK
<1>2. WritersHaveIds'
  BY InvIds DEF WritersHaveIds
<1> QED BY <1>1, <1>2, <1>3, QuietInv

\* What a commit changes: its item has its newest event in the outbox, after every
\* cursor unless the commit is late; another item is traced as before, or lost.
LEMMA CommitEffect ==
  ASSUME Inv, NEW w \in Writers, Commit(w)
  PROVE  \E i \in Items :
           /\ stored'[i] = stored[i] + 1 /\ InOutbox(i)'
           /\ Lost(i)' \/ (newest'[i] > local.cursor /\ newest'[i] > answer.cursor)
           /\ \A j \in Items : j # i =>
                 /\ stored'[j] = stored[j] /\ newest'[j] = newest[j]
                 /\ Lost(j) => Lost(j)'
                 /\ InOutbox(j) => InOutbox(j)'
                 /\ Behind(j) /\ newest[j] > local.cursor =>
                       \/ Lost(j)' \/ InOutbox(j)'
                       \/ /\ GapShows(local.cursor, outbox')
                          /\ pc \in {"apply", "load", "answer"} /\ newest[j] > answer.cursor =>
                                GapShows(answer.cursor, outbox')
<1>0. PICK i \in Items : i = tx[w].item
  BY InvTypes DEF OutboxTypeOK, Transaction
<1> DEFINE e == [id |-> tx[w].id, item |-> i]
<1>1. tx[w].id \in Nat /\ local.cursor \in Nat /\ answer.cursor \in Nat
  BY Counters, InvTypes DEF OutboxTypeOK, Transaction, Cursors
<1>2. stored'[i] = stored[i] + 1 /\ newest'[i] = tx[w].id
  BY <1>0, InvTypes DEF Commit, OutboxTypeOK
<1>3. \A j \in Items : j # i => stored'[j] = stored[j] /\ newest'[j] = newest[j]
  BY <1>0 DEF Commit
<1>4. outbox' = outbox \cup {e} /\ e.item = i /\ e.id = tx[w].id
  BY <1>0 DEF Commit
<1>5. InOutbox(i)' /\ \A j \in Items : j # i /\ InOutbox(j) => InOutbox(j)'
  BY <1>2, <1>3, <1>4, ZenonT(40) DEF InOutbox
<1>6. /\ late' = IF tx[w].id <= local.cursor \/ tx[w].id <= answer.cursor
                  THEN late \cup {i} ELSE late \ {i}
      /\ missed' = (missed \cup {j \in Items : Vanished(j, newest[j], outbox')}) \ {i}
  BY <1>0 DEF Commit
<1>7. \A j \in Items : j # i /\ Lost(j) => Lost(j)'
  BY <1>6 DEF Lost
<1>8. Lost(i)' \/ (newest'[i] > local.cursor /\ newest'[i] > answer.cursor)
  BY <1>1, <1>2, <1>6 DEF Lost
<1>9. ASSUME NEW j \in Items, j # i, Behind(j), newest[j] > local.cursor, ~Lost(j)', ~InOutbox(j)'
      PROVE  /\ GapShows(local.cursor, outbox')
             /\ pc \in {"apply", "load", "answer"} /\ newest[j] > answer.cursor =>
                   GapShows(answer.cursor, outbox')
  <2>1. ~Vanished(j, newest[j], outbox')
    BY <1>6, <1>9 DEF Lost
  <2>2. ~\E d \in outbox' : d.item = j /\ d.id = newest[j]
    BY <1>3, <1>9 DEF InOutbox
  <2> QED BY <1>9, <2>1, <2>2, ZenonT(40) DEF Vanished
<1> QED BY <1>2, <1>3, <1>5, <1>7, <1>8, <1>9

\* What is loaded is not older than what the data plane has.
LEMMA EffectiveIsAhead ==
  ASSUME Inv, NEW i \in Items
  PROVE  Effective(i) < stored[i] => local.items[i] < stored[i]
  BY InvPast, ItemNumbers DEF Effective, CopiesAreOfThePast

LEMMA CommitInv ==
  ASSUME Inv, NEW w \in Writers, Commit(w)
  PROVE  Inv'
<1> DEFINE e == [id |-> tx[w].id, item |-> tx[w].item]
<1>0. MaxEvents \in Nat
  BY OutboxAssumption
<1>1. tx[w].item \in Items /\ tx[w].id \in 1..MaxEvents
  BY InvTypes, InvIds DEF Commit, OutboxTypeOK, Transaction, WritersHaveIds
<1>2. outbox' = outbox \cup {e} /\ e \in Events
  BY <1>1 DEF Commit, Events
<1>4. tx' = [tx EXCEPT ![w] = NoTx] /\ UNCHANGED <<nextId, revision, local, pc, answer>>
  BY DEF Commit
<1>5. tx'[w].at = "idle" /\ \A v \in Writers : v # w => tx'[v] = tx[v]
  BY <1>4, InvTypes DEF OutboxTypeOK, NoTx
<1>6. OutboxTypeOK'
  <2>1. (CHOOSE i \in Items : TRUE) \in Items
    BY OutboxAssumption
  <2>2. NoTx \in Transaction
    BY <2>1, <1>0 DEF NoTx, Transaction, Cursors
  <2>3. tx' \in [Writers -> Transaction]
    BY <1>4, <2>2, InvTypes DEF OutboxTypeOK
  <2>4. stored' \in [Items -> Nat] /\ newest' \in [Items -> Cursors]
    BY <1>1, InvTypes DEF Commit, OutboxTypeOK, Cursors
  <2>6. late' \subseteq Items /\ missed' \subseteq Items
    BY <1>1, InvTypes DEF Commit, OutboxTypeOK
  <2>7. dirty' \in BOOLEAN /\ UNCHANGED <<lastId, cleanups, faults>>
    BY DEF Commit
  <2> QED BY <1>2, <1>4, <2>3, <2>4, <2>6, <2>7, InvTypes DEF OutboxTypeOK
<1>7. WritersHaveIds'
  BY <1>5, InvIds DEF WritersHaveIds
<1>10. PICK i \in Items :
           /\ stored'[i] = stored[i] + 1 /\ InOutbox(i)'
           /\ Lost(i)' \/ (newest'[i] > local.cursor /\ newest'[i] > answer.cursor)
           /\ \A j \in Items : j # i =>
                 /\ stored'[j] = stored[j] /\ newest'[j] = newest[j]
                 /\ Lost(j) => Lost(j)'
                 /\ InOutbox(j) => InOutbox(j)'
                 /\ Behind(j) /\ newest[j] > local.cursor =>
                       \/ Lost(j)' \/ InOutbox(j)'
                       \/ /\ GapShows(local.cursor, outbox')
                          /\ pc \in {"apply", "load", "answer"} /\ newest[j] > answer.cursor =>
                                GapShows(answer.cursor, outbox')
  BY CommitEffect
<1>11. \A j \in Items : stored[j] \in Nat /\ local.items[j] \in Nat /\ answer.items[j] \in Nat
                        /\ answer.loaded[j] \in Nat
  BY InvTypes DEF OutboxTypeOK
<1>12. CopiesAreOfThePast'
  BY <1>4, <1>10, <1>11, InvPast DEF CopiesAreOfThePast
<1>13. PollerPlaces'
  BY <1>4, InvPlaces DEF PollerPlaces
<1>14. LocalIsCovered'
  BY <1>4, <1>10, InvLocal DEF LocalIsCovered, Traced, Behind
<1>15. SnapshotIsCovered'
  BY <1>4, <1>10, InvSnapshot DEF SnapshotIsCovered, Traced, Behind
<1>16. NoHoleIsMissed'
  BY <1>4, <1>10, InvNoHole DEF NoHoleIsMissed
<1>17. BatchIsCovered'
  <2> SUFFICES ASSUME pc \in {"load", "answer"}, NEW j \in Items, Effective(j) < stored'[j],
                      ~Lost(j)', ~\E d \in answer.batch : d.item = j
               PROVE  newest'[j] > answer.cursor /\ Traced(j, answer.cursor)'
    BY <1>4 DEF BatchIsCovered, Effective
  <2>1. CASE j = i
    BY <1>10, <2>1 DEF Traced
  <2>2. CASE j # i
    <3>1. newest[j] > answer.cursor
      BY <1>10, <2>2, InvBatch DEF BatchIsCovered
    <3>2. Behind(j) /\ newest[j] > local.cursor
      BY <1>10, <2>2, <3>1, EffectiveIsAhead, InvPlaces, Counters, ItemNumbers DEF Behind, PollerPlaces
    <3> QED BY <1>4, <1>10, <2>2, <3>1, <3>2 DEF Traced
  <2> QED BY <2>1, <2>2
<1> QED BY <1>6, <1>7, <1>12, <1>13, <1>14, <1>15, <1>16, <1>17 DEF Inv

\* What a cleanup changes: an item whose newest event it takes from the data plane
\* is lost, or the next poll will show the gap.
LEMMA CleanupEffect ==
  ASSUME Inv, NEW left \in SUBSET outbox, CleanupOutbox(left)
  PROVE  /\ outbox' \subseteq outbox
         /\ \A i \in Items : Lost(i) => Lost(i)'
         /\ \A i \in Items : Behind(i) /\ newest[i] > local.cursor =>
               \/ Lost(i)' \/ InOutbox(i)'
               \/ /\ GapShows(local.cursor, outbox') /\ ~Unwatched
                  /\ pc \in {"apply", "load", "answer"} /\ newest[i] > answer.cursor =>
                        GapShows(answer.cursor, outbox')
<1>1. outbox' = left /\ newest' = newest /\ late' = late
  BY DEF CleanupOutbox
<1>2. missed \subseteq missed'
  BY DEF CleanupOutbox
<1>3. ASSUME NEW i \in Items, Behind(i), newest[i] > local.cursor, ~Lost(i)', ~InOutbox(i)'
      PROVE  /\ GapShows(local.cursor, outbox') /\ ~Unwatched
             /\ pc \in {"apply", "load", "answer"} /\ newest[i] > answer.cursor =>
                   GapShows(answer.cursor, outbox')
  <2>1. ~\E e \in left : e.item = i /\ e.id = newest[i]
    BY <1>1, <1>3 DEF InOutbox
  <2>2. i \notin missed'
    BY <1>3 DEF Lost
  <2>3. ~Vanished(i, newest[i], left) /\ ~Unwatched
    BY <1>3, <2>1, <2>2, ZenonT(40) DEF CleanupOutbox
  <2> QED BY <1>1, <1>3, <2>1, <2>3, ZenonT(40) DEF Vanished
<1> QED BY <1>1, <1>2, <1>3 DEF Lost

LEMMA CleanupInv ==
  ASSUME Inv, NEW left \in SUBSET outbox, CleanupOutbox(left)
  PROVE  Inv'
<1>1. UNCHANGED <<stored, nextId, revision, dirty, tx, local, pc, answer, newest, late, lastId,
                  faults>>
  BY ZenonT(40) DEF CleanupOutbox
<1>2. outbox' \subseteq outbox
  BY CleanupEffect
<1>3. OutboxTypeOK'
  <2>1. missed' \subseteq Items /\ cleanups' \in Nat
    BY InvTypes DEF CleanupOutbox, OutboxTypeOK
  <2> QED BY <1>1, <1>2, <2>1, InvTypes DEF OutboxTypeOK
<1>4. WritersHaveIds'
  BY <1>1, InvIds DEF WritersHaveIds
<1>6. CopiesAreOfThePast' /\ PollerPlaces'
  BY <1>1, InvPast, InvPlaces DEF CopiesAreOfThePast, PollerPlaces
<1>7. ASSUME NEW i \in Items, Behind(i), newest[i] > local.cursor
      PROVE  /\ Lost(i)' \/ Traced(i, local.cursor)'
             /\ pc \in {"apply", "load", "answer"} /\ newest[i] > answer.cursor =>
                   Lost(i)' \/ Traced(i, answer.cursor)'
             /\ Unwatched => Lost(i)' \/ InOutbox(i)'
  BY <1>1, <1>7, CleanupEffect DEF Traced
<1>8. \A i \in Items : Lost(i) => Lost(i)'
  BY CleanupEffect
<1>9. /\ local.cursor \in Nat /\ answer.cursor \in Nat
      /\ \A i \in Items : newest[i] \in Nat
  BY InvTypes DEF OutboxTypeOK, Cursors
<1>10. LocalIsCovered'
  BY <1>1, <1>7, <1>8, InvLocal DEF LocalIsCovered, Behind
<1>11. SnapshotIsCovered'
  BY <1>1, <1>7, <1>8, InvSnapshot DEF SnapshotIsCovered, Unwatched, Behind
<1>12. NoHoleIsMissed'
  <2> SUFFICES ASSUME /\ local.revision # 0
                      /\ \/ pc = "rows"
                         \/ local.cursor = 0 /\ pc \in {"poll", "min"}
                         \/ local.cursor = 0 /\ answer.cursor = 0 /\ pc \in {"items", "apply"},
                      NEW i \in Items, local.items[i] < stored[i], ~Lost(i)'
               PROVE  InOutbox(i)'
    BY <1>1 DEF NoHoleIsMissed
  <2>1. Behind(i) /\ newest[i] > local.cursor
    BY <1>8, InvLocal DEF LocalIsCovered, Behind
  <2>2. Unwatched
    BY DEF Unwatched
  <2> QED BY <1>7, <2>1, <2>2
<1>13. BatchIsCovered'
  <2> SUFFICES ASSUME pc \in {"load", "answer"}, NEW i \in Items, Effective(i) < stored[i],
                      ~Lost(i)', ~\E e \in answer.batch : e.item = i
               PROVE  newest[i] > answer.cursor /\ Traced(i, answer.cursor)'
    BY <1>1 DEF BatchIsCovered, Effective
  <2>1. newest[i] > answer.cursor
    BY <1>8, InvBatch DEF BatchIsCovered
  <2>2. Behind(i) /\ newest[i] > local.cursor
    BY <1>9, <2>1, EffectiveIsAhead, InvPlaces DEF PollerPlaces, Behind
  <2> QED BY <1>7, <2>1, <2>2
<1> QED BY <1>3, <1>4, <1>6, <1>10, <1>11, <1>12, <1>13 DEF Inv

-----------------------------------------------------------------------------
(* The poller.                                                             *)

\* What a step of the poller leaves alone.
PollerFrame == UNCHANGED <<stored, outbox, nextId, revision, dirty, tx, newest, late, missed, lastId>>

PollerTypes ==
    /\ local \in [items : [Items -> Nat], revision : Nat, cursor : Cursors]
    /\ pc \in {"loop", "gone", "cursor", "items", "apply", "poll", "min", "rows",
               "load", "answer"}
    /\ answer \in [again : BOOLEAN, revision : Nat, cursor : Cursors,
                   items : [Items -> Nat], batch : SUBSET Events, loaded : [Items -> Nat]]
    /\ cleanups \in Nat /\ faults \in Nat

LEMMA PollerSteps ==
  ASSUME Inv, PollerFrame, PollerTypes', CopiesAreOfThePast', PollerPlaces',
         LocalIsCovered', SnapshotIsCovered', NoHoleIsMissed', BatchIsCovered'
  PROVE  Inv'
<1> USE DEF PollerFrame
<1>1. OutboxTypeOK'
  BY InvTypes DEF OutboxTypeOK, PollerTypes
<1>2. WritersHaveIds'
  BY InvIds DEF WritersHaveIds
<1> QED BY <1>1, <1>2 DEF Inv

LEMMA PollerMarks ==
  ASSUME PollerFrame
  PROVE  \A i \in Items : /\ Lost(i)' <=> Lost(i)
                          /\ InOutbox(i)' <=> InOutbox(i)
                          /\ Traced(i, local.cursor)' <=> Traced(i, local'.cursor)
                          /\ Traced(i, answer.cursor)' <=> Traced(i, answer'.cursor)
<1> USE DEF PollerFrame
<1>1. \A i \in Items : (Lost(i)' <=> Lost(i)) /\ (InOutbox(i)' <=> InOutbox(i))
  BY DEF Lost, InOutbox
<1>2. \A c : GapShows(c, outbox') <=> GapShows(c, outbox)
  OBVIOUS
<1> QED BY <1>1, <1>2 DEF Traced

\* A request that has not come back says nothing of the local state.
LEMMA LocalStays ==
  ASSUME Inv, PollerFrame, UNCHANGED local
  PROVE  LocalIsCovered'
  BY PollerMarks, InvLocal DEF PollerFrame, LocalIsCovered

\* An empty answer says nothing.
LEMMA NoAnswerIsEmpty ==
  ASSUME 0 \in Cursors
  PROVE  /\ NoAnswer \in [again : BOOLEAN, revision : Nat, cursor : Cursors,
                          items : [Items -> Nat], batch : SUBSET Events,
                          loaded : [Items -> Nat]]
         /\ NoAnswer.revision = 0 /\ NoAnswer.cursor = 0 /\ NoAnswer.batch = {}
         /\ \A i \in Items : NoAnswer.items[i] = 0 /\ NoAnswer.loaded[i] = 0
  BY DEF NoAnswer, Nothing

\* Back at the top of the loop with the local state as it was.
LEMMA LoopInv ==
  ASSUME Inv, PollerFrame, UNCHANGED local, pc' = "loop", answer' = NoAnswer,
         cleanups' \in Nat, faults' \in Nat
  PROVE  Inv'
<1>1. PollerTypes'
  BY NoAnswerIsEmpty, InvTypes, Counters
     DEF PollerTypes, PollerFrame, OutboxTypeOK
<1>2. CopiesAreOfThePast'
  BY NoAnswerIsEmpty, InvPast, Counters, ItemNumbers DEF CopiesAreOfThePast, PollerFrame
<1>3. PollerPlaces'
  BY NoAnswerIsEmpty, InvPlaces, Counters, Revisions DEF PollerPlaces, PollerFrame
<1>4. LocalIsCovered' /\ SnapshotIsCovered' /\ NoHoleIsMissed' /\ BatchIsCovered'
  <2>1. LocalIsCovered'
    BY LocalStays
  <2> QED BY <2>1 DEF SnapshotIsCovered, NoHoleIsMissed, BatchIsCovered
<1> QED BY <1>1, <1>2, <1>3, <1>4, PollerSteps

LEMMA RequestFailsInv == ASSUME Inv, RequestFails PROVE Inv'
<1>1. cleanups' \in Nat /\ faults' \in Nat
  BY InvTypes DEF RequestFails, OutboxTypeOK
<1> QED BY <1>1, LoopInv DEF RequestFails, PollerFrame, database, history

LEMMA RestartInv == ASSUME Inv, RestartDataPlane PROVE Inv'
<1>0. PollerFrame /\ pc' = "loop" /\ answer' = NoAnswer /\ local' = NoLocal
  BY DEF RestartDataPlane, PollerFrame, database, history
<1>1. /\ local'.revision = 0 /\ local'.cursor = 0 /\ \A i \in Items : local'.items[i] = 0
      /\ local' \in [items : [Items -> Nat], revision : Nat, cursor : Cursors]
  BY <1>0, Counters DEF NoLocal, Nothing
<1>2. cleanups' \in Nat /\ faults' \in Nat
  BY InvTypes DEF RestartDataPlane, OutboxTypeOK
<1>3. PollerTypes'
  BY <1>0, <1>1, <1>2, NoAnswerIsEmpty, Counters DEF PollerTypes, PollerFrame
<1>4. CopiesAreOfThePast'
  BY <1>0, <1>1, NoAnswerIsEmpty, ItemNumbers DEF CopiesAreOfThePast, PollerFrame
<1>5. PollerPlaces'
  BY <1>0, <1>1, NoAnswerIsEmpty, InvPlaces, Revisions DEF PollerPlaces, PollerFrame
<1>6. LocalIsCovered' /\ SnapshotIsCovered' /\ NoHoleIsMissed' /\ BatchIsCovered'
  BY <1>0, <1>1 DEF LocalIsCovered, SnapshotIsCovered, NoHoleIsMissed, BatchIsCovered
<1> QED BY <1>0, <1>3, <1>4, <1>5, <1>6, PollerSteps

LEMMA ReadRevisionInv == ASSUME Inv, ReadRevision PROVE Inv'
<1>0. /\ PollerFrame /\ pc' = "cursor" /\ UNCHANGED <<local, cleanups, faults>>
      /\ answer' = [NoAnswer EXCEPT !.again = (pc = "gone"), !.revision = revision]
  BY DEF ReadRevision, PollerFrame, database, history
<1>1. /\ answer' \in [again : BOOLEAN, revision : Nat, cursor : Cursors,
                      items : [Items -> Nat], batch : SUBSET Events, loaded : [Items -> Nat]]
      /\ answer'.revision = revision /\ answer'.cursor = 0 /\ answer'.batch = {}
      /\ answer'.again <=> pc = "gone"
      /\ \A i \in Items : answer'.items[i] = 0 /\ answer'.loaded[i] = 0
  BY <1>0, Counters, Revisions, ZenonT(40) DEF NoAnswer, Nothing
<1>3. PollerTypes'
  BY <1>0, <1>1, InvTypes, Counters
     DEF PollerTypes, PollerFrame, OutboxTypeOK
<1>4. CopiesAreOfThePast'
  BY <1>0, <1>1, InvPast, ItemNumbers DEF CopiesAreOfThePast, PollerFrame
<1>5. PollerPlaces'
  BY <1>0, <1>1, InvPlaces, Revisions DEF PollerPlaces, PollerFrame, ReadRevision
<1>6. LocalIsCovered' /\ SnapshotIsCovered' /\ NoHoleIsMissed' /\ BatchIsCovered'
  <2>1. LocalIsCovered'
    BY <1>0, LocalStays
  <2> QED BY <1>0, <2>1 DEF SnapshotIsCovered, NoHoleIsMissed, BatchIsCovered
<1> QED BY <1>0, <1>3, <1>4, <1>5, <1>6, PollerSteps

LEMMA ReadCursorInv == ASSUME Inv, ReadCursor PROVE Inv'
<1>0. /\ PollerFrame /\ pc = "cursor" /\ pc' = "items" /\ UNCHANGED <<local, cleanups, faults>>
      /\ answer' = [answer EXCEPT !.cursor = LastId]
  BY DEF ReadCursor, PollerFrame, database, history
<1>1. /\ LastId \in Cursors
      /\ outbox # {} => LastId > 0
  BY LastIdIsHighest, InvTypes
<1>2. /\ answer' \in [again : BOOLEAN, revision : Nat, cursor : Cursors,
                      items : [Items -> Nat], batch : SUBSET Events, loaded : [Items -> Nat]]
      /\ answer'.cursor = LastId
      /\ answer'.revision = answer.revision /\ answer'.batch = answer.batch
      /\ answer'.again = answer.again
      /\ answer'.items = answer.items /\ answer'.loaded = answer.loaded
  BY <1>0, <1>1, InvTypes DEF OutboxTypeOK
<1>3. PollerTypes'
  BY <1>0, <1>1, InvTypes DEF PollerTypes, PollerFrame, OutboxTypeOK
<1>4. CopiesAreOfThePast'
  BY <1>0, InvPast DEF CopiesAreOfThePast, PollerFrame
<1>5. PollerPlaces'
  BY <1>0, InvPlaces DEF PollerPlaces, PollerFrame
<1>6. LocalIsCovered' /\ SnapshotIsCovered' /\ BatchIsCovered'
  <2>1. LocalIsCovered'
    BY <1>0, LocalStays, ZenonT(40)
  <2> QED BY <1>0, <2>1 DEF SnapshotIsCovered, BatchIsCovered
<1>7. NoHoleIsMissed'
  <2> SUFFICES ASSUME local.revision # 0, answer'.cursor = 0,
                      NEW i \in Items, local.items[i] < stored[i], ~Lost(i)
               PROVE  InOutbox(i)
    BY <1>0, PollerMarks DEF NoHoleIsMissed, PollerFrame
  <2>1. outbox = {}
    BY <1>1, <1>2
  <2> QED BY <2>1, InvLocal DEF LocalIsCovered, Traced, GapShows
<1> QED BY <1>0, <1>3, <1>4, <1>5, <1>6, <1>7, PollerSteps

LEMMA ReadItemsInv == ASSUME Inv, ReadItems PROVE Inv'
<1>0. /\ PollerFrame /\ pc = "items" /\ pc' = "apply" /\ UNCHANGED <<local, cleanups, faults>>
      /\ answer' = [answer EXCEPT !.items = stored]
  BY DEF ReadItems, PollerFrame, database, history
<1>2. /\ answer' \in [again : BOOLEAN, revision : Nat, cursor : Cursors,
                      items : [Items -> Nat], batch : SUBSET Events, loaded : [Items -> Nat]]
      /\ answer'.cursor = answer.cursor /\ answer'.items = stored
      /\ answer'.revision = answer.revision /\ answer'.batch = answer.batch
      /\ answer'.again = answer.again /\ answer'.loaded = answer.loaded
  BY <1>0, InvTypes DEF OutboxTypeOK
<1>3. PollerTypes'
  BY <1>0, InvTypes DEF PollerTypes, PollerFrame, OutboxTypeOK
<1>4. CopiesAreOfThePast'
  BY <1>0, <1>2, InvPast DEF CopiesAreOfThePast, PollerFrame
<1>5. PollerPlaces'
  BY <1>0, InvPlaces DEF PollerPlaces, PollerFrame
<1>6. LocalIsCovered' /\ BatchIsCovered'
  <2>1. LocalIsCovered'
    BY <1>0, LocalStays
  <2> QED BY <1>0, <2>1 DEF BatchIsCovered
<1>7. SnapshotIsCovered'
  BY <1>0, <1>2 DEF PollerFrame, SnapshotIsCovered
<1>8. NoHoleIsMissed'
  BY <1>0, PollerMarks, InvNoHole DEF NoHoleIsMissed, PollerFrame
<1> QED BY <1>0, <1>3, <1>4, <1>5, <1>6, <1>7, <1>8, PollerSteps

LEMMA ApplySnapshotInv == ASSUME Inv, ApplySnapshot PROVE Inv'
<1>0. /\ PollerFrame /\ pc = "apply" /\ answer' = NoAnswer /\ UNCHANGED <<cleanups, faults>>
      /\ pc' = IF answer.again THEN "loop" ELSE "poll"
  BY DEF ApplySnapshot, PollerFrame, database, history
<1>1. CASE IsNewer(answer)
  <2>1. /\ local'.items = answer.items /\ local'.revision = answer.revision
        /\ local'.cursor = answer.cursor
        /\ local' \in [items : [Items -> Nat], revision : Nat, cursor : Cursors]
    BY <1>1, InvTypes DEF ApplySnapshot, OutboxTypeOK
  <2>2. PollerTypes'
    BY <1>0, <2>1, NoAnswerIsEmpty, InvTypes, Counters
       DEF PollerTypes, PollerFrame, OutboxTypeOK
  <2>3. CopiesAreOfThePast'
    BY <1>0, <2>1, NoAnswerIsEmpty, InvPast, Counters, ItemNumbers
       DEF CopiesAreOfThePast, PollerFrame
  <2>4. PollerPlaces'
    BY <1>0, <2>1, NoAnswerIsEmpty, InvPlaces, Counters, Revisions DEF PollerPlaces, PollerFrame
  <2>5. LocalIsCovered'
    BY <1>0, <2>1, PollerMarks, InvSnapshot, ZenonT(40)
       DEF LocalIsCovered, SnapshotIsCovered, PollerFrame
  <2>6. SnapshotIsCovered' /\ BatchIsCovered'
    BY <1>0, ZenonT(40) DEF SnapshotIsCovered, BatchIsCovered
  <2>7. NoHoleIsMissed'
    <3> SUFFICES ASSUME pc' = "poll", NEW i \in Items, answer.items[i] < stored[i], ~Lost(i)
                 PROVE  InOutbox(i)
      BY <1>0, <2>1, PollerMarks DEF NoHoleIsMissed, PollerFrame
    <3>1. local.cursor = 0
      BY <1>0, InvPlaces DEF PollerPlaces
    <3> QED BY <1>0, <3>1, InvSnapshot, ZenonT(40) DEF SnapshotIsCovered
  <2> QED BY <1>0, <2>2, <2>3, <2>4, <2>5, <2>6, <2>7, PollerSteps
<1>2. CASE ~IsNewer(answer)
  <2>1. UNCHANGED local
    BY <1>2 DEF ApplySnapshot
  <2>2. PollerTypes'
    BY <1>0, <2>1, NoAnswerIsEmpty, InvTypes, Counters
       DEF PollerTypes, PollerFrame, OutboxTypeOK
  <2>3. CopiesAreOfThePast'
    BY <1>0, <2>1, NoAnswerIsEmpty, InvPast, Counters, ItemNumbers
       DEF CopiesAreOfThePast, PollerFrame
  <2>8. local.revision = answer.revision /\ answer.revision >= 1
        /\ ~(answer.cursor > local.cursor)
    BY <1>0, <1>2, InvPlaces, Revisions DEF PollerPlaces, IsNewer
  <2>4. PollerPlaces'
    BY <1>0, <2>1, <2>8, NoAnswerIsEmpty, InvPlaces, Counters, Revisions
       DEF PollerPlaces, PollerFrame
  <2>5. LocalIsCovered'
    BY <1>0, <2>1, PollerMarks, InvLocal DEF LocalIsCovered, PollerFrame
  <2>6. SnapshotIsCovered' /\ BatchIsCovered'
    BY <1>0 DEF SnapshotIsCovered, BatchIsCovered
  <2>7. NoHoleIsMissed'
    <3> SUFFICES ASSUME pc' = "poll", NEW i \in Items, local.items[i] < stored[i], ~Lost(i)
                 PROVE  InOutbox(i)
      BY <1>0, <2>1, PollerMarks DEF NoHoleIsMissed, PollerFrame
    <3>1. local.cursor = 0
      BY <1>0, InvPlaces DEF PollerPlaces
    <3>2. answer.cursor = 0 /\ local.revision # 0
      BY <2>8, <3>1, Counters
    <3> QED BY <1>0, <3>1, <3>2, InvNoHole DEF NoHoleIsMissed
  <2> QED BY <1>0, <2>2, <2>3, <2>4, <2>5, <2>6, <2>7, PollerSteps
<1> QED BY <1>1, <1>2

LEMMA ReadHighWatermarkInv == ASSUME Inv, ReadHighWatermark PROVE Inv'
<1> DEFINE high == Max({answer.cursor, LastId, local.cursor})
<1>0. /\ PollerFrame /\ pc \in {"poll", "loop"} /\ pc' = "min" /\ UNCHANGED <<local, cleanups, faults>>
      /\ pc = "poll" \/ local.cursor > 0
      /\ answer' = [answer EXCEPT !.cursor = high]
  BY DEF ReadHighWatermark, PollerFrame, database, history
<1>1. high \in Cursors /\ local.cursor <= high
  <2>1. LastId \in Cursors
    BY LastIdIsHighest, InvTypes
  <2>2. answer.cursor \in Cursors /\ local.cursor \in Cursors
    BY InvTypes DEF OutboxTypeOK
  <2> DEFINE S == {answer.cursor, LastId, local.cursor}
  <2>3. S \in SUBSET (0..MaxEvents) /\ S # {} /\ MaxEvents \in Nat
    BY <2>1, <2>2, Numbers DEF Cursors
  <2>4. Max(S) \in S /\ \A x \in S : x <= Max(S)
    BY <2>3, MaxExists DEF Inv
  <2> QED BY <2>1, <2>2, <2>4
<1> HIDE DEF high
<1>2. /\ answer' \in [again : BOOLEAN, revision : Nat, cursor : Cursors,
                      items : [Items -> Nat], batch : SUBSET Events, loaded : [Items -> Nat]]
      /\ answer'.cursor = high
      /\ answer'.revision = answer.revision /\ answer'.batch = answer.batch
      /\ answer'.items = answer.items /\ answer'.loaded = answer.loaded
  BY <1>0, <1>1, InvTypes DEF OutboxTypeOK
<1>3. PollerTypes'
  BY <1>0, <1>1, InvTypes DEF PollerTypes, PollerFrame, OutboxTypeOK
<1>4. CopiesAreOfThePast'
  BY <1>0, InvPast DEF CopiesAreOfThePast, PollerFrame
<1>5. PollerPlaces'
  BY <1>0, <1>1, InvPlaces DEF PollerPlaces, PollerFrame
<1>6. LocalIsCovered' /\ SnapshotIsCovered' /\ BatchIsCovered'
  <2>1. LocalIsCovered'
    BY <1>0, LocalStays
  <2> QED BY <1>0, <2>1 DEF SnapshotIsCovered, BatchIsCovered
<1>7. NoHoleIsMissed'
  BY <1>0, PollerMarks, InvNoHole DEF NoHoleIsMissed, PollerFrame
<1> QED BY <1>0, <1>3, <1>4, <1>5, <1>6, <1>7, PollerSteps

\* The minimum-cursor check passes only when no newest event is missing.
LEMMA CheckMinCursorInv == ASSUME Inv, CheckMinCursor PROVE Inv'
<1>0. PollerFrame /\ pc = "min" /\ UNCHANGED <<local, cleanups, faults>>
  BY DEF CheckMinCursor, PollerFrame, database, history
<1>1. CASE /\ local.cursor > 0 /\ pc' = "gone" /\ answer' = NoAnswer
  <2>1. PollerTypes'
    BY <1>0, <1>1, NoAnswerIsEmpty, InvTypes, Counters
       DEF PollerTypes, PollerFrame, OutboxTypeOK
  <2>2. CopiesAreOfThePast'
    BY <1>0, <1>1, NoAnswerIsEmpty, InvPast, Counters, ItemNumbers
       DEF CopiesAreOfThePast, PollerFrame
  <2>3. PollerPlaces'
    BY <1>0, <1>1, NoAnswerIsEmpty, InvPlaces, Counters, Revisions DEF PollerPlaces, PollerFrame
  <2>4. LocalIsCovered' /\ SnapshotIsCovered' /\ NoHoleIsMissed' /\ BatchIsCovered'
    <3>1. LocalIsCovered'
      BY <1>0, <1>1, LocalStays
    <3> QED BY <1>0, <1>1, <3>1 DEF SnapshotIsCovered, NoHoleIsMissed, BatchIsCovered
  <2> QED BY <1>0, <2>1, <2>2, <2>3, <2>4, PollerSteps
<1>2. CASE /\ ~(local.cursor > 0 /\ outbox # {} /\ local.cursor + 1 < FirstId)
           /\ pc' = "rows" /\ UNCHANGED answer
  <2>1. PollerTypes'
    BY <1>0, <1>2, InvTypes DEF PollerTypes, PollerFrame, OutboxTypeOK
  <2>2. CopiesAreOfThePast'
    BY <1>0, <1>2, InvPast, ZenonT(40) DEF CopiesAreOfThePast, PollerFrame
  <2>3. PollerPlaces'
    BY <1>0, <1>2, InvPlaces DEF PollerPlaces, PollerFrame
  <2>4. LocalIsCovered' /\ SnapshotIsCovered' /\ BatchIsCovered'
    <3>1. LocalIsCovered'
      BY <1>0, <1>2, LocalStays
    <3> QED BY <1>0, <1>2, <3>1 DEF SnapshotIsCovered, BatchIsCovered
  <2>5. NoHoleIsMissed'
    <3> SUFFICES ASSUME local.revision # 0, NEW i \in Items, local.items[i] < stored[i], ~Lost(i)
                 PROVE  InOutbox(i)
      BY <1>0, PollerMarks, ZenonT(40) DEF NoHoleIsMissed, PollerFrame
    <3>1. CASE local.cursor = 0
      BY <1>0, <3>1, InvNoHole DEF NoHoleIsMissed
    <3>2. CASE local.cursor # 0
      <4>1. Traced(i, local.cursor)
        BY InvLocal DEF LocalIsCovered
      <4>2. ~GapShows(local.cursor, outbox)
        BY <1>2, <3>2, CheckFindsGap, InvTypes, Counters
      <4> QED BY <4>1, <4>2 DEF Traced
    <3> QED BY <3>1, <3>2
  <2> QED BY <1>0, <2>1, <2>2, <2>3, <2>4, <2>5, PollerSteps
<1> QED BY <1>1, <1>2 DEF CheckMinCursor, AfterGone

LEMMA ReadRowsInv == ASSUME Inv, ReadRows PROVE Inv'
<1>0. PollerFrame /\ pc = "rows" /\ UNCHANGED <<local, cleanups, faults>> /\ local.revision # 0
  BY InvPlaces DEF ReadRows, PollerFrame, database, history, PollerPlaces
\* Where the newest event of an item is that the data plane is behind on.
<1>1. ASSUME NEW i \in Items, local.items[i] < stored[i], ~Lost(i)
      PROVE  newest[i] > local.cursor /\ \E e \in outbox : e.item = i /\ e.id = newest[i]
  BY <1>0, <1>1, InvLocal, InvNoHole DEF LocalIsCovered, NoHoleIsMissed, InOutbox
<1>2. CASE NextBatch = {} /\ pc' \in {"poll", "answer"} /\ UNCHANGED answer
  <2>1. PollerTypes'
    BY <1>0, <1>2, InvTypes DEF PollerTypes, PollerFrame, OutboxTypeOK
  <2>2. CopiesAreOfThePast'
    BY <1>0, <1>2, InvPast, ZenonT(40) DEF CopiesAreOfThePast, PollerFrame
  <2>3. PollerPlaces'
    BY <1>0, <1>2, InvPlaces DEF PollerPlaces, PollerFrame
  <2>4. LocalIsCovered' /\ SnapshotIsCovered' /\ NoHoleIsMissed'
    <3>1. LocalIsCovered'
      BY <1>0, <1>2, LocalStays, ZenonT(40)
    <3>2. NoHoleIsMissed'
      BY <1>0, <1>2, PollerMarks, InvNoHole DEF PollerFrame, NoHoleIsMissed
    <3> QED BY <1>0, <1>2, <3>1, <3>2 DEF SnapshotIsCovered
  <2>5. BatchIsCovered'
    <3>1. ASSUME NEW i \in Items, local.items[i] < stored[i] PROVE Lost(i)
      <4> SUFFICES ASSUME ~Lost(i) PROVE FALSE
        OBVIOUS
      <4>1. PICK e \in outbox : e.id > local.cursor
        BY <1>1, <3>1, ZenonT(40)
      <4> QED BY <1>2, <4>1, BatchIsAPrefix, InvTypes
    <3>2. \A i \in Items : Effective(i)' = local.items[i]
      BY <1>0, <1>2, InvPlaces DEF Effective, PollerPlaces
    <3> QED BY <1>0, <3>1, <3>2, PollerMarks, ZenonT(40) DEF BatchIsCovered, PollerFrame
  <2> QED BY <1>0, <2>1, <2>2, <2>3, <2>4, <2>5, PollerSteps
<1>3. CASE /\ NextBatch # {} /\ pc' = "load"
           /\ answer' = [answer EXCEPT !.batch = NextBatch, !.cursor = LastOfBatch(NextBatch)]
  <2> DEFINE last == LastOfBatch(NextBatch)
  <2>1. /\ last \in Cursors /\ last > local.cursor
        /\ \E e \in NextBatch : e.id = last
    BY <1>3, LastOfBatchIsHighest, InvTypes
  <2>2. /\ NextBatch \subseteq {e \in outbox : e.id > local.cursor}
        /\ \A e \in NextBatch, d \in outbox :
               d.id > local.cursor /\ d.id <= e.id => d \in NextBatch
    BY BatchIsAPrefix, InvTypes
  <2> HIDE DEF last
  <2>3. /\ answer' \in [again : BOOLEAN, revision : Nat, cursor : Cursors,
                        items : [Items -> Nat], batch : SUBSET Events, loaded : [Items -> Nat]]
        /\ answer'.cursor = last /\ answer'.batch = NextBatch
        /\ answer'.revision = answer.revision
        /\ answer'.items = answer.items /\ answer'.loaded = answer.loaded
    <3>1. NextBatch \in SUBSET Events
      BY <2>2, InvTypes DEF OutboxTypeOK
    <3> QED BY <1>3, <2>1, <3>1, InvTypes, ZenonT(40) DEF OutboxTypeOK, last
  <2>4. PollerTypes'
    BY <1>0, <1>3, <2>1, <2>3, InvTypes
       DEF PollerTypes, PollerFrame, OutboxTypeOK
  <2>5. CopiesAreOfThePast'
    BY <1>0, <1>3, InvPast DEF CopiesAreOfThePast, PollerFrame
  <2>6. PollerPlaces'
    <3>1. local.cursor <= last
      BY <2>1, Counters DEF Cursors
    <3> QED BY <1>0, <1>3, <2>3, <3>1, InvPlaces DEF PollerPlaces, PollerFrame
  <2>7. LocalIsCovered' /\ SnapshotIsCovered' /\ NoHoleIsMissed'
    <3>1. LocalIsCovered'
      BY <1>0, <1>3, LocalStays
    <3> QED BY <1>0, <1>3, <3>1 DEF SnapshotIsCovered, NoHoleIsMissed
  <2>8. BatchIsCovered'
    <3>1. ASSUME NEW i \in Items, local.items[i] < stored[i], ~Lost(i),
                 ~\E e \in NextBatch : e.item = i
          PROVE  newest[i] > last /\ Traced(i, last)
      <4>1. PICK e \in outbox : e.item = i /\ e.id = newest[i] /\ newest[i] > local.cursor
        BY <1>1, <3>1
      <4>2. PICK l \in NextBatch : l.id = last
        BY <2>1
      <4>3. ~(e.id <= l.id)
        BY <2>2, <3>1, <4>1
      <4>4. last \in Nat
        BY <2>1 DEF Cursors
      <4>5. newest[i] > last
        BY <4>1, <4>2, <4>3, <4>4, ItemNumbers
      <4> QED BY <4>1, <4>5 DEF Traced, InOutbox
    <3>2. \A i \in Items : Effective(i)' = local.items[i]
      BY <1>0, <2>3, InvPlaces, ZenonT(40) DEF Effective, PollerPlaces
    <3> QED BY <1>0, <2>3, <3>1, <3>2, PollerMarks, ZenonT(40) DEF BatchIsCovered, PollerFrame
  <2> QED BY <1>0, <2>4, <2>5, <2>6, <2>7, <2>8, PollerSteps
<1> QED BY <1>2, <1>3 DEF ReadRows

LEMMA LoadItemInv == ASSUME Inv, LoadItem PROVE Inv'
<1>0. PollerFrame /\ pc = "load" /\ UNCHANGED <<local, cleanups, faults>>
  BY DEF LoadItem, PollerFrame, database, history
<1>1. PICK e \in answer.batch :
         /\ answer' = [answer EXCEPT !.batch = @ \ {e}, !.loaded[e.item] = Loaded(e)]
         /\ pc' = IF answer.batch = {e} THEN "answer" ELSE "load"
  BY ZenonT(40) DEF LoadItem
<1>2. e.item \in Items /\ stored[e.item] \in Nat
  BY InvTypes DEF OutboxTypeOK, Events
<1>3. /\ answer' \in [again : BOOLEAN, revision : Nat, cursor : Cursors,
                      items : [Items -> Nat], batch : SUBSET Events, loaded : [Items -> Nat]]
      /\ answer'.cursor = answer.cursor /\ answer'.batch = answer.batch \ {e}
      /\ answer'.revision = answer.revision /\ answer'.items = answer.items
      /\ answer'.loaded[e.item] = stored[e.item]
      /\ \A i \in Items : i # e.item => answer'.loaded[i] = answer.loaded[i]
  BY <1>1, <1>2, InvTypes, ZenonT(40) DEF OutboxTypeOK, Loaded
<1>4. PollerTypes'
  BY <1>0, <1>1, <1>3, InvTypes DEF PollerTypes, PollerFrame, OutboxTypeOK
<1>5. CopiesAreOfThePast'
  BY <1>0, <1>1, <1>2, <1>3, InvPast DEF CopiesAreOfThePast, PollerFrame
<1>6. PollerPlaces'
  BY <1>0, <1>1, InvPlaces DEF PollerPlaces, PollerFrame
<1>7. LocalIsCovered' /\ SnapshotIsCovered' /\ NoHoleIsMissed'
  <2>1. LocalIsCovered'
    BY <1>0, <1>1, LocalStays
  <2> QED BY <1>0, <1>1, <2>1 DEF SnapshotIsCovered, NoHoleIsMissed
<1>8. BatchIsCovered'
  <2>1. Effective(e.item)' = stored[e.item]
    BY <1>0, <1>2, <1>3, InvPast, ItemNumbers DEF Effective, CopiesAreOfThePast
  <2>2. ASSUME NEW i \in Items, i # e.item, Effective(i)' < stored[i], ~Lost(i)
        PROVE  \/ \E d \in answer'.batch : d.item = i
               \/ newest[i] > answer.cursor /\ Traced(i, answer.cursor)
    <3>1. Effective(i)' = Effective(i)
      BY <1>0, <1>3, <2>2 DEF Effective
    <3>2. \/ \E d \in answer.batch : d.item = i
          \/ newest[i] > answer.cursor /\ Traced(i, answer.cursor)
      BY <1>0, <2>2, <3>1, InvBatch, ZenonT(40) DEF BatchIsCovered
    <3> QED BY <1>3, <2>2, <3>2
  <2> SUFFICES ASSUME NEW i \in Items, Effective(i)' < stored[i], ~Lost(i)
               PROVE  \/ \E d \in answer'.batch : d.item = i
                      \/ newest[i] > answer.cursor /\ Traced(i, answer.cursor)
    BY <1>0, <1>3, PollerMarks DEF BatchIsCovered, PollerFrame
  <2> QED BY <2>1, <2>2, ItemNumbers
<1> QED BY <1>0, <1>4, <1>5, <1>6, <1>7, <1>8, PollerSteps

LEMMA ApplyEventsInv == ASSUME Inv, ApplyEvents PROVE Inv'
<1>0. /\ PollerFrame /\ pc = "answer" /\ pc' = "loop" /\ answer' = NoAnswer
      /\ UNCHANGED <<cleanups, faults>>
  BY DEF ApplyEvents, PollerFrame, database, history
<1>1. Max({local.cursor, answer.cursor}) = answer.cursor
  BY <1>0, MaxOfTwo, InvPlaces, Counters DEF PollerPlaces
<1>2. /\ local' \in [items : [Items -> Nat], revision : Nat, cursor : Cursors]
      /\ local'.revision = local.revision /\ local'.cursor = answer.cursor
      /\ \A i \in Items : local'.items[i] = Effective(i)
  BY <1>1, InvTypes, ZenonT(40) DEF ApplyEvents, OutboxTypeOK, Effective
<1>3. PollerTypes'
  BY <1>0, <1>2, NoAnswerIsEmpty, InvTypes, Counters
     DEF PollerTypes, PollerFrame, OutboxTypeOK
<1>4. CopiesAreOfThePast'
  BY <1>0, <1>2, NoAnswerIsEmpty, InvPast, Counters, ItemNumbers
     DEF CopiesAreOfThePast, PollerFrame, Effective
<1>5. PollerPlaces'
  BY <1>0, <1>2, NoAnswerIsEmpty, InvPlaces, Counters, Revisions DEF PollerPlaces, PollerFrame
<1>6. LocalIsCovered'
  BY <1>0, <1>2, PollerMarks, InvBatch, InvPlaces, ZenonT(40)
     DEF PollerFrame, LocalIsCovered, BatchIsCovered, PollerPlaces
<1>7. SnapshotIsCovered' /\ NoHoleIsMissed' /\ BatchIsCovered'
  BY <1>0, ZenonT(40) DEF SnapshotIsCovered, NoHoleIsMissed, BatchIsCovered
<1> QED BY <1>0, <1>3, <1>4, <1>5, <1>6, <1>7, PollerSteps

-----------------------------------------------------------------------------
LEMMA NextInv == Inv /\ [Next]_vars => Inv'
<1> SUFFICES ASSUME Inv, [Next]_vars PROVE Inv'
  OBVIOUS
<1>1. CASE UNCHANGED vars
  <2>1. OutboxTypeOK' /\ WritersHaveIds'
    BY <1>1, InvTypes, InvIds DEF vars, OutboxTypeOK, WritersHaveIds
  <2>2. revision' >= revision
    BY <1>1, InvTypes DEF vars, OutboxTypeOK
  <2> QED BY <1>1, <2>1, <2>2, QuietInv DEF vars
<1>2. CASE Next
  <2>1. CASE PollerStep
    BY <2>1, ReadRevisionInv, ReadCursorInv, ReadItemsInv, ApplySnapshotInv, ReadHighWatermarkInv,
       CheckMinCursorInv, ReadRowsInv, LoadItemInv, ApplyEventsInv DEF PollerStep
  <2> QED
    BY <1>2, <2>1, ChangeItemInv, AppendEventInv, CommitInv, RollbackInv, FlushRevisionInv,
       CleanupInv, RequestFailsInv, RestartInv DEF Next, WriterStep
<1> QED BY <1>1, <1>2

LEMMA InvAlways == SafetySpec => []Inv
  BY InitInv, NextInv, PTL DEF SafetySpec

\* For every number of items, writers, events, cleanups, faults and every batch size:
\* an item the data plane is behind on is announced to it, or lost in one of the two
\* ways Lost names (snapshot_inner, data_plane_snapshot_events, SnapshotPoller::run).
THEOREM AlwaysAnnounced == SafetySpec => []BehindIsPending
<1>1. Inv => BehindIsPending
  <2> SUFFICES ASSUME Inv, NEW i \in Items, local.items[i] < stored[i], local.revision # 0,
                      ~Lost(i)
               PROVE  Pending(i) \/ GoneIsNoticed
    BY DEF BehindIsPending
  <2>1. newest[i] > local.cursor /\ Traced(i, local.cursor)
    BY InvLocal DEF LocalIsCovered
  <2> QED BY <2>1 DEF Traced, InOutbox, Pending, GoneIsNoticed
<1> QED BY <1>1, InvAlways, PTL

\* For every instance: no snapshot and no batch of events takes an item of the data
\* plane back, whatever was read before a concurrent change (load_snapshot_account_by_id
\* reads the account when the event is handed out).
THEOREM DataPlaneNeverGoesBack == SafetySpec => NeverGoesBack
<1>1. ASSUME Inv, [Next]_vars, NEW i \in Items
      PROVE  local'.items[i] >= local.items[i] \/ local'.revision = 0
  <2>1. CASE UNCHANGED local
    BY <1>1, <2>1, ItemNumbers
  <2>2. CASE ApplySnapshot
    BY <1>1, <2>2, InvPast, ItemNumbers DEF ApplySnapshot, CopiesAreOfThePast
  <2>3. CASE ApplyEvents
    <3>1. local'.items[i] = IF answer.loaded[i] = 0 THEN local.items[i] ELSE answer.loaded[i]
      BY <2>3 DEF ApplyEvents
    <3> QED BY <1>1, <3>1, InvPast, ItemNumbers DEF CopiesAreOfThePast
  <2>4. CASE RestartDataPlane
    BY <2>4 DEF RestartDataPlane, NoLocal
  <2> QED
    BY <1>1, <2>1, <2>2, <2>3, <2>4, ZenonT(40)
       DEF Next, WriterStep, PollerStep, ChangeItem, AppendEvent, Commit, Rollback, FlushRevision,
           CleanupOutbox, ReadRevision, ReadCursor, ReadItems, ReadHighWatermark, CheckMinCursor,
           ReadRows, LoadItem, RequestFails, vars
<1>2. Inv /\ [Next]_vars =>
        [\A i \in Items : local'.items[i] >= local.items[i] \/ local'.revision = 0]_vars
  BY <1>1, ZenonT(40)
<1> QED BY <1>2, InvAlways, PTL DEF SafetySpec, NeverGoesBack
=============================================================================
