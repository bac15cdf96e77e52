------------------------ MODULE PersonalStoreProofs ------------------------
(***************************************************************************)
(* Proofs about the write-through of PersonalStore, for any number of      *)
(* concurrent calls, failing writes and restarts.                          *)
(***************************************************************************)
EXTENDS PersonalStore, TLAPS

Where == {"idle", "write", "bump", "purge", "purged", "mark", "check", "lock",
          "export", "revision", "store", "publish", "send"}

\* A call that holds persist_lock; one whose generation is marked; one whose
\* maps are written.
Holding == {"export", "revision", "store", "publish", "send"}
Marked == {"check", "lock"} \cup Holding
Written == {"bump", "mark"} \cup Marked

Exports == [maps: Contents, revision: Nat, pending: Nat]

Types ==
    /\ maps \in Contents /\ acked \in Contents
    /\ revision \in Nat /\ generation \in Nat /\ persisted \in Nat
    /\ lock \in BOOLEAN
    /\ row \in [maps: Contents, revision: Nat]
    /\ pc \in [Callers -> Where]
    /\ op \in [Callers -> [kind: AllKinds, id: Changes, before: Nat]]
    /\ at \in [Callers -> 1..2]
    /\ export \in [Callers -> Exports]
    /\ calls \in 0..MaxCalls

\* Call m changes map t.
Writes(m, t) ==
    \E i \in DOMAIN WriteOrder[op[m].kind] : WriteOrder[op[m].kind][i] = t

\* The contents c of the maps include the change of call m.
Covers(c, m) == \A t \in Maps : Writes(m, t) => op[m].id \in c[t]

\* One call holds the lock.
OneHolder ==
    /\ \A m \in Callers : pc[m] \in Holding => lock
    /\ \A m, n \in Callers : pc[m] \in Holding /\ pc[n] \in Holding => m = n

\* A call that writes has written the maps before the one it is at.
InOrder(m) ==
    /\ pc[m] = "write" =>
           /\ op[m].kind # "list"
           /\ at[m] <= Len(WriteOrder[op[m].kind])
           /\ \A i \in 1..2 : i < at[m] => op[m].id \in maps[WriteOrder[op[m].kind][i]]
    /\ pc[m] \in {"purge", "purged"} => op[m].kind = "list"
    /\ pc[m] \notin {"write", "export"} => at[m] = 1
    /\ pc[m] \in Written => Covers(maps, m)

WritesInOrder == \A m \in Callers : InOrder(m)

\* Memory is ahead of the row.
MemoryIsAhead ==
    /\ \A t \in Maps : row.maps[t] \subseteq maps[t]
    /\ row.revision <= revision

\* The maps the holder of the lock has read.
HasRead(h, t) ==
    \/ pc[h] = "export" /\ t = "accounts" /\ at[h] = 2
    \/ pc[h] \in {"revision", "store"}

\* What the holder has read is at least what the row has, and has its own
\* change. If no call was marked since the lock was taken, it has the change
\* of every marked call.
ExportIsAhead ==
    \A h \in Callers :
        /\ pc[h] \in Holding => export[h].pending <= generation
        /\ \A t \in Maps : HasRead(h, t) =>
               /\ row.maps[t] \subseteq export[h].maps[t]
               /\ export[h].maps[t] \subseteq maps[t]
               /\ Writes(h, t) => op[h].id \in export[h].maps[t]
               /\ export[h].pending = generation =>
                      \A m \in Callers : pc[m] \in Marked /\ Writes(m, t) =>
                          op[m].id \in export[h].maps[t]
        /\ pc[h] = "store" =>
               row.revision <= export[h].revision /\ export[h].revision <= revision

\* The row has the change of the call that wrote it. A generation that counts
\* as persisted, or is about to, covers every marked call.
RowCoversGeneration ==
    /\ persisted <= generation
    /\ persisted = generation =>
           \A m \in Callers : pc[m] \in Marked => Covers(row.maps, m)
    /\ \A h \in Callers :
           /\ pc[h] \in {"publish", "send"} => Covers(row.maps, h)
           /\ pc[h] = "publish" /\ export[h].pending = generation =>
                  \A m \in Callers : pc[m] \in Marked => Covers(row.maps, m)

\* The inductive invariant. AckedIsDurable alone says nothing of a call that
\* returns because the generation is already persisted.
Inv ==
    /\ Types
    /\ OneHolder
    /\ WritesInOrder
    /\ MemoryIsAhead
    /\ ExportIsAhead
    /\ RowCoversGeneration
    /\ AckedIsDurable

-----------------------------------------------------------------------------
\* The parts of the invariant.
LEMMA InvTypes == Inv => Types
  BY DEF Inv
LEMMA InvHolder == Inv => OneHolder
  BY DEF Inv
LEMMA InvOrder == Inv => WritesInOrder
  BY DEF Inv
LEMMA InvMemory == Inv => MemoryIsAhead
  BY DEF Inv
LEMMA InvExport == Inv => ExportIsAhead
  BY DEF Inv
LEMMA InvRow == Inv => RowCoversGeneration
  BY DEF Inv
LEMMA InvAcked == Inv => AckedIsDurable
  BY DEF Inv

\* When no generation is left to persist, the row has the change of every marked call.
LEMMA PersistedCovers ==
    ASSUME Inv, generation <= persisted, NEW m \in Callers, pc[m] \in Marked
    PROVE  Covers(row.maps, m)
  <1>1. generation \in Nat /\ persisted \in Nat
    BY InvTypes DEF Types
  <1>2. persisted <= generation
    BY InvRow DEF RowCoversGeneration
  <1>3. persisted = generation
    BY <1>1, <1>2
  <1> QED
    BY <1>3, InvRow DEF RowCoversGeneration

\* The maps a call of each kind writes.
LEMMA WriteOrders ==
    /\ WriteOrder["create"] = <<"accounts", "details">>
    /\ WriteOrder["refresh"] = <<"details", "accounts">>
    /\ WriteOrder["touch"] = <<"details">>
    /\ WriteOrder["list"] = <<>>
  BY DEF WriteOrder

\* The same, by map.
LEMMA WritesByKind ==
    ASSUME Types, NEW m \in Callers
    PROVE  /\ Writes(m, "accounts") <=> op[m].kind \in {"create", "refresh"}
           /\ Writes(m, "details") <=> op[m].kind # "list"
  <1>1. op[m].kind \in AllKinds
    BY DEF Types
  <1>2. CASE op[m].kind = "create"
    BY <1>2, WriteOrders DEF Writes
  <1>3. CASE op[m].kind = "refresh"
    BY <1>3, WriteOrders DEF Writes
  <1>4. CASE op[m].kind = "touch"
    BY <1>4, WriteOrders DEF Writes
  <1>5. CASE op[m].kind = "list"
    BY <1>5, WriteOrders DEF Writes
  <1> QED
    BY <1>1, <1>2, <1>3, <1>4, <1>5 DEF AllKinds

\* A call that returns Ok is acknowledged for the maps it has written.
LEMMA Acknowledged ==
    ASSUME Types, NEW m \in Callers, Acknowledge(m)
    PROVE  /\ pc' = [pc EXCEPT ![m] = "idle"]
           /\ op' = [op EXCEPT ![m] = NoOp]
           /\ pc' \in [Callers -> Where]
           /\ op' \in [Callers -> [kind: AllKinds, id: Changes, before: Nat]]
           /\ acked' \in Contents
           /\ \A t \in Maps : \/ acked'[t] = acked[t]
                              \/ Writes(m, t) /\ acked'[t] = acked[t] \cup {op[m].id}
  <1>1. NoOp \in [kind: AllKinds, id: Changes, before: Nat]
    BY StoreAssumption DEF NoOp, AllKinds, Changes
  <1>2. op[m].id \in Changes
    BY DEF Types
  <1>3. acked' = [t \in Maps |-> IF Writes(m, t) THEN acked[t] \cup {op[m].id} ELSE acked[t]]
    BY DEF Acknowledge, Writes
  <1> QED
    BY <1>1, <1>2, <1>3 DEF Acknowledge, Return, Goto, Types, Where, Contents

-----------------------------------------------------------------------------
\* Memory grows, and calls that are not marked move as their writes allow.
LEMMA UnmarkedMoves ==
    ASSUME Inv, Types',
           \A t \in Maps : maps[t] \subseteq maps'[t],
           revision <= revision',
           UNCHANGED <<generation, persisted, lock, export, row, acked>>,
           \A d \in Callers :
               \/ pc'[d] = pc[d] /\ op'[d] = op[d] /\ at'[d] = at[d]
               \/ pc[d] \notin Marked /\ pc'[d] \notin Marked /\ InOrder(d)'
    PROVE  Inv'
  <1>1. \A d \in Callers : pc[d] \in Marked \/ pc'[d] \in Marked =>
            /\ pc'[d] = pc[d] /\ op'[d] = op[d] /\ at'[d] = at[d]
            /\ \A t \in Maps : Writes(d, t)' = Writes(d, t)
            /\ Covers(row.maps, d)' = Covers(row.maps, d)
            /\ \A t \in Maps : HasRead(d, t)' = HasRead(d, t)
    BY DEF Writes, Covers, HasRead
  <1>2. \A d \in Callers, t \in Maps : HasRead(d, t) \/ HasRead(d, t)' => pc[d] \in Marked \/ pc'[d] \in Marked
    BY DEF HasRead, Marked, Holding
  <1>3. OneHolder'
    BY <1>1, InvHolder DEF OneHolder, Marked
  <1>4. WritesInOrder'
    <2> SUFFICES ASSUME NEW d \in Callers, pc'[d] = pc[d], op'[d] = op[d], at'[d] = at[d]
                 PROVE  InOrder(d)'
      BY DEF WritesInOrder
    <2>1. InOrder(d)
      BY InvOrder DEF WritesInOrder
    <2>2. \A i \in 1..2 : i < at[d] /\ pc[d] = "write" => WriteOrder[op[d].kind][i] \in Maps
      <3>1. op[d].kind \in AllKinds /\ at[d] \in 1..2
        BY InvTypes DEF Types
      <3> QED
        BY <2>1, <3>1, WriteOrders DEF InOrder, AllKinds, Maps
    <2>3. Covers(maps, d) => Covers(maps, d)'
      BY DEF Covers, Writes
    <2> QED
      BY <2>1, <2>2, <2>3 DEF InOrder
  <1>5. MemoryIsAhead'
    BY InvMemory, InvTypes DEF MemoryIsAhead, Types
  <1>6. ExportIsAhead'
    <2> SUFFICES ASSUME NEW h \in Callers, pc'[h] \in Marked
                 PROVE  /\ pc'[h] \in Holding => export[h].pending <= generation
                        /\ \A t \in Maps : HasRead(h, t)' =>
                               /\ row.maps[t] \subseteq export[h].maps[t]
                               /\ export[h].maps[t] \subseteq maps'[t]
                               /\ Writes(h, t)' => op'[h].id \in export[h].maps[t]
                               /\ export[h].pending = generation =>
                                      \A m \in Callers : pc'[m] \in Marked /\ Writes(m, t)' =>
                                          op'[m].id \in export[h].maps[t]
                        /\ pc'[h] = "store" =>
                               row.revision <= export[h].revision /\ export[h].revision <= revision'
      BY <1>2 DEF ExportIsAhead, Marked, Holding, HasRead
    <2>1. export[h].revision \in Int /\ revision \in Int /\ revision' \in Int
      BY InvTypes DEF Types, Exports
    <2> QED
      BY <1>1, <2>1, InvExport DEF ExportIsAhead
  <1>7. RowCoversGeneration'
    BY <1>1, InvRow DEF RowCoversGeneration, Marked, Holding
  <1> QED
    BY <1>3, <1>4, <1>5, <1>6, <1>7, InvAcked DEF Inv, AckedIsDurable

\* A call begins: it has not written anything.
LEMMA BeginCallInv ==
    ASSUME Inv, NEW m \in Callers, NEW k \in AllKinds, BeginCall(m, k)
    PROVE  Inv'
  <1>0. k \in AllKinds /\ MaxCalls \in Nat /\ calls + 1 \in 0..MaxCalls
    BY StoreAssumption, InvTypes DEF BeginCall, Types
  <1>1. [kind |-> k, id |-> calls + 1, before |-> IF k = "list" THEN revision ELSE 0]
            \in [kind: AllKinds, id: Changes, before: Nat]
    BY <1>0, InvTypes DEF Changes, Types
  <1>2. /\ op' = [op EXCEPT ![m] = [kind |-> k, id |-> calls + 1,
                                    before |-> IF k = "list" THEN revision ELSE 0]]
        /\ pc' = [pc EXCEPT ![m] = IF k = "list" THEN "purge" ELSE "write"]
        /\ UNCHANGED <<maps, revision, generation, persisted, lock, export, row, acked, at>>
        /\ calls' = calls + 1 /\ pc[m] = "idle"
    BY DEF BeginCall, Goto, memory, persisting
  <1>3. Types'
    BY <1>0, <1>1, <1>2, InvTypes DEF Types, Where
  <1>4. InOrder(m)'
    <2>1. pc'[m] = (IF k = "list" THEN "purge" ELSE "write") /\ op'[m].kind = k /\ at'[m] = 1
      BY <1>2, InvTypes, InvOrder DEF Types, WritesInOrder, InOrder
    <2>2. k # "list" => 1 <= Len(WriteOrder[k])
      <3> DEFINE n == Len(WriteOrder[k])
      <3>1. /\ Len(WriteOrder["create"]) = 2 /\ Len(WriteOrder["refresh"]) = 2
            /\ Len(WriteOrder["touch"]) = 1
        BY WriteOrders
      <3>2. k # "list" => n \in {1, 2}
        BY <1>0, <3>1, ZenonT(40) DEF AllKinds
      <3> HIDE DEF n
      <3>3. k # "list" => 1 <= n
        BY <3>2
      <3> QED
        BY <3>3, ZenonT(40) DEF n
    <2> QED
      BY <2>1, <2>2 DEF InOrder, Written, Marked, Holding
  <1>5. pc[m] \notin Marked /\ pc'[m] \notin Marked
    BY <1>2, InvTypes DEF Marked, Holding, Types
  <1>6. \A d \in Callers \ {m} : pc'[d] = pc[d] /\ op'[d] = op[d] /\ at'[d] = at[d]
    BY <1>2, InvTypes DEF Types
  <1>7. revision <= revision' /\ \A t \in Maps : maps[t] \subseteq maps'[t]
    BY <1>2, InvTypes DEF Types
  <1> QED
    BY <1>2, <1>3, <1>4, <1>5, <1>6, <1>7, UnmarkedMoves

\* A call writes the next of its maps.
LEMMA WriteMapInv ==
    ASSUME Inv, NEW m \in Callers, WriteMap(m)
    PROVE  Inv'
  <1> DEFINE order == WriteOrder[op[m].kind]
  <1> DEFINE t == order[at[m]]
  <1>1. /\ pc[m] = "write" /\ op[m].kind \in {"create", "refresh", "touch"}
        /\ at[m] \in 1..2 /\ at[m] <= Len(order)
        /\ \A i \in 1..2 : i < at[m] => op[m].id \in maps[order[i]]
        /\ op[m].id \in Changes
    BY InvTypes, InvOrder DEF WriteMap, Types, WritesInOrder, InOrder, AllKinds
  <1>2. /\ t \in Maps /\ Len(order) \in 1..2
        /\ \A u \in Maps : Writes(m, u) => \E i \in 1..Len(order) : order[i] = u
    <2>1. CASE op[m].kind = "create"
      BY <1>1, <2>1, WriteOrders DEF Maps, Writes
    <2>2. CASE op[m].kind = "refresh"
      BY <1>1, <2>2, WriteOrders DEF Maps, Writes
    <2>3. CASE op[m].kind = "touch"
      BY <1>1, <2>3, WriteOrders DEF Maps, Writes
    <2> QED
      BY <1>1, <2>1, <2>2, <2>3
  <1>3. /\ maps' = [maps EXCEPT ![t] = maps[t] \cup {op[m].id}]
        /\ UNCHANGED <<revision, generation, persisted, lock, export, row, acked, op, calls>>
    BY DEF WriteMap, persisting, history
  <1>4. IF at[m] < Len(order)
        THEN at' = [at EXCEPT ![m] = at[m] + 1] /\ UNCHANGED pc
        ELSE at' = [at EXCEPT ![m] = 1] /\ pc' = [pc EXCEPT ![m] = IF op[m].kind = "touch" THEN "mark" ELSE "bump"]
    BY DEF WriteMap, Goto
  <1>5. t = order[at[m]]
    OBVIOUS
  <1> HIDE DEF order, t
  <1>6. Types'
    <2>1. maps' \in Contents
      BY <1>1, <1>2, <1>3, InvTypes DEF Types, Contents
    <2>2. at' \in [Callers -> 1..2]
      <3>1. CASE at[m] < Len(order)
        <4>0. at[m] \in 1..2 /\ Len(order) \in 1..2
          BY <1>1, <1>2
        <4>1. \A a, n \in 1..2 : a < n => a + 1 \in 1..2
          OBVIOUS
        <4>2. at[m] + 1 \in 1..2
          BY <3>1, <4>0, <4>1, ZenonT(40)
        <4> QED
          BY <1>4, <3>1, <4>2, InvTypes DEF Types
      <3>2. CASE ~(at[m] < Len(order))
        <4>1. at' = [at EXCEPT ![m] = 1]
          BY <1>4, <3>2, ZenonT(40)
        <4> QED
          BY <4>1, InvTypes DEF Types
      <3> QED
        BY <3>1, <3>2
    <2>3. pc' \in [Callers -> Where]
      BY <1>4, InvTypes, ZenonT(40) DEF Types, Where
    <2> QED
      BY <1>3, <2>1, <2>2, <2>3, InvTypes DEF Types
  <1>7. \A u \in Maps : maps'[u] = IF u = t THEN maps[t] \cup {op[m].id} ELSE maps[u]
    BY <1>2, <1>3, InvTypes DEF Types, Contents
  <1>8. \A d \in Callers \ {m} : pc'[d] = pc[d] /\ op'[d] = op[d] /\ at'[d] = at[d]
    BY <1>3, <1>4, InvTypes DEF Types
  <1>9. pc[m] \notin Marked /\ pc'[m] \notin Marked
    BY <1>1, <1>4, InvTypes DEF Marked, Holding, Types
  <1>10. InOrder(m)'
    <2>0. op'[m] = op[m] /\ \A u \in Maps : Writes(m, u)' = Writes(m, u)
      BY <1>3 DEF Writes
    <2>1. CASE at[m] < Len(order)
      <3>1. pc'[m] = "write" /\ at'[m] = at[m] + 1
        BY <1>1, <1>4, <2>1, InvTypes DEF Types
      <3>2. at[m] = 1 /\ at[m] + 1 <= Len(order) /\ op[m].id \in maps'[order[1]]
        BY <1>1, <1>2, <1>5, <1>7, <2>1
      <3> QED
        BY <1>1, <2>0, <3>1, <3>2 DEF InOrder, Written, Marked, Holding, order
    <2>2. CASE at[m] = Len(order)
      <3>1. pc'[m] \in {"mark", "bump"} /\ at'[m] = 1
        BY <1>1, <1>4, <2>2, InvTypes DEF Types
      <3>2. \A u \in Maps : Writes(m, u) => op[m].id \in maps'[u]
        <4> SUFFICES ASSUME NEW i \in 1..Len(order), order[i] \in Maps
                     PROVE  op[m].id \in maps'[order[i]]
          BY <1>2
        <4>1. i \in 1..2 /\ (i = at[m] \/ i < at[m])
          BY <1>1, <1>2, <2>2
        <4> QED
          BY <1>1, <1>5, <1>7, <4>1
      <3>3. Covers(maps, m)'
        BY <2>0, <3>2 DEF Covers
      <3> QED
        BY <3>1, <3>3 DEF InOrder
    <2> QED
      BY <1>1, <1>2, <2>1, <2>2
  <1>11. revision <= revision' /\ \A u \in Maps : maps[u] \subseteq maps'[u]
    BY <1>3, <1>7, InvTypes DEF Types
  <1> QED
    BY <1>3, <1>6, <1>8, <1>9, <1>10, <1>11, UnmarkedMoves

\* The steps that only bump the revision or remove expired accounts.
LEMMA MemoryStepInv ==
    ASSUME Inv,
           \/ \E m \in Callers : BumpRevision(m) \/ RemoveExpired(m) \/ BumpPurged(m)
           \/ SyncStep \/ TokenExpires
    PROVE  Inv'
  <1>0. 0 \in Changes
    BY StoreAssumption DEF Changes
  <1>1. maps' = maps \/ maps' = Removed
    BY DEF BumpRevision, RemoveExpired, BumpPurged, SyncStep, TokenExpires, SyncRemoveExpired,
           SyncBumpPurged, SnapshotMap, SnapshotRevision, ApplySnapshot, SubscribeRevisions,
           BorrowFirst, RevisionChanged, memory
  <1>2. revision' = revision \/ revision' = revision + 1
    BY DEF BumpRevision, RemoveExpired, BumpPurged, SyncStep, TokenExpires, SyncRemoveExpired,
           SyncBumpPurged, SnapshotMap, SnapshotRevision, ApplySnapshot, SubscribeRevisions,
           BorrowFirst, RevisionChanged, memory
  <1>3. UNCHANGED <<generation, persisted, lock, export, row, acked, calls, op, at>>
    BY DEF BumpRevision, RemoveExpired, BumpPurged, SyncStep, TokenExpires, SyncRemoveExpired,
           SyncBumpPurged, SnapshotMap, SnapshotRevision, ApplySnapshot, SubscribeRevisions,
           BorrowFirst, RevisionChanged, persisting, history
  <1>4. /\ maps' \in Contents /\ revision' \in Nat /\ revision <= revision'
        /\ \A t \in Maps : maps[t] \subseteq maps'[t]
    BY <1>0, <1>1, <1>2, InvTypes DEF Types, Contents, Removed
  <1>5. CASE UNCHANGED pc
    <2>1. Types'
      BY <1>3, <1>4, <1>5, InvTypes DEF Types
    <2> QED
      BY <1>3, <1>4, <1>5, <2>1, UnmarkedMoves
  <1>6. ASSUME NEW m \in Callers, BumpRevision(m) \/ RemoveExpired(m) \/ BumpPurged(m)
        PROVE  Inv'
    <2>1. \/ pc[m] = "bump" /\ pc' = [pc EXCEPT ![m] = "mark"]
          \/ pc[m] = "purge" /\ pc' = [pc EXCEPT ![m] = "purged"]
          \/ pc[m] = "purged" /\ pc' = [pc EXCEPT ![m] = "purge"]
      BY <1>6 DEF BumpRevision, RemoveExpired, BumpPurged, Goto
    <2>2. Types'
      BY <1>3, <1>4, <2>1, InvTypes DEF Types, Where
    <2>3. InOrder(m) /\ pc \in [Callers -> Where]
      BY InvOrder, InvTypes DEF WritesInOrder, Types
    <2>4. Covers(maps, m) => Covers(maps, m)'
      BY <1>3, <1>4 DEF Covers, Writes
    <2>5. InOrder(m)' /\ pc[m] \notin Marked /\ pc'[m] \notin Marked
      BY <1>3, <2>1, <2>3, <2>4 DEF InOrder, Written, Marked, Holding
    <2>6. \A d \in Callers \ {m} : pc'[d] = pc[d] /\ op'[d] = op[d] /\ at'[d] = at[d]
      BY <1>3, <2>1, <2>3
    <2> QED
      BY <1>3, <1>4, <2>2, <2>5, <2>6, UnmarkedMoves
  <1>7. SyncStep \/ TokenExpires => UNCHANGED pc
    BY DEF SyncStep, TokenExpires, SyncRemoveExpired, SyncBumpPurged, SnapshotMap,
           SnapshotRevision, ApplySnapshot, SubscribeRevisions,
           BorrowFirst, RevisionChanged
  <1> QED
    BY <1>5, <1>6, <1>7

\* A call that holds no lock returns Ok, and the row has its change.
LEMMA ReturnInv ==
    ASSUME Inv, NEW m \in Callers, Acknowledge(m), pc[m] \notin Holding \cup {"write"},
           Covers(row.maps, m),
           UNCHANGED <<maps, revision, generation, persisted, lock, export, row, at, calls>>
    PROVE  Inv'
  <1>1. /\ pc' = [pc EXCEPT ![m] = "idle"]
        /\ op' = [op EXCEPT ![m] = NoOp]
        /\ \A t \in Maps : \/ acked'[t] = acked[t]
                           \/ Writes(m, t) /\ acked'[t] = acked[t] \cup {op[m].id}
    BY Acknowledged DEF Inv
  <1>2. Types'
    BY Acknowledged, InvTypes DEF Types
  <1>3. pc'[m] = "idle" /\ \A d \in Callers \ {m} :
            /\ pc'[d] = pc[d] /\ op'[d] = op[d]
            /\ \A t \in Maps : Writes(d, t)' = Writes(d, t) /\ HasRead(d, t)' = HasRead(d, t)
            /\ Covers(row.maps, d)' = Covers(row.maps, d)
            /\ Covers(maps, d)' = Covers(maps, d)
    BY <1>1, InvTypes DEF Types, Writes, Covers, HasRead
  <1>4. OneHolder'
    BY <1>3, InvHolder DEF OneHolder, Holding
  <1>5. WritesInOrder'
    <2>1. InOrder(m)'
      <3>1. at[m] = 1
        BY InvOrder DEF WritesInOrder, InOrder, Holding
      <3> QED
        BY <1>3, <3>1 DEF InOrder, Written, Marked, Holding
    <2>2. \A d \in Callers \ {m} : InOrder(d)'
      BY <1>3, InvOrder DEF WritesInOrder, InOrder
    <2> QED
      BY <2>1, <2>2 DEF WritesInOrder
  <1>6. MemoryIsAhead'
    BY InvMemory DEF MemoryIsAhead
  <1>7. ExportIsAhead'
    BY <1>3, InvExport DEF ExportIsAhead, HasRead, Marked, Holding
  <1>8. RowCoversGeneration'
    BY <1>3, InvRow DEF RowCoversGeneration, Marked, Holding
  <1>9. AckedIsDurable'
    BY <1>1, InvAcked DEF AckedIsDurable, Covers
  <1> QED
    BY <1>2, <1>4, <1>5, <1>6, <1>7, <1>8, <1>9 DEF Inv

\* The generation is marked: nothing counts as persisted until it is.
LEMMA MarkInv ==
    ASSUME Inv, NEW m \in Callers, MarkPersistPending(m)
    PROVE  Inv'
  <1>1. /\ pc[m] = "mark" /\ pc' = [pc EXCEPT ![m] = "check"]
        /\ generation' = generation + 1
        /\ UNCHANGED <<maps, revision, persisted, lock, export, row, acked, op, at, calls>>
    BY DEF MarkPersistPending, Goto, memory, history
  <1>2. Types'
    BY <1>1, InvTypes DEF Types, Where
  <1>3. pc'[m] = "check" /\ \A d \in Callers \ {m} : pc'[d] = pc[d]
    BY <1>1, InvTypes DEF Types
  <1>4. \A d \in Callers :
            /\ \A t \in Maps : Writes(d, t)' = Writes(d, t)
            /\ Covers(row.maps, d)' = Covers(row.maps, d)
            /\ Covers(maps, d)' = Covers(maps, d)
            /\ \A t \in Maps : HasRead(d, t)' = HasRead(d, t)
    BY <1>1, <1>3 DEF Writes, Covers, HasRead
  <1>5. OneHolder' /\ MemoryIsAhead' /\ AckedIsDurable'
    BY <1>1, <1>3, InvHolder, InvMemory, InvAcked
       DEF OneHolder, MemoryIsAhead, AckedIsDurable, Holding
  <1>6. WritesInOrder'
    <2>1. InOrder(m)'
      BY <1>1, <1>3, <1>4, InvOrder DEF WritesInOrder, InOrder, Written
    <2>2. \A d \in Callers \ {m} : InOrder(d)'
      BY <1>1, <1>3, <1>4, InvOrder DEF WritesInOrder, InOrder
    <2> QED
      BY <2>1, <2>2 DEF WritesInOrder
  <1>7. /\ persisted \in Nat /\ generation \in Nat /\ persisted <= generation
        /\ \A h \in Callers : /\ export[h].pending \in Nat
                              /\ pc[h] \in Holding => export[h].pending <= generation
    BY InvTypes, InvRow, InvExport DEF Types, Exports, RowCoversGeneration, ExportIsAhead
  <1>8. ExportIsAhead'
    <2>1. \A h \in Callers : pc'[h] \in Holding => pc[h] = pc'[h]
      BY <1>3 DEF Holding
    <2>2. \A h \in Callers, t \in Maps : HasRead(h, t) => pc[h] \in Holding
      BY ZenonT(40) DEF HasRead, Holding
    <2> QED
      BY <1>1, <1>4, <1>7, <2>1, <2>2, InvExport DEF ExportIsAhead, Holding
  <1>9. RowCoversGeneration'
    <2>1. \A h \in Callers : pc'[h] \in {"publish", "send"} => pc[h] = pc'[h] /\ pc[h] \in Holding
      BY <1>3, ZenonT(40) DEF Holding
    <2> QED
      BY <1>1, <1>4, <1>7, <2>1, InvRow DEF RowCoversGeneration, Holding
  <1> QED
    BY <1>2, <1>5, <1>6, <1>8, <1>9 DEF Inv

\* The steps that look at the generation or at the revision before they
\* persist, and return if there is nothing to do.
LEMMA CheckInv ==
    ASSUME Inv, NEW m \in Callers, PersistIfRevisionChanged(m) \/ CheckPersisted(m)
    PROVE  Inv'
  <1>0. /\ UNCHANGED <<maps, revision, generation, persisted, lock, export, row, at, calls>>
        /\ pc[m] \in {"purge", "check"}
        /\ pc \in [Callers -> Where] /\ InOrder(m)
    BY InvTypes, InvOrder
       DEF PersistIfRevisionChanged, CheckPersisted, memory, persisting, Types, WritesInOrder
  <1>1. CASE Acknowledge(m)
    <2>1. pc[m] = "purge" => Covers(row.maps, m) /\ Covers(maps, m)
      BY <1>0, WritesByKind, ZenonT(40) DEF InOrder, Covers, Maps, Inv
    <2>2. pc[m] = "check" => generation <= persisted
      BY <1>0, <1>1 DEF PersistIfRevisionChanged, CheckPersisted, AlreadyPersisted, Acknowledge,
                   Return, Goto
    <2>3. pc[m] = "check" => Covers(row.maps, m)
      BY <2>2, PersistedCovers DEF Marked
    <2> QED
      BY <1>0, <1>1, <2>1, <2>3, ReturnInv DEF Holding
  <1>2. CASE pc[m] = "purge" /\ pc' = [pc EXCEPT ![m] = "mark"] /\ UNCHANGED <<acked, op>>
    <2>1. Covers(maps, m)'
      BY <1>0, <1>2, WritesByKind, ZenonT(40) DEF InOrder, Covers, Writes, Maps, Inv
    <2>2. InOrder(m)' /\ pc[m] \notin Marked /\ pc'[m] \notin Marked
      BY <1>0, <1>2, <2>1, ZenonT(40) DEF InOrder, Marked, Holding
    <2>3. Types'
      BY <1>0, <1>2, InvTypes DEF Types, Where
    <2>4. \A d \in Callers \ {m} : pc'[d] = pc[d] /\ op'[d] = op[d] /\ at'[d] = at[d]
      BY <1>0, <1>2
    <2>5. revision <= revision' /\ \A t \in Maps : maps[t] \subseteq maps'[t]
      BY <1>0, InvTypes DEF Types
    <2> QED
      BY <1>0, <1>2, <2>2, <2>3, <2>4, <2>5, UnmarkedMoves
  <1>3. CASE pc[m] = "check" /\ pc' = [pc EXCEPT ![m] = "lock"] /\ UNCHANGED <<acked, op>>
    <2>1. Types'
      BY <1>0, <1>3, InvTypes DEF Types, Where
    <2>2. pc'[m] = "lock" /\ \A d \in Callers \ {m} : pc'[d] = pc[d]
      BY <1>0, <1>3, ZenonT(40)
    <2>3. \A d \in Callers :
              /\ \A t \in Maps : Writes(d, t)' = Writes(d, t) /\ HasRead(d, t)' = HasRead(d, t)
              /\ Covers(row.maps, d)' = Covers(row.maps, d)
              /\ Covers(maps, d)' = Covers(maps, d)
              /\ pc'[d] \in Marked <=> pc[d] \in Marked
              /\ pc'[d] \in Holding <=> pc[d] \in Holding
      BY <1>0, <1>3, <2>2, ZenonT(40) DEF Writes, Covers, HasRead, Marked, Holding
    <2>4. OneHolder' /\ MemoryIsAhead' /\ AckedIsDurable'
      BY <1>0, <1>3, <2>3, InvHolder, InvMemory, InvAcked, ZenonT(40)
         DEF OneHolder, MemoryIsAhead, AckedIsDurable
    <2>5. WritesInOrder'
      BY <1>0, <1>3, <2>2, <2>3, InvOrder DEF WritesInOrder, InOrder, Written, Marked
    <2>6. ExportIsAhead'
      BY <1>0, <1>3, <2>2, <2>3, InvExport, ZenonT(40) DEF ExportIsAhead
    <2>7. RowCoversGeneration'
      BY <1>0, <1>3, <2>2, <2>3, InvRow, ZenonT(40) DEF RowCoversGeneration
    <2> QED
      BY <2>1, <2>4, <2>5, <2>6, <2>7 DEF Inv
  <1> QED
    BY <1>1, <1>2, <1>3 DEF PersistIfRevisionChanged, CheckPersisted, Goto

\* The lock is taken; every marked call has written its maps.
LEMMA TakeLockInv ==
    ASSUME Inv, NEW m \in Callers, TakeLock(m)
    PROVE  Inv'
  <1>0. /\ UNCHANGED <<maps, revision, generation, persisted, row, at, calls>>
        /\ pc[m] = "lock" /\ ~lock
        /\ pc \in [Callers -> Where] /\ InOrder(m)
    BY InvTypes, InvOrder DEF TakeLock, LockIsFree, memory, Types, WritesInOrder
  <1>1. CASE AlreadyPersisted
    <2>1. Acknowledge(m) /\ UNCHANGED <<lock, export>>
      BY <1>1 DEF TakeLock
    <2>2. Covers(row.maps, m)
      BY <1>0, <1>1, PersistedCovers DEF AlreadyPersisted, Marked
    <2> QED
      BY <1>0, <2>1, <2>2, ReturnInv DEF Holding
  <1>2. CASE ~AlreadyPersisted
    <2>1. /\ pc' = [pc EXCEPT ![m] = "export"] /\ lock' = TRUE
          /\ export' = [export EXCEPT ![m] =
                           [maps |-> Empty, revision |-> 0, pending |-> generation]]
          /\ UNCHANGED <<acked, op>>
      BY <1>2 DEF TakeLock, Goto
    <2>2. [maps |-> Empty, revision |-> 0, pending |-> generation] \in Exports
      BY InvTypes DEF Exports, Empty, Contents, Types
    <2>3. Types'
      BY <1>0, <2>1, <2>2, InvTypes DEF Types, Where
    <2>4. /\ pc'[m] = "export" /\ export'[m].pending = generation /\ at[m] = 1
          /\ \A d \in Callers \ {m} : pc'[d] = pc[d] /\ export'[d] = export[d]
      BY <1>0, <2>1, <2>2, InvTypes DEF Types, InOrder
    <2>5. \A d \in Callers : pc[d] \notin Holding
      BY <1>0, InvHolder DEF OneHolder
    <2>6. \A d \in Callers :
              /\ \A t \in Maps : Writes(d, t)' = Writes(d, t) /\ ~HasRead(d, t)'
              /\ Covers(row.maps, d)' = Covers(row.maps, d)
              /\ Covers(maps, d)' = Covers(maps, d)
              /\ pc'[d] \in Marked <=> pc[d] \in Marked
              /\ pc'[d] \in Holding <=> d = m
      BY <1>0, <2>1, <2>4, <2>5 DEF Writes, Covers, HasRead, Marked, Holding
    <2>7. OneHolder' /\ MemoryIsAhead' /\ AckedIsDurable'
      BY <1>0, <2>1, <2>6, InvHolder, InvMemory, InvAcked, ZenonT(40)
         DEF OneHolder, MemoryIsAhead, AckedIsDurable
    <2>8. WritesInOrder'
      BY <1>0, <2>1, <2>4, <2>6, InvOrder, ZenonT(40)
         DEF WritesInOrder, InOrder, Written, Marked, Holding
    <2>9. ExportIsAhead'
      <3>1. generation \in Nat /\ generation' = generation
        BY <1>0, InvTypes DEF Types
      <3>2. \A h \in Callers : pc'[h] \in Holding => export'[h].pending = generation
        BY <2>4, <2>6
      <3>3. \A h \in Callers : pc'[h] # "store" /\ \A t \in Maps : ~HasRead(h, t)'
        BY <2>4, <2>5, <2>6 DEF Holding
      <3> QED
        BY <3>1, <3>2, <3>3 DEF ExportIsAhead
    <2>10. RowCoversGeneration'
      BY <1>0, <2>4, <2>5, <2>6, InvRow, ZenonT(40) DEF RowCoversGeneration, Holding
    <2> QED
      BY <2>3, <2>7, <2>8, <2>9, <2>10 DEF Inv
  <1> QED
    BY <1>1, <1>2

\* The holder reads a map, or the revision.
LEMMA ExportInv ==
    ASSUME Inv, NEW m \in Callers, ExportMap(m) \/ ExportRevision(m)
    PROVE  Inv'
  <1>0. /\ UNCHANGED <<maps, revision, generation, persisted, lock, row, op, acked, calls>>
        /\ pc[m] \in {"export", "revision"} /\ at[m] \in 1..2
        /\ pc \in [Callers -> Where] /\ InOrder(m) /\ maps \in Contents
    BY InvTypes, InvOrder
       DEF ExportMap, ExportRevision, memory, history, Types, WritesInOrder
  <1>1. \A d \in Callers \ {m} : pc[d] \notin Holding
    BY <1>0, InvHolder DEF OneHolder, Holding
  <1>2. /\ pc[m] = "export" /\ at[m] = 1 =>
               pc' = pc /\ at' = [at EXCEPT ![m] = 2]
        /\ pc[m] = "export" /\ at[m] = 2 =>
               pc' = [pc EXCEPT ![m] = "revision"] /\ at' = [at EXCEPT ![m] = 1]
        /\ pc[m] = "revision" =>
               pc' = [pc EXCEPT ![m] = "store"] /\ at' = at
    BY <1>0 DEF ExportMap, ExportRevision, Goto, MapsAreLeft, ExportOrder
  <1>3. /\ pc[m] = "export" /\ at[m] = 1 => export' = [export EXCEPT ![m] =
               [maps |-> [export[m].maps EXCEPT !["accounts"] = maps["accounts"]],
                revision |-> 0, pending |-> export[m].pending]]
        /\ pc[m] = "export" /\ at[m] = 2 => export' = [export EXCEPT ![m] =
               [maps |-> [export[m].maps EXCEPT !["details"] = maps["details"]],
                revision |-> 0, pending |-> export[m].pending]]
        /\ pc[m] = "revision" => export' = [export EXCEPT ![m] =
               [maps |-> export[m].maps, revision |-> revision, pending |-> export[m].pending]]
    BY <1>0 DEF ExportMap, ExportRevision, ExportOrder
  <1>4. export[m].maps \in Contents /\ export[m].pending \in Nat /\ revision \in Nat
    BY InvTypes DEF Types, Exports
  <1>5. /\ export'[m].maps \in Contents /\ export'[m].revision \in Nat
        /\ export'[m].pending = export[m].pending
        /\ export' = [export EXCEPT ![m] = export'[m]] /\ export'[m] \in Exports
    <2>1. [export[m].maps EXCEPT !["accounts"] = maps["accounts"]] \in Contents
      BY <1>0, <1>4 DEF Contents, Maps
    <2>2. [export[m].maps EXCEPT !["details"] = maps["details"]] \in Contents
      BY <1>0, <1>4 DEF Contents, Maps
    <2>3. export \in [Callers -> Exports]
      BY InvTypes DEF Types
    <2> HIDE DEF Contents
    <2>4. CASE pc[m] = "export" /\ at[m] = 1
      BY <1>3, <1>4, <2>1, <2>3, <2>4 DEF Exports
    <2>5. CASE pc[m] = "export" /\ at[m] = 2
      BY <1>3, <1>4, <2>2, <2>3, <2>5 DEF Exports
    <2>6. CASE pc[m] = "revision"
      BY <1>3, <1>4, <2>3, <2>6 DEF Exports
    <2> QED
      BY <1>0, <2>4, <2>5, <2>6
  <1>6. Types'
    <2>1. pc' \in [Callers -> Where] /\ at' \in [Callers -> 1..2]
      BY <1>0, <1>2, InvTypes DEF Where, Types
    <2> QED
      BY <1>0, <1>5, <2>1, InvTypes, ZenonT(40) DEF Types
  <1>7. \A d \in Callers \ {m} : pc'[d] = pc[d] /\ at'[d] = at[d] /\ export'[d] = export[d]
    BY <1>0, <1>2, <1>5, InvTypes DEF Types
  <1>8. pc'[m] \in {"export", "revision", "store"}
    BY <1>0, <1>2
  <1>9. \A d \in Callers :
            /\ \A t \in Maps : Writes(d, t)' = Writes(d, t)
            /\ Covers(row.maps, d)' = Covers(row.maps, d)
            /\ Covers(maps, d)' = Covers(maps, d)
            /\ pc'[d] \in Marked <=> pc[d] \in Marked
            /\ pc'[d] \in Holding <=> pc[d] \in Holding
    BY <1>0, <1>7, <1>8, ZenonT(40) DEF Writes, Covers, Marked, Holding
  <1>10. OneHolder' /\ MemoryIsAhead' /\ AckedIsDurable'
    BY <1>0, <1>9, InvHolder, InvMemory, InvAcked, ZenonT(40)
       DEF OneHolder, MemoryIsAhead, AckedIsDurable
  <1>11. WritesInOrder'
    <2>1. InOrder(m)'
      <3>1. Covers(maps, m)
        BY <1>0, ZenonT(40) DEF InOrder, Written, Marked, Holding
      <3>2. at \in [Callers -> 1..2]
        BY InvTypes, ZenonT(40) DEF Types
      <3>3. pc[m] = "revision" => at[m] = 1
        BY <1>0, ZenonT(40) DEF InOrder
      <3>4. pc'[m] # "export" => at'[m] = 1
        BY <1>0, <1>2, <3>2, <3>3
      <3> QED
        BY <1>8, <1>9, <3>1, <3>4, ZenonT(40) DEF InOrder
    <2>2. \A d \in Callers \ {m} : InOrder(d)'
      BY <1>0, <1>7, <1>9, InvOrder, ZenonT(40) DEF WritesInOrder, InOrder
    <2> QED
      BY <2>1, <2>2 DEF WritesInOrder
  <1>12. \A t \in Maps : HasRead(m, t)' =>
             \/ export'[m].maps[t] = maps[t]
             \/ HasRead(m, t) /\ export'[m].maps[t] = export[m].maps[t]
    <2>1. CASE pc[m] = "export" /\ at[m] = 1
      BY <1>0, <1>2, <1>3, <1>4, <2>1, InvTypes DEF HasRead, Contents, Maps, Types
    <2>2. CASE pc[m] = "export" /\ at[m] = 2
      BY <1>0, <1>2, <1>3, <1>4, <2>2, InvTypes DEF HasRead, Contents, Maps, Types
    <2>3. CASE pc[m] = "revision"
      BY <1>0, <1>2, <1>3, <1>4, <2>3, InvTypes DEF HasRead, Contents, Maps, Types
    <2> QED
      BY <1>0, <2>1, <2>2, <2>3
  <1>13. \A d \in Callers : pc[d] \in Marked => Covers(maps, d)
    BY InvOrder DEF WritesInOrder, InOrder, Written
  <1>14. ExportIsAhead'
    <2>1. \A d \in Callers \ {m}, t \in Maps : ~HasRead(d, t)'
      BY <1>1, <1>7 DEF HasRead, Holding
    <2>2. ASSUME NEW t \in Maps, HasRead(m, t)'
          PROVE  /\ row.maps[t] \subseteq export'[m].maps[t]
                 /\ export'[m].maps[t] \subseteq maps[t]
                 /\ Writes(m, t) => op[m].id \in export'[m].maps[t]
                 /\ export[m].pending = generation =>
                        \A d \in Callers : pc[d] \in Marked /\ Writes(d, t) =>
                            op[d].id \in export'[m].maps[t]
      <3>1. CASE export'[m].maps[t] = maps[t]
        <4>1. pc[m] \in Marked
          BY <1>0 DEF Marked, Holding
        <4> QED
          BY <1>13, <3>1, <4>1, InvMemory DEF MemoryIsAhead, Covers
      <3>2. CASE HasRead(m, t) /\ export'[m].maps[t] = export[m].maps[t]
        BY <3>2, InvExport DEF ExportIsAhead
      <3> QED
        BY <1>12, <2>2, <3>1, <3>2, ZenonT(40)
    <2>3. pc'[m] = "store" => row.revision <= export'[m].revision /\ export'[m].revision <= revision
      <3>1. pc'[m] = "store" => pc[m] = "revision"
        BY <1>0, <1>2
      <3>2. pc[m] = "revision" => export'[m].revision = revision
        BY <1>3, InvTypes DEF Types
      <3> QED
        BY <1>4, <3>1, <3>2, InvMemory DEF MemoryIsAhead
    <2>4. export[m].pending <= generation
      BY <1>0, InvExport DEF ExportIsAhead, Holding
    <2>5. \A d \in Callers \ {m} : pc'[d] \notin Holding
      BY <1>1, <1>7, ZenonT(40)
    <2> QED
      BY <1>0, <1>5, <1>9, <2>1, <2>2, <2>3, <2>4, <2>5, ZenonT(40) DEF ExportIsAhead, Holding
  <1>15. RowCoversGeneration'
    BY <1>0, <1>7, <1>8, <1>9, InvRow, ZenonT(40) DEF RowCoversGeneration
  <1> QED
    BY <1>6, <1>10, <1>11, <1>14, <1>15 DEF Inv

\* The row is replaced by the export, which is ahead of it.
LEMMA StoreRowInv ==
    ASSUME Inv, NEW m \in Callers, StoreRow(m)
    PROVE  /\ Inv'
           /\ \A t \in Maps : row.maps[t] \subseteq row'.maps[t]
           /\ row'.revision >= row.revision
  <1>0. /\ UNCHANGED <<maps, revision, generation, persisted, lock, export, op, at, acked, calls>>
        /\ pc[m] = "store" /\ pc' = [pc EXCEPT ![m] = "publish"]
        /\ row' = [maps |-> export[m].maps, revision |-> export[m].revision]
        /\ pc \in [Callers -> Where] /\ InOrder(m)
    BY InvTypes, InvOrder
       DEF StoreRow, Goto, memory, persisting, history, Types, WritesInOrder
  <1>1. export[m].maps \in Contents /\ export[m].revision \in Nat /\ row.revision \in Nat
    BY InvTypes DEF Types, Exports
  <1>2. Types'
    BY <1>0, <1>1, InvTypes DEF Types, Where
  <1>3. /\ pc'[m] = "publish"
        /\ \A d \in Callers \ {m} : pc'[d] = pc[d] /\ pc[d] \notin Holding
    BY <1>0, InvHolder DEF OneHolder, Holding
  <1>4. \A t \in Maps :
            /\ row.maps[t] \subseteq row'.maps[t] /\ row'.maps[t] \subseteq maps[t]
            /\ Writes(m, t) => op[m].id \in row'.maps[t]
            /\ export[m].pending = generation =>
                   \A d \in Callers : pc[d] \in Marked /\ Writes(d, t) => op[d].id \in row'.maps[t]
    BY <1>0, InvExport, ZenonT(40) DEF ExportIsAhead, HasRead
  <1>5. row'.revision >= row.revision /\ row'.revision <= revision
    BY <1>0, <1>1, InvExport, ZenonT(40) DEF ExportIsAhead
  <1>6. \A d \in Callers :
            /\ \A t \in Maps : Writes(d, t)' = Writes(d, t) /\ ~HasRead(d, t)'
            /\ Covers(row.maps, d) => Covers(row.maps, d)'
            /\ Covers(maps, d)' = Covers(maps, d)
            /\ pc'[d] \in Marked <=> pc[d] \in Marked
            /\ pc'[d] \in Holding <=> d = m
    BY <1>0, <1>3, <1>4, ZenonT(40) DEF Writes, Covers, HasRead, Marked, Holding
  <1>7. OneHolder' /\ MemoryIsAhead' /\ AckedIsDurable'
    BY <1>0, <1>4, <1>5, <1>6, InvHolder, InvMemory, InvAcked, ZenonT(40)
       DEF OneHolder, MemoryIsAhead, AckedIsDurable, Holding
  <1>8. WritesInOrder'
    BY <1>0, <1>3, <1>6, InvOrder, ZenonT(40)
       DEF WritesInOrder, InOrder, Written, Marked, Holding
  <1>9. ExportIsAhead'
    BY <1>0, <1>3, <1>6, InvExport, ZenonT(40) DEF ExportIsAhead, Holding
  <1>10. RowCoversGeneration'
    <2>1. Covers(row.maps, m)'
      BY <1>4, <1>6, <1>0, ZenonT(40) DEF Covers
    <2>2. export[m].pending = generation =>
              \A d \in Callers : pc'[d] \in Marked => Covers(row.maps, d)'
      BY <1>4, <1>6, <1>0, ZenonT(40) DEF Covers
    <2> QED
      BY <1>0, <1>3, <1>6, <2>1, <2>2, InvRow, ZenonT(40) DEF RowCoversGeneration, Holding
  <1> QED
    BY <1>2, <1>4, <1>5, <1>7, <1>8, <1>9, <1>10, ZenonT(40) DEF Inv

\* The generation of the export counts as persisted.
LEMMA PublishInv ==
    ASSUME Inv, NEW m \in Callers, PublishGeneration(m)
    PROVE  Inv'
  <1>0. /\ UNCHANGED <<maps, revision, generation, lock, export, row, op, at, acked, calls>>
        /\ pc[m] = "publish" /\ pc' = [pc EXCEPT ![m] = "send"]
        /\ persisted' = export[m].pending
        /\ pc \in [Callers -> Where] /\ InOrder(m)
    BY InvTypes, InvOrder DEF PublishGeneration, Goto, memory, history, Types, WritesInOrder
  <1>1. export[m].pending \in Nat /\ export[m].pending <= generation
    BY <1>0, InvTypes, InvExport, ZenonT(40) DEF Types, Exports, ExportIsAhead, Holding
  <1>2. Types'
    BY <1>0, <1>1, InvTypes DEF Types, Where
  <1>3. /\ pc'[m] = "send"
        /\ \A d \in Callers \ {m} : pc'[d] = pc[d] /\ pc[d] \notin Holding
    BY <1>0, InvHolder DEF OneHolder, Holding
  <1>4. \A d \in Callers :
            /\ \A t \in Maps : Writes(d, t)' = Writes(d, t) /\ HasRead(d, t)' = HasRead(d, t)
            /\ Covers(row.maps, d)' = Covers(row.maps, d)
            /\ Covers(maps, d)' = Covers(maps, d)
            /\ pc'[d] \in Marked <=> pc[d] \in Marked
            /\ pc'[d] \in Holding <=> pc[d] \in Holding
    BY <1>0, <1>3, ZenonT(40) DEF Writes, Covers, HasRead, Marked, Holding
  <1>5. OneHolder' /\ MemoryIsAhead' /\ AckedIsDurable'
    BY <1>0, <1>4, InvHolder, InvMemory, InvAcked, ZenonT(40)
       DEF OneHolder, MemoryIsAhead, AckedIsDurable
  <1>6. WritesInOrder'
    BY <1>0, <1>3, <1>4, InvOrder, ZenonT(40)
       DEF WritesInOrder, InOrder, Written, Marked, Holding
  <1>7. ExportIsAhead'
    BY <1>0, <1>3, <1>4, InvExport, ZenonT(40) DEF ExportIsAhead
  <1>8. RowCoversGeneration'
    BY <1>0, <1>1, <1>3, <1>4, InvRow, ZenonT(40) DEF RowCoversGeneration, Holding
  <1> QED
    BY <1>2, <1>5, <1>6, <1>7, <1>8 DEF Inv

\* The holder gives the lock back: its write failed, or it returns Ok.
LEMMA UnlockInv ==
    ASSUME Inv, NEW m \in Callers, StoreFails(m) \/ SendRevision(m)
    PROVE  Inv'
  <1>0. /\ UNCHANGED <<maps, revision, generation, persisted, row, at, calls>>
        /\ pc[m] \in {"store", "send"} /\ lock' = FALSE
        /\ export' = [export EXCEPT ![m] = NoExport]
        /\ pc \in [Callers -> Where] /\ InOrder(m)
    BY InvTypes, InvOrder DEF StoreFails, SendRevision, memory, Types, WritesInOrder
  <1>1. /\ pc' = [pc EXCEPT ![m] = "idle"] /\ op' = [op EXCEPT ![m] = NoOp]
        /\ acked' \in Contents
        /\ op' \in [Callers -> [kind: AllKinds, id: Changes, before: Nat]]
        /\ \A t \in Maps : acked'[t] \subseteq row.maps[t]
    <2>1. CASE StoreFails(m)
      <3>1. NoOp \in [kind: AllKinds, id: Changes, before: Nat]
        BY StoreAssumption DEF NoOp, AllKinds, Changes
      <3> QED
        BY <2>1, <3>1, InvTypes, InvAcked, ZenonT(40)
           DEF StoreFails, Return, Goto, Types, AckedIsDurable
    <2>2. CASE SendRevision(m)
      <3>1. Acknowledge(m) /\ pc[m] = "send"
        BY <2>2 DEF SendRevision
      <3>2. Covers(row.maps, m)
        BY <3>1, InvRow DEF RowCoversGeneration
      <3>3. Types /\ \A t \in Maps : acked[t] \subseteq row.maps[t]
        BY InvTypes, InvAcked DEF AckedIsDurable
      <3>4. \A t \in Maps : \/ acked'[t] = acked[t]
                            \/ Writes(m, t) /\ acked'[t] = acked[t] \cup {op[m].id}
        BY <3>1, <3>3, Acknowledged, ZenonT(40)
      <3>5. \A t \in Maps : acked'[t] \subseteq row.maps[t]
        BY <3>2, <3>3, <3>4 DEF Covers
      <3> QED
        BY <3>1, <3>3, <3>5, Acknowledged, ZenonT(40)
    <2> QED
      BY <2>1, <2>2
  <1>2. NoExport \in Exports
    BY ZenonT(40) DEF NoExport, Exports, Empty, Contents
  <1>3. Types'
    BY <1>0, <1>1, <1>2, InvTypes, ZenonT(40) DEF Types, Where
  <1>4. /\ pc'[m] = "idle" /\ at[m] = 1
        /\ \A d \in Callers \ {m} : pc'[d] = pc[d] /\ op'[d] = op[d] /\ pc[d] \notin Holding
    BY <1>0, <1>1, InvTypes, InvHolder, ZenonT(40) DEF Types, OneHolder, Holding, InOrder
  <1>5. \A d \in Callers : pc'[d] \notin Holding /\ \A t \in Maps : ~HasRead(d, t)'
    BY <1>4 DEF HasRead, Holding
  <1>6. \A d \in Callers \ {m} :
            Covers(row.maps, d)' = Covers(row.maps, d) /\ Covers(maps, d)' = Covers(maps, d)
    BY <1>0, <1>4, ZenonT(40) DEF Writes, Covers
  <1>7. OneHolder' /\ MemoryIsAhead' /\ AckedIsDurable'
    BY <1>0, <1>1, <1>5, InvHolder, InvMemory, InvAcked, ZenonT(40)
       DEF OneHolder, MemoryIsAhead, AckedIsDurable
  <1>8. WritesInOrder'
    <2>1. InOrder(m)'
      BY <1>0, <1>4, ZenonT(40) DEF InOrder, Written, Marked, Holding
    <2>2. \A d \in Callers \ {m} : InOrder(d)'
      BY <1>0, <1>4, <1>6, InvOrder, ZenonT(40) DEF WritesInOrder, InOrder
    <2> QED
      BY <2>1, <2>2 DEF WritesInOrder
  <1>9. ExportIsAhead'
    BY <1>5, ZenonT(40) DEF ExportIsAhead, Holding
  <1>10. RowCoversGeneration'
    BY <1>0, <1>4, <1>5, <1>6, InvRow, ZenonT(40) DEF RowCoversGeneration, Marked, Holding
  <1> QED
    BY <1>3, <1>7, <1>8, <1>9, <1>10 DEF Inv

\* A store without calls, whose memory is the row.
Fresh ==
    /\ Types /\ AckedIsDurable
    /\ maps = row.maps /\ revision = row.revision
    /\ generation = persisted
    /\ at = [m \in Callers |-> 1] /\ pc = [m \in Callers |-> "idle"]

\* It satisfies the invariant.
LEMMA FreshStoreInv == Fresh => Inv
  <1> SUFFICES ASSUME Fresh PROVE Inv
    OBVIOUS
  <1> USE DEF Fresh
  <1>1. \A m \in Callers : /\ pc[m] \notin Written /\ pc[m] \notin Marked /\ pc[m] \notin Holding
                           /\ pc[m] = "idle" /\ at[m] = 1
                           /\ \A t \in Maps : ~HasRead(m, t)
    BY ZenonT(40) DEF Written, Marked, Holding, HasRead
  <1>2. OneHolder /\ WritesInOrder /\ MemoryIsAhead
    BY <1>1 DEF OneHolder, WritesInOrder, InOrder, MemoryIsAhead, Types
  <1>3. ExportIsAhead /\ RowCoversGeneration
    BY <1>1 DEF ExportIsAhead, RowCoversGeneration, Types
  <1> QED
    BY <1>2, <1>3 DEF Inv

\* The store as connect leaves it.
LEMMA InitInv == Init => Inv
  <1> SUFFICES ASSUME Init PROVE Fresh
    BY FreshStoreInv
  <1> USE DEF Init
  <1>1. maps \in Contents /\ acked \in Contents /\ row \in [maps: Contents, revision: Nat]
    BY DEF Empty, Contents
  <1>2. export \in [Callers -> Exports]
    <2>1. NoExport \in Exports
      BY DEF Empty, Contents, NoExport, Exports
    <2> QED
      BY <2>1
  <1>3. op \in [Callers -> [kind: AllKinds, id: Changes, before: Nat]]
    <2>1. NoOp \in [kind: AllKinds, id: Changes, before: Nat]
      BY StoreAssumption DEF NoOp, AllKinds, Changes
    <2> QED
      BY <2>1
  <1>4. pc \in [Callers -> Where] /\ at \in [Callers -> 1..2]
    BY DEF Where
  <1>5. calls \in 0..MaxCalls
    BY StoreAssumption
  <1>6. Types
    BY <1>1, <1>2, <1>3, <1>4, <1>5, ZenonT(40) DEF Types
  <1>7. AckedIsDurable
    BY DEF AckedIsDurable, Empty
  <1> QED
    BY <1>6, <1>7 DEF Fresh

\* The process starts again from its row.
LEMMA RestartInv ==
    ASSUME Inv, Restart
    PROVE  Inv'
  <1>0. /\ maps' = row.maps /\ revision' = row.revision
        /\ generation' = row.revision /\ persisted' = row.revision /\ lock' = FALSE
        /\ pc' = [m \in Callers |-> "idle"] /\ op' = [m \in Callers |-> NoOp]
        /\ at' = [m \in Callers |-> 1] /\ export' = [m \in Callers |-> NoExport]
        /\ UNCHANGED <<row, acked, calls>>
    BY DEF Restart
  <1>1. maps' \in Contents /\ row.revision \in Nat
    BY <1>0, InvTypes DEF Types
  <1>2. export' \in [Callers -> Exports]
    <2>1. NoExport \in Exports
      BY DEF Empty, Contents, NoExport, Exports
    <2> QED
      BY <1>0, <2>1
  <1>3. op' \in [Callers -> [kind: AllKinds, id: Changes, before: Nat]]
    <2>1. NoOp \in [kind: AllKinds, id: Changes, before: Nat]
      BY StoreAssumption DEF NoOp, AllKinds, Changes
    <2> QED
      BY <1>0, <2>1
  <1>4. pc' \in [Callers -> Where] /\ at' \in [Callers -> 1..2]
    BY <1>0 DEF Where
  <1>5. Types'
    BY <1>0, <1>1, <1>2, <1>3, <1>4, InvTypes, ZenonT(40) DEF Types
  <1>6. AckedIsDurable'
    BY <1>0, InvAcked DEF AckedIsDurable
  <1>7. Fresh'
    BY <1>0, <1>5, <1>6 DEF Fresh
  <1> QED
    BY <1>7, FreshStoreInv, PTL

-----------------------------------------------------------------------------
\* Every step keeps the invariant, and none takes anything out of the row.
LEMMA NextInv ==
    ASSUME Inv, [Next]_vars
    PROVE  /\ Inv'
           /\ \A t \in Maps : row.maps[t] \subseteq row'.maps[t]
           /\ row'.revision >= row.revision
  <1>0. row.revision \in Nat
    BY InvTypes DEF Types
  <1>1. ASSUME NEW m \in Callers, NEW k \in AllKinds, BeginCall(m, k)
        PROVE  Inv' /\ UNCHANGED row
    BY <1>1, BeginCallInv, ZenonT(40) DEF BeginCall
  <1>2. ASSUME NEW m \in Callers, CallStep(m), ~StoreRow(m)
        PROVE  Inv' /\ UNCHANGED row
    <2>1. CASE WriteMap(m)
      BY <2>1, WriteMapInv, ZenonT(40) DEF WriteMap
    <2>2. CASE BumpRevision(m) \/ RemoveExpired(m) \/ BumpPurged(m)
      BY <2>2, MemoryStepInv DEF BumpRevision, RemoveExpired, BumpPurged
    <2>3. CASE PersistIfRevisionChanged(m) \/ CheckPersisted(m)
      BY <2>3, CheckInv DEF PersistIfRevisionChanged, CheckPersisted
    <2>4. CASE MarkPersistPending(m)
      BY <2>4, MarkInv DEF MarkPersistPending
    <2>5. CASE TakeLock(m)
      BY <2>5, TakeLockInv, ZenonT(40) DEF TakeLock
    <2>6. CASE ExportMap(m) \/ ExportRevision(m)
      BY <2>6, ExportInv DEF ExportMap, ExportRevision
    <2>7. CASE PublishGeneration(m)
      BY <2>7, PublishInv DEF PublishGeneration
    <2>8. CASE SendRevision(m)
      BY <2>8, UnlockInv, ZenonT(40) DEF SendRevision
    <2> QED
      BY <1>2, <2>1, <2>2, <2>3, <2>4, <2>5, <2>6, <2>7, <2>8 DEF CallStep
  <1>3. ASSUME NEW m \in Callers, StoreRow(m)
        PROVE  /\ Inv'
               /\ \A t \in Maps : row.maps[t] \subseteq row'.maps[t]
               /\ row'.revision >= row.revision
    BY <1>3, StoreRowInv
  <1>4. ASSUME NEW m \in Callers, StoreFails(m)
        PROVE  Inv' /\ UNCHANGED row
    BY <1>4, UnlockInv, ZenonT(40) DEF StoreFails
  <1>5. CASE SyncStep \/ TokenExpires
    <2>1. UNCHANGED row
      BY <1>5 DEF SyncStep, TokenExpires, SyncRemoveExpired, SyncBumpPurged, SnapshotMap,
                  SnapshotRevision, ApplySnapshot, SubscribeRevisions,
           BorrowFirst, RevisionChanged
    <2> QED
      BY <1>0, <1>5, <2>1, MemoryStepInv
  <1>6. CASE Restart
    <2>1. Inv' /\ UNCHANGED row
      BY <1>6, RestartInv, ZenonT(40) DEF Restart
    <2> QED
      BY <1>0, <2>1
  <1>7. CASE UNCHANGED vars
    <2>1. /\ maps' = maps /\ revision' = revision /\ generation' = generation
          /\ persisted' = persisted /\ lock' = lock /\ export' = export /\ row' = row
          /\ acked' = acked /\ pc' = pc /\ op' = op /\ at' = at /\ calls' = calls
      BY <1>7 DEF vars, memory, persisting, history
    <2>6. Types'
      BY <2>1, InvTypes, ZenonT(40) DEF Types
    <2>7. revision \in Nat
      BY InvTypes DEF Types
    <2>2. Types' /\ revision <= revision' /\ \A t \in Maps : maps[t] \subseteq maps'[t]
      BY <2>1, <2>6, <2>7
    <2>3. \A d \in Callers : pc'[d] = pc[d] /\ op'[d] = op[d] /\ at'[d] = at[d]
      BY <2>1
    <2>4. UNCHANGED <<generation, persisted, lock, export, row, acked>>
      BY <2>1
    <2>5. Inv'
      BY <2>2, <2>3, <2>4, UnmarkedMoves
    <2> QED
      BY <1>0, <2>4, <2>5
  <1> QED
    BY <1>0, <1>1, <1>2, <1>3, <1>4, <1>5, <1>6, <1>7 DEF Next

\* The invariant holds in every reachable state.
LEMMA InvAlways == SafetySpec => []Inv
  BY InitInv, NextInv, PTL DEF SafetySpec

\* For any number of concurrent calls, failing writes and restarts: what a
\* call changed is in the row when the call returns Ok (persist_state).
THEOREM AckedAlwaysDurable == SafetySpec => []AckedIsDurable
  <1>1. Inv => AckedIsDurable
    BY DEF Inv
  <1> QED
    BY <1>1, InvAlways, PTL

\* No write of the full state takes a change out of the row or lowers its
\* revision.
THEOREM RowAlwaysKeepsChanges == SafetySpec => RowKeepsChanges
  <1>1. Inv /\ [Next]_vars =>
            [/\ \A t \in Maps : row.maps[t] \subseteq row'.maps[t]
             /\ row'.revision >= row.revision]_vars
    BY NextInv
  <1> QED
    BY <1>1, InvAlways, PTL DEF SafetySpec, RowKeepsChanges
=============================================================================
