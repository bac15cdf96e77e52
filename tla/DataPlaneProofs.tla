--------------------------- MODULE DataPlaneProofs ---------------------------
(***************************************************************************)
(* What is proved of the sessions of the data plane: the billing holds of  *)
(* a WebSocket session (WebSocketProxy), and cancelling a response in the  *)
(* background (BackgroundResponses).                                       *)
(***************************************************************************)
EXTENDS WebSocketProxy, BackgroundResponses, TLAPS

-----------------------------------------------------------------------------
\* WebSocketProxy, for every number of requests, response ids and holds.  The lemmas
\* say what each operation of the tracker does to the set of holds it keeps; the
\* invariant is stated with that set.

TrackedRequests ==
    [req : WsRequests \cup {NoWs}, hold : Nat, rid : MaybeIds, named : BOOLEAN, started : BOOLEAN]

HoldRows == [rid : MaybeIds, closed : {0, 1}]

Trackers ==
    [pending : Seq(TrackedRequests), active : UNION {[S -> TrackedRequests] : S \in SUBSET ResponseIds},
     done : SUBSET ResponseIds]

\* Where the tracker keeps a request, the holds it keeps, and that it keeps
\* each of them once.
Places(t) ==
    {<<"pending", i>> : i \in DOMAIN t.pending} \cup {<<"active", i>> : i \in DOMAIN t.active}

HoldsOf(t) == {Entry(t, p).hold : p \in Places(t)} \ {0}

KeptOnce(t) ==
    \A p, q \in Places(t) : Entry(t, p).hold = Entry(t, q).hold /\ Entry(t, p).hold # 0 => p = q

LEMMA TrackerShape ==
    ASSUME NEW t \in Trackers
    PROVE  /\ t.pending \in Seq(TrackedRequests) /\ t.active \in [DOMAIN t.active -> TrackedRequests]
           /\ DOMAIN t.active \subseteq ResponseIds /\ t.done \subseteq ResponseIds
           /\ DOMAIN t.pending = 1 .. Len(t.pending) /\ Len(t.pending) \in Nat
           /\ \A p \in Places(t) : Entry(t, p) \in TrackedRequests
<1>1. /\ t.pending \in Seq(TrackedRequests) /\ t.active \in [DOMAIN t.active -> TrackedRequests]
      /\ DOMAIN t.active \subseteq ResponseIds /\ t.done \subseteq ResponseIds
  BY DEF Trackers
<1>2. DOMAIN t.pending = 1 .. Len(t.pending) /\ Len(t.pending) \in Nat
      /\ \A i \in DOMAIN t.pending : t.pending[i] \in TrackedRequests
  BY <1>1
<1>3. \A p \in Places(t) : Entry(t, p) \in TrackedRequests
  BY <1>1, <1>2 DEF Places, Entry
<1> QED BY <1>1, <1>2, <1>3

\* A tracker whose entries are those of t but for the place p, moved by an
\* injection m, keeps the other holds.
LEMMA MovedEntries ==
    ASSUME NEW t \in Trackers, NEW u \in Trackers, KeptOnce(t), NEW p \in Places(t), NEW m,
           \A q \in Places(u) : m[q] \in Places(t) \ {p} /\ Entry(u, q) = Entry(t, m[q]),
           \A q, v \in Places(u) : m[q] = m[v] => q = v,
           \A v \in Places(t) \ {p} : \E q \in Places(u) : m[q] = v
    PROVE  KeptOnce(u) /\ HoldsOf(u) = HoldsOf(t) \ {Entry(t, p).hold}
<1>1. KeptOnce(u)
  BY DEF KeptOnce
<1>2. \A h \in HoldsOf(u) : h \in HoldsOf(t) /\ h # Entry(t, p).hold
  BY DEF KeptOnce, HoldsOf
<1>3. \A h \in HoldsOf(t) \ {Entry(t, p).hold} : h \in HoldsOf(u)
  BY DEF HoldsOf
<1> QED BY <1>1, <1>2, <1>3

LEMMA WithoutActiveKeeps ==
    ASSUME NEW t \in Trackers, KeptOnce(t), NEW rid \in DOMAIN t.active
    PROVE  LET u == WithoutActive(t, rid)
           IN  u \in Trackers /\ KeptOnce(u) /\ HoldsOf(u) = HoldsOf(t) \ {t.active[rid].hold}
               /\ DOMAIN u.active = DOMAIN t.active \ {rid} /\ u.done = t.done
<1> DEFINE u == WithoutActive(t, rid)
           p == <<"active", rid>>
           m == [q \in Places(u) |-> q]
<1>1. /\ u.pending = t.pending /\ u.active = [i \in DOMAIN t.active \ {rid} |-> t.active[i]]
      /\ u.done = t.done
  BY DEF WithoutActive, Trackers
<1>2. u \in Trackers
  <2> DEFINE S == DOMAIN t.active \ {rid}
             f == [i \in S |-> t.active[i]]
  <2>1. S \in SUBSET ResponseIds /\ f \in [S -> TrackedRequests]
    BY TrackerShape
  <2>2. f \in UNION {[R -> TrackedRequests] : R \in SUBSET ResponseIds}
    BY <2>1, ZenonT(40)
  <2> HIDE DEF f
  <2>3. [t EXCEPT !.active = f] \in Trackers
    BY <2>2 DEF Trackers
  <2> QED BY <2>3 DEF f, WithoutActive
<1>3. Places(u) = Places(t) \ {p}
  BY <1>1 DEF Places
<1>4. \A q \in Places(u) : Entry(u, q) = Entry(t, q)
  BY <1>1 DEF Places, Entry
<1>5. p \in Places(t) /\ Entry(t, p) = t.active[rid]
  BY DEF Places, Entry
<1> HIDE DEF u, p
<1>6. KeptOnce(u) /\ HoldsOf(u) = HoldsOf(t) \ {Entry(t, p).hold}
  <2>1. \A q \in Places(u) : m[q] = q
    OBVIOUS
  <2> HIDE DEF m
  <2> QED BY <1>2, <1>3, <1>4, <1>5, <2>1, MovedEntries
<1> QED BY <1>1, <1>2, <1>5, <1>6 DEF u

LEMMA WithActiveKeeps ==
    ASSUME NEW t \in Trackers, KeptOnce(t), NEW rid \in ResponseIds, NEW x \in TrackedRequests,
           x.hold \notin HoldsOf(t)
    PROVE  LET u == WithActive(t, rid, x)
           IN  /\ u \in Trackers /\ KeptOnce(u) /\ HoldsOf(u) \subseteq HoldsOf(t) \cup {x.hold}
               /\ rid \notin DOMAIN t.active => HoldsOf(u) = HoldsOf(t) \cup ({x.hold} \ {0})
<1> DEFINE u == WithActive(t, rid, x)
           p == <<"active", rid>>
<1>1. /\ u.pending = t.pending /\ u.done = t.done
      /\ u.active = [i \in DOMAIN t.active \cup {rid} |-> IF i = rid THEN x ELSE t.active[i]]
  BY DEF WithActive, Trackers
<1>2. u \in Trackers
  <2> DEFINE S == DOMAIN t.active \cup {rid}
             f == [i \in S |-> IF i = rid THEN x ELSE t.active[i]]
  <2>1. S \in SUBSET ResponseIds /\ f \in [S -> TrackedRequests]
    BY TrackerShape
  <2>2. f \in UNION {[R -> TrackedRequests] : R \in SUBSET ResponseIds}
    BY <2>1, ZenonT(40)
  <2> HIDE DEF f
  <2>3. [t EXCEPT !.active = f] \in Trackers
    BY <2>2 DEF Trackers
  <2> QED BY <2>3 DEF f, WithActive
<1>3. Places(u) = Places(t) \cup {p}
  BY <1>1 DEF Places
<1>4. /\ \A q \in Places(u) \ {p} : Entry(u, q) = Entry(t, q)
      /\ Entry(u, p) = x
  BY <1>1 DEF Places, Entry
<1>5. rid \notin DOMAIN t.active => p \notin Places(t)
  BY DEF Places
<1>6. x.hold \in Nat /\ \A q \in Places(t) : Entry(t, q).hold \in Nat
  BY TrackerShape DEF TrackedRequests
<1> HIDE DEF u, p
<1>7. KeptOnce(u)
  BY <1>3, <1>4, <1>6 DEF KeptOnce, HoldsOf
<1>8. HoldsOf(u) \subseteq HoldsOf(t) \cup {x.hold}
  BY <1>3, <1>4 DEF HoldsOf
<1>9. rid \notin DOMAIN t.active => HoldsOf(u) = HoldsOf(t) \cup ({x.hold} \ {0})
  BY <1>3, <1>4, <1>5, <1>6 DEF HoldsOf
<1> QED BY <1>2, <1>7, <1>8, <1>9 DEF u

\* The entries of a sequence after one is removed.
LEMMA RemovedEntries ==
    ASSUME NEW S, NEW s \in Seq(S), NEW i \in 1 .. Len(s)
    PROVE  /\ WithoutPending(s, i) \in Seq(S) /\ Len(WithoutPending(s, i)) = Len(s) - 1
           /\ \A j \in 1 .. Len(s) - 1 : WithoutPending(s, i)[j] = IF j < i THEN s[j] ELSE s[j + 1]
<1> DEFINE a == SubSeq(s, 1, i - 1)
           b == SubSeq(s, i + 1, Len(s))
<1>1. Len(s) \in Nat
  OBVIOUS
<1>2. a \in Seq(S) /\ Len(a) = i - 1 /\ \A j \in 1 .. i - 1 : a[j] = s[j]
  BY <1>1
<1>3. b \in Seq(S) /\ Len(b) = Len(s) - i /\ \A j \in 1 .. Len(s) - i : b[j] = s[i + j]
  BY <1>1
<1> HIDE DEF a, b
<1>4. WithoutPending(s, i) = a \o b
  BY DEF WithoutPending, a, b
<1>5. a \o b \in Seq(S) /\ Len(a \o b) = Len(s) - 1
  <2>1. \A x, y \in Seq(S) : x \o y \in Seq(S) /\ Len(x \o y) = Len(x) + Len(y)
    OBVIOUS
  <2>2. a \o b \in Seq(S) /\ Len(a \o b) = Len(a) + Len(b)
    BY <2>1, <1>2, <1>3, ZenonT(40)
  <2> QED BY <2>2, <1>1, <1>2, <1>3
<1>6. ASSUME NEW j \in 1 .. Len(s) - 1
      PROVE  (a \o b)[j] = IF j < i THEN s[j] ELSE s[j + 1]
  BY <1>1, <1>2, <1>3
<1> QED BY <1>4, <1>5, <1>6, ZenonT(40)

LEMMA RemovePendingKeeps ==
    ASSUME NEW t \in Trackers, KeptOnce(t), NEW i \in DOMAIN t.pending
    PROVE  LET u == [t EXCEPT !.pending = WithoutPending(@, i)]
           IN  u \in Trackers /\ KeptOnce(u) /\ HoldsOf(u) = HoldsOf(t) \ {t.pending[i].hold}
               /\ u.active = t.active /\ u.done = t.done
<1> DEFINE s == t.pending
           r == WithoutPending(s, i)
           u == [t EXCEPT !.pending = r]
           p == <<"pending", i>>
           m == [q \in Places(u) |->
                   IF q[1] = "pending" /\ q[2] >= i THEN <<"pending", q[2] + 1>> ELSE q]
<1>1. s \in Seq(TrackedRequests) /\ DOMAIN s = 1 .. Len(s) /\ Len(s) \in Nat /\ i \in 1 .. Len(s)
  BY TrackerShape
<1>2. /\ r \in Seq(TrackedRequests) /\ Len(r) = Len(s) - 1
      /\ \A j \in 1 .. Len(s) - 1 : r[j] = IF j < i THEN s[j] ELSE s[j + 1]
  BY <1>1, RemovedEntries
<1>3. DOMAIN r = 1 .. Len(s) - 1
  BY <1>2
<1> HIDE DEF r
<1>4. u \in Trackers /\ u.pending = r /\ u.active = t.active /\ u.done = t.done
  BY <1>2, ZenonT(40) DEF Trackers
<1> HIDE DEF u
<1>5. Places(u) = {<<"pending", j>> : j \in 1 .. Len(s) - 1} \cup {<<"active", k>> : k \in DOMAIN t.active}
  BY <1>3, <1>4 DEF Places
<1>6. Places(t) = {<<"pending", j>> : j \in 1 .. Len(s)} \cup {<<"active", k>> : k \in DOMAIN t.active}
  BY <1>1 DEF Places
<1>7. \A j \in 1 .. Len(s) - 1 :
        /\ m[<<"pending", j>>] = <<"pending", IF j < i THEN j ELSE j + 1>>
        /\ Entry(u, <<"pending", j>>) = Entry(t, m[<<"pending", j>>])
  <2> SUFFICES ASSUME NEW j \in 1 .. Len(s) - 1
               PROVE  /\ m[<<"pending", j>>] = <<"pending", IF j < i THEN j ELSE j + 1>>
                      /\ Entry(u, <<"pending", j>>) = Entry(t, m[<<"pending", j>>])
    BY ZenonT(40)
  <2>1. m[<<"pending", j>>] = <<"pending", IF j < i THEN j ELSE j + 1>>
    BY <1>1, <1>5
  <2>2. Entry(u, <<"pending", j>>) = r[j]
    BY <1>4 DEF Entry
  <2>3. Entry(t, <<"pending", IF j < i THEN j ELSE j + 1>>) = s[IF j < i THEN j ELSE j + 1]
    BY DEF Entry
  <2>4. r[j] = s[IF j < i THEN j ELSE j + 1]
    BY <1>2
  <2> QED BY <2>1, <2>2, <2>3, <2>4
<1>8. \A k \in DOMAIN t.active :
        m[<<"active", k>>] = <<"active", k>> /\ Entry(u, <<"active", k>>) = Entry(t, <<"active", k>>)
  BY <1>4, <1>5 DEF Entry
<1>9. p \in Places(t) /\ Entry(t, p) = s[i]
  BY <1>1, <1>6 DEF Entry
<1> HIDE DEF m, p
<1>10. \A q \in Places(u) : m[q] \in Places(t) \ {p} /\ Entry(u, q) = Entry(t, m[q])
  <2>1. ASSUME NEW j \in 1 .. Len(s) - 1 PROVE m[<<"pending", j>>] \in Places(t) \ {p}
    <3> DEFINE k == IF j < i THEN j ELSE j + 1
    <3>1. k \in 1 .. Len(s) /\ k # i
      BY <1>1
    <3>2. m[<<"pending", j>>] = <<"pending", k>>
      BY <1>7
    <3> HIDE DEF k
    <3> QED BY <3>1, <3>2, <1>6 DEF p
  <2>2. ASSUME NEW k \in DOMAIN t.active PROVE m[<<"active", k>>] \in Places(t) \ {p}
    BY <1>6, <1>8 DEF p
  <2>3. ASSUME NEW q \in Places(u) PROVE m[q] \in Places(t) \ {p} /\ Entry(u, q) = Entry(t, m[q])
    <3>1. CASE \E j \in 1 .. Len(s) - 1 : q = <<"pending", j>>
      BY <3>1, <2>1, <1>7, ZenonT(40)
    <3>2. CASE \E k \in DOMAIN t.active : q = <<"active", k>>
      BY <3>2, <2>2, <1>8, ZenonT(40)
    <3> QED BY <3>1, <3>2, <1>5, ZenonT(40)
  <2> QED BY <2>3, ZenonT(40)
<1>11. \A q, v \in Places(u) : m[q] = m[v] => q = v
  BY <1>1, <1>5, <1>7, <1>8
<1>12. ASSUME NEW v \in Places(t) \ {p} PROVE \E q \in Places(u) : m[q] = v
  <2>1. CASE \E k \in DOMAIN t.active : v = <<"active", k>>
    BY <2>1, <1>5, <1>8
  <2>2. ASSUME NEW j \in 1 .. Len(s), v = <<"pending", j>> PROVE \E q \in Places(u) : m[q] = v
    <3>1. j # i
      BY <2>2 DEF p
    <3>2. CASE j < i
      BY <3>2, <2>2, <1>1, <1>5, <1>7
    <3>3. CASE j > i
      <4>1. j - 1 \in 1 .. Len(s) - 1 /\ ~(j - 1 < i) /\ (j - 1) + 1 = j
        BY <3>3, <1>1
      <4>2. m[<<"pending", j - 1>>] = <<"pending", j>>
        BY <4>1, <1>7
      <4> QED BY <4>1, <4>2, <2>2, <1>5
    <3> QED BY <3>1, <3>2, <3>3, <1>1
  <2> QED BY <2>1, <2>2, <1>6
<1>13. KeptOnce(u) /\ HoldsOf(u) = HoldsOf(t) \ {Entry(t, p).hold}
  BY <1>4, <1>9, <1>10, <1>11, <1>12, MovedEntries
<1> QED BY <1>4, <1>9, <1>13 DEF u, r

LEMMA AppendKeeps ==
    ASSUME NEW t \in Trackers, KeptOnce(t), NEW x \in TrackedRequests, x.hold \notin HoldsOf(t)
    PROVE  LET u == [t EXCEPT !.pending = Append(@, x)]
           IN  u \in Trackers /\ KeptOnce(u) /\ HoldsOf(u) = HoldsOf(t) \cup ({x.hold} \ {0})
<1> DEFINE s == t.pending
           r == Append(s, x)
           u == [t EXCEPT !.pending = r]
           p == <<"pending", Len(s) + 1>>
<1>1. s \in Seq(TrackedRequests) /\ DOMAIN s = 1 .. Len(s) /\ Len(s) \in Nat
  BY TrackerShape
<1>2. /\ r \in Seq(TrackedRequests) /\ DOMAIN r = 1 .. Len(s) + 1
      /\ r[Len(s) + 1] = x /\ \A j \in 1 .. Len(s) : r[j] = s[j]
  BY <1>1
<1> HIDE DEF r
<1>3. u \in Trackers /\ u.pending = r /\ u.active = t.active
  BY <1>2 DEF Trackers
<1> HIDE DEF u
<1>4. 1 .. Len(s) + 1 = (1 .. Len(s)) \cup {Len(s) + 1} /\ Len(s) + 1 \notin 1 .. Len(s)
  BY <1>1
<1>5. Places(u) = Places(t) \cup {p} /\ p \notin Places(t)
  BY <1>1, <1>2, <1>3, <1>4 DEF Places
<1>6. Entry(u, p) = x
  BY <1>2, <1>3 DEF Entry
<1>7. \A q \in Places(t) : Entry(u, q) = Entry(t, q)
  BY <1>1, <1>2, <1>3 DEF Entry, Places
<1>8. x.hold \in Nat /\ \A q \in Places(t) : Entry(t, q).hold \in Nat
  BY TrackerShape DEF TrackedRequests
<1> HIDE DEF p
<1>9. KeptOnce(u)
  BY <1>5, <1>6, <1>7, <1>8 DEF KeptOnce, HoldsOf
<1>10. HoldsOf(u) = HoldsOf(t) \cup ({x.hold} \ {0})
  BY <1>5, <1>6, <1>7, <1>8 DEF HoldsOf
<1> QED BY <1>3, <1>9, <1>10 DEF u, r

\* What the tracker does, in terms of the holds it keeps.
LEMMA RegisterKeeps ==
    ASSUME NEW t \in Trackers, KeptOnce(t), NEW x \in TrackedRequests, x.hold \notin HoldsOf(t)
    PROVE  LET u == RegisterTracked(t, x)
           IN  /\ u \in Trackers /\ KeptOnce(u) /\ HoldsOf(u) \subseteq HoldsOf(t) \cup {x.hold}
               /\ x.rid = NoWs => HoldsOf(u) = HoldsOf(t) \cup ({x.hold} \ {0})
<1>1. CASE x.rid = NoWs
  BY <1>1, AppendKeeps DEF RegisterTracked
<1>2. CASE x.rid # NoWs /\ x.rid \in t.done
  BY <1>2 DEF RegisterTracked
<1>3. CASE x.rid # NoWs /\ x.rid \notin t.done
  <2>1. x.rid \in ResponseIds
    BY <1>3 DEF TrackedRequests, MaybeIds
  <2> QED BY <1>3, <2>1, WithActiveKeeps DEF RegisterTracked
<1> QED BY <1>1, <1>2, <1>3

LEMMA TakenFor ==
    ASSUME NEW t \in Trackers, KeptOnce(t), NEW rid \in MaybeIds
    PROVE  LET k == TakeFor(t, rid)
           IN  /\ k.x \in TrackedRequests /\ k.t \in Trackers /\ KeptOnce(k.t)
               /\ k.x.hold \in HoldsOf(t) \cup {0} /\ HoldsOf(k.t) = HoldsOf(t) \ {k.x.hold}
               /\ rid \notin DOMAIN k.t.active
<1>1. CASE IsActive(t, rid)
  <2>1. TakeFor(t, rid) = [x |-> t.active[rid], t |-> WithoutActive(t, rid)] /\ rid \in DOMAIN t.active
    BY <1>1 DEF TakeFor, IsActive
  <2>2. t.active[rid] \in TrackedRequests /\ <<"active", rid>> \in Places(t)
        /\ Entry(t, <<"active", rid>>) = t.active[rid]
    BY <2>1, TrackerShape DEF Places, Entry
  <2>3. t.active[rid].hold \in HoldsOf(t) \cup {0}
    BY <2>2 DEF HoldsOf, TrackedRequests
  <2> QED BY <2>1, <2>2, <2>3, WithoutActiveKeeps
<1>2. CASE ~IsActive(t, rid) /\ t.pending # <<>>
  <2> DEFINE s == t.pending
  <2>1. TakeFor(t, rid) = [x |-> Head(s), t |-> [t EXCEPT !.pending = Tail(s)]]
    BY <1>2 DEF TakeFor
  <2>2. s \in Seq(TrackedRequests) /\ Len(s) \in Nat /\ s # <<>>
    BY <1>2, TrackerShape
  <2>3. 1 \in 1 .. Len(s) /\ 1 \in DOMAIN s /\ Head(s) = s[1]
    BY <2>2
  <2>4. Tail(s) = WithoutPending(s, 1)
    <3>1. /\ WithoutPending(s, 1) \in Seq(TrackedRequests) /\ Len(WithoutPending(s, 1)) = Len(s) - 1
          /\ \A j \in 1 .. Len(s) - 1 : WithoutPending(s, 1)[j] = IF j < 1 THEN s[j] ELSE s[j + 1]
      BY <2>2, <2>3, RemovedEntries, ZenonT(40)
    <3>2. /\ Tail(s) \in Seq(TrackedRequests) /\ Len(Tail(s)) = Len(s) - 1
          /\ \A j \in 1 .. Len(s) - 1 : Tail(s)[j] = s[j + 1]
      BY <2>2
    <3> DEFINE r == WithoutPending(s, 1)
               v == Tail(s)
    <3> HIDE DEF r, v
    <3>3. r \in Seq(TrackedRequests) /\ v \in Seq(TrackedRequests) /\ Len(r) = Len(v)
      BY <3>1, <3>2 DEF r, v
    <3>4. ASSUME NEW j \in 1 .. Len(r) PROVE r[j] = v[j]
      BY <3>1, <3>2, <3>4, <2>2 DEF r, v
    <3>5. r = v
      BY <3>3, <3>4
    <3> QED BY <3>5 DEF r, v
  <2> DEFINE u == [t EXCEPT !.pending = WithoutPending(@, 1)]
  <2>5. u \in Trackers /\ KeptOnce(u) /\ HoldsOf(u) = HoldsOf(t) \ {s[1].hold} /\ u.active = t.active
    BY <2>3, RemovePendingKeeps
  <2>8. TakeFor(t, rid) = [x |-> s[1], t |-> u]
    BY <2>1, <2>3, <2>4, ZenonT(40)
  <2> HIDE DEF u
  <2>6. s[1] \in TrackedRequests /\ <<"pending", 1>> \in Places(t) /\ Entry(t, <<"pending", 1>>) = s[1]
    BY <2>2, <2>3, TrackerShape DEF Places, Entry
  <2>7. s[1].hold \in HoldsOf(t) \cup {0}
    BY <2>6 DEF HoldsOf, TrackedRequests
  <2> QED BY <1>2, <2>5, <2>6, <2>7, <2>8 DEF IsActive
<1>3. CASE ~IsActive(t, rid) /\ t.pending = <<>>
  <2>1. TakeFor(t, rid) = [x |-> Untracked, t |-> t]
    BY <1>3 DEF TakeFor
  <2>2. Untracked \in TrackedRequests /\ Untracked.hold = 0
    BY DEF Untracked, TrackedRequests, MaybeIds
  <2>3. 0 \notin HoldsOf(t)
    BY DEF HoldsOf
  <2> QED BY <1>3, <2>1, <2>2, <2>3 DEF IsActive
<1> QED BY <1>1, <1>2, <1>3

LEMMA IdentifiedShape ==
    ASSUME NEW x \in TrackedRequests, NEW rid \in MaybeIds
    PROVE  /\ Identified(x, rid) \in TrackedRequests /\ Identified(x, rid).hold = x.hold
           /\ [Identified(x, rid) EXCEPT !.started = TRUE] \in TrackedRequests
           /\ [Identified(x, rid) EXCEPT !.started = TRUE].hold = x.hold
  BY ZenonT(40) DEF Identified, TrackedRequests

LEMMA CreatedKeeps ==
    ASSUME NEW t \in Trackers, KeptOnce(t), NEW rid \in MaybeIds
    PROVE  LET u == RegisterResponseCreated(t, rid)
           IN  u \in Trackers /\ KeptOnce(u) /\ HoldsOf(u) = HoldsOf(t)
<1>1. CASE rid = NoWs \/ rid \in t.done
  BY <1>1 DEF RegisterResponseCreated
<1>2. CASE ~(rid = NoWs \/ rid \in t.done)
  <2> DEFINE k == TakeFor(t, rid)
             x == [Identified(k.x, rid) EXCEPT !.started = TRUE]
  <2>1. RegisterResponseCreated(t, rid) = WithActive(k.t, rid, x) /\ rid \in ResponseIds
    BY <1>2 DEF RegisterResponseCreated, MaybeIds
  <2>2. /\ k.x \in TrackedRequests /\ k.t \in Trackers /\ KeptOnce(k.t)
        /\ k.x.hold \in HoldsOf(t) \cup {0} /\ HoldsOf(k.t) = HoldsOf(t) \ {k.x.hold}
        /\ rid \notin DOMAIN k.t.active
    BY TakenFor
  <2> HIDE DEF k
  <2>3. x \in TrackedRequests /\ x.hold = k.x.hold
    BY <2>2, IdentifiedShape
  <2> HIDE DEF x
  <2>4. 0 \notin HoldsOf(t)
    BY DEF HoldsOf
  <2>5. LET u == WithActive(k.t, rid, x)
        IN  u \in Trackers /\ KeptOnce(u) /\ HoldsOf(u) = HoldsOf(k.t) \cup ({x.hold} \ {0})
    BY <2>1, <2>2, <2>3, WithActiveKeeps
  <2> QED BY <2>1, <2>2, <2>3, <2>4, <2>5
<1> QED BY <1>1, <1>2

LEMMA FinishKeeps ==
    ASSUME NEW t \in Trackers, KeptOnce(t), NEW rid \in MaybeIds
    PROVE  LET f == FinishResponse(t, rid)
           IN  /\ f.t \in Trackers /\ KeptOnce(f.t) /\ f.x.hold \in HoldsOf(t) \cup {0}
               /\ HoldsOf(f.t) = HoldsOf(t) \ {f.x.hold}
<1>1. CASE rid # NoWs /\ rid \in t.done
  BY <1>1 DEF FinishResponse, Untracked, HoldsOf
<1>2. CASE ~(rid # NoWs /\ rid \in t.done)
  <2> DEFINE k == TakeFor(t, rid)
             x == Identified(k.x, rid)
             u == IF x.rid = NoWs THEN k.t ELSE [k.t EXCEPT !.done = @ \cup {x.rid}]
  <2>1. FinishResponse(t, rid) = [x |-> x, t |-> u]
    BY <1>2 DEF FinishResponse, FinishedFor
  <2>2. /\ k.x \in TrackedRequests /\ k.t \in Trackers /\ KeptOnce(k.t)
        /\ k.x.hold \in HoldsOf(t) \cup {0} /\ HoldsOf(k.t) = HoldsOf(t) \ {k.x.hold}
    BY TakenFor
  <2> HIDE DEF k
  <2>3. x \in TrackedRequests /\ x.hold = k.x.hold
    BY <2>2, IdentifiedShape, ZenonT(40)
  <2> HIDE DEF x
  <2>4. x.rid # NoWs => x.rid \in ResponseIds
    BY <2>3 DEF TrackedRequests, MaybeIds
  <2>5. u \in Trackers /\ u.pending = k.t.pending /\ u.active = k.t.active
    BY <2>2, <2>4 DEF Trackers
  <2> HIDE DEF u
  <2>6. KeptOnce(u) /\ HoldsOf(u) = HoldsOf(k.t)
    BY <2>2, <2>5 DEF KeptOnce, HoldsOf, Places, Entry
  <2> QED BY <2>1, <2>2, <2>3, <2>5, <2>6
<1> QED BY <1>1, <1>2

LEMMA RetryableKeeps ==
    ASSUME NEW t \in Trackers, KeptOnce(t), NEW rid, NEW r, NEW p \in FindRetryable(t, rid, r)
    PROVE  /\ Entry(t, p) \in TrackedRequests /\ Entry(t, p).hold \in HoldsOf(t) \cup {0}
           /\ TakeRetryable(t, p) \in Trackers /\ KeptOnce(TakeRetryable(t, p))
           /\ HoldsOf(TakeRetryable(t, p)) = HoldsOf(t) \ {Entry(t, p).hold}
<1>1. p \in Unstarted(t)
  BY DEF FindRetryable, LatestUnstarted, Unstarted, IsActive
<1>2. p \in Places(t)
  BY <1>1 DEF Unstarted, Places
<1>3. Entry(t, p) \in TrackedRequests /\ Entry(t, p).hold \in HoldsOf(t) \cup {0}
  BY <1>2, TrackerShape DEF HoldsOf, TrackedRequests
<1>4. ASSUME NEW i \in DOMAIN t.pending, p = <<"pending", i>>
      PROVE  /\ TakeRetryable(t, p) \in Trackers /\ KeptOnce(TakeRetryable(t, p))
             /\ HoldsOf(TakeRetryable(t, p)) = HoldsOf(t) \ {Entry(t, p).hold}
  BY <1>4, RemovePendingKeeps DEF TakeRetryable, TakeEntry, Entry
<1>5. ASSUME NEW i \in DOMAIN t.active, p = <<"active", i>>
      PROVE  /\ TakeRetryable(t, p) \in Trackers /\ KeptOnce(TakeRetryable(t, p))
             /\ HoldsOf(TakeRetryable(t, p)) = HoldsOf(t) \ {Entry(t, p).hold}
  BY <1>5, WithoutActiveKeeps DEF TakeRetryable, TakeEntry, Entry
<1> QED BY <1>2, <1>3, <1>4, <1>5 DEF Places

LEMMA UnfinishedAreHeld == ASSUME NEW t \in Trackers PROVE UnfinishedHolds(t) = HoldsOf(t)
<1>1. \A p \in Places(t) : Entry(t, p) \in TrackedRequests
  BY TrackerShape
<1>2. \A i \in DOMAIN t.pending : <<"pending", i>> \in Places(t) /\ Entry(t, <<"pending", i>>) = t.pending[i]
  BY DEF Places, Entry
<1>3. \A i \in DOMAIN t.active : <<"active", i>> \in Places(t) /\ Entry(t, <<"active", i>>) = t.active[i]
  BY DEF Places, Entry
<1>4. \A p \in Places(t) : \/ \E i \in DOMAIN t.pending : p = <<"pending", i>>
                           \/ \E i \in DOMAIN t.active : p = <<"active", i>>
  BY DEF Places
<1>5. \A h \in UnfinishedHolds(t) : h \in HoldsOf(t)
  BY <1>2, <1>3, ZenonT(40) DEF UnfinishedHolds, HoldsOf
<1>6. \A h \in HoldsOf(t) : h \in UnfinishedHolds(t)
  BY <1>2, <1>3, <1>4 DEF UnfinishedHolds, HoldsOf
<1> QED BY <1>5, <1>6

\* The tracker keeps open holds only, each once; and every open hold, as long
\* as the client named no response.  No hold is closed twice.
WsInv ==
    /\ tracker \in Trackers /\ KeptOnce(tracker)
    /\ holds \in Seq(HoldRows)
    /\ metered \in BOOLEAN /\ (~metered => holds = <<>>)
    /\ \A h \in HoldsOf(tracker) : h \in DOMAIN holds /\ holds[h].closed = 0
    /\ (\A h \in DOMAIN holds : holds[h].rid = NoWs) =>
         \A h \in DOMAIN holds : holds[h].closed = 0 => h \in HoldsOf(tracker)
    /\ wsPhase = "closed" => HoldsOf(tracker) = {}
    /\ wsPhase \in {"pick", "connect"} => HoldsOf(tracker) = {}

\* The same of any tracker t and holds hs.
Billed(t, hs) ==
    /\ t \in Trackers /\ KeptOnce(t)
    /\ hs \in Seq(HoldRows)
    /\ \A h \in HoldsOf(t) : h \in DOMAIN hs /\ hs[h].closed = 0
    /\ (\A h \in DOMAIN hs : hs[h].rid = NoWs) =>
         \A h \in DOMAIN hs : hs[h].closed = 0 => h \in HoldsOf(t)

\* Closing a hold the tracker gave up.
LEMMA CloseKeeps ==
    ASSUME NEW t \in Trackers, NEW hs, Billed(t, hs),
           NEW h \in HoldsOf(t) \cup {0}, NEW u \in Trackers, KeptOnce(u), HoldsOf(u) = HoldsOf(t) \ {h}
    PROVE  Billed(u, CloseHold(hs, h))
<1>0. 0 \notin HoldsOf(t)
  BY DEF HoldsOf
<1>1. CASE h = 0
  BY <1>0, <1>1 DEF Billed, CloseHold
<1>2. CASE h # 0
  <2> DEFINE c == [hs EXCEPT ![h].closed = @ + 1]
  <2>1. h \in DOMAIN hs /\ hs[h].closed = 0 /\ hs \in Seq(HoldRows)
    BY <1>2 DEF Billed
  <2>2. DOMAIN c = DOMAIN hs /\ Len(c) = Len(hs)
    BY <2>1
  <2>3. hs[h] \in HoldRows
    BY <2>1
  <2>4. c[h] = [hs[h] EXCEPT !.closed = 1] /\ \A i \in DOMAIN hs : i # h => c[i] = hs[i]
    BY <2>1, <2>3
  <2>5. c[h] \in HoldRows /\ c[h].closed = 1 /\ c[h].rid = hs[h].rid
    BY <2>3, <2>4 DEF HoldRows
  <2>6. c \in Seq(HoldRows)
    BY <2>1, <2>2, <2>4, <2>5
  <2>7. CloseHold(hs, h) = c
    BY <1>2 DEF CloseHold
  <2> HIDE DEF c
  <2>8. \A i \in HoldsOf(u) : i \in DOMAIN c /\ c[i].closed = 0
    BY <2>2, <2>4 DEF Billed
  <2>9. ASSUME \A i \in DOMAIN c : c[i].rid = NoWs, NEW i \in DOMAIN c, c[i].closed = 0
        PROVE  i \in HoldsOf(u)
    <3>1. \A j \in DOMAIN hs : hs[j].rid = NoWs
      BY <2>1, <2>2, <2>4, <2>5, <2>9, ZenonT(40)
    <3>2. i # h
      <4>1. CASE i = h
        <5>1. c[h].closed = 0
          BY <2>9, <4>1
        <5> QED BY <2>5, <5>1
      <4> QED BY <4>1
    <3>3. hs[i].closed = 0
      BY <2>2, <2>4, <2>9, <3>2
    <3> QED BY <2>2, <3>1, <3>2, <3>3 DEF Billed
  <2>10. Billed(u, c)
    BY <2>6, <2>8, <2>9 DEF Billed
  <2> QED BY <2>7, <2>10
<1> QED BY <1>1, <1>2

LEMMA AppendedHold ==
    ASSUME NEW hs \in Seq(HoldRows), NEW rid \in MaybeIds, NEW c \in {0, 1}
    PROVE  LET g == Append(hs, [rid |-> rid, closed |-> c])
               n == Len(hs) + 1
           IN  /\ g \in Seq(HoldRows)
               /\ n \in Nat \ {0} /\ n \notin DOMAIN hs /\ DOMAIN g = DOMAIN hs \cup {n}
               /\ g[n].rid = rid /\ g[n].closed = c
               /\ \A h \in DOMAIN hs : g[h] = hs[h]
<1> DEFINE x == [rid |-> rid, closed |-> c]
           g == Append(hs, x)
           n == Len(hs) + 1
<1>1. x \in HoldRows /\ x.rid = rid /\ x.closed = c
  BY DEF HoldRows
<1> HIDE DEF x
<1>2. Len(hs) \in Nat /\ DOMAIN hs = 1 .. Len(hs)
  OBVIOUS
<1>3. /\ g \in Seq(HoldRows) /\ DOMAIN g = 1 .. Len(hs) + 1
      /\ g[n] = x /\ \A h \in 1 .. Len(hs) : g[h] = hs[h]
  BY <1>1
<1>4. n \in Nat \ {0} /\ n \notin 1 .. Len(hs) /\ 1 .. Len(hs) + 1 = (1 .. Len(hs)) \cup {n}
  BY <1>2
<1> QED BY <1>1, <1>2, <1>3, <1>4 DEF x

\* Opening a hold and tracking it.
LEMMA OpenKeeps ==
    ASSUME NEW t, NEW hs, Billed(t, hs), metered \in BOOLEAN, ~metered => hs = <<>>,
           NEW x \in TrackedRequests, x.hold = NewHold(hs)
    PROVE  Billed(RegisterTracked(t, x), OpenHold(hs, x.rid))
<1>1. CASE ~metered
  <2>1. hs = <<>> /\ x.hold = 0 /\ OpenHold(hs, x.rid) = hs
    BY <1>1 DEF NewHold, OpenHold
  <2>2. HoldsOf(t) = {} /\ t \in Trackers /\ KeptOnce(t)
    BY <2>1 DEF Billed
  <2>3. LET u == RegisterTracked(t, x) IN u \in Trackers /\ KeptOnce(u) /\ HoldsOf(u) \subseteq {0}
    BY <2>1, <2>2, RegisterKeeps
  <2>4. HoldsOf(RegisterTracked(t, x)) = {}
    BY <2>3 DEF HoldsOf
  <2>5. hs \in Seq(HoldRows)
    BY DEF Billed
  <2> DEFINE u == RegisterTracked(t, x)
  <2> HIDE DEF u
  <2>6. Billed(u, hs)
    BY <2>1, <2>3, <2>4, <2>5 DEF Billed, u
  <2> QED BY <2>1, <2>6 DEF u
<1>2. CASE metered
  <2> DEFINE n == Len(hs) + 1
             g == Append(hs, [rid |-> x.rid, closed |-> 0])
             u == RegisterTracked(t, x)
  <2>1. x.hold = n /\ OpenHold(hs, x.rid) = g
    BY <1>2 DEF NewHold, OpenHold
  <2>2. /\ g \in Seq(HoldRows)
        /\ n \in Nat \ {0} /\ n \notin DOMAIN hs /\ DOMAIN g = DOMAIN hs \cup {n}
        /\ g[n].rid = x.rid /\ g[n].closed = 0
        /\ \A h \in DOMAIN hs : g[h] = hs[h]
    <3>1. x.rid \in MaybeIds /\ hs \in Seq(HoldRows)
      BY DEF TrackedRequests, Billed
    <3> QED BY <3>1, AppendedHold, ZenonT(40)
  <2>3. t \in Trackers /\ KeptOnce(t) /\ x.hold \notin HoldsOf(t)
    BY <2>1, <2>2 DEF Billed
  <2>4. /\ u \in Trackers /\ KeptOnce(u) /\ HoldsOf(u) \subseteq HoldsOf(t) \cup {n}
        /\ x.rid = NoWs => HoldsOf(u) = HoldsOf(t) \cup {n}
    BY <2>1, <2>2, <2>3, RegisterKeeps
  <2> HIDE DEF u, g, n
  <2>5. \A h \in HoldsOf(u) : h \in DOMAIN g /\ g[h].closed = 0
    BY <2>2, <2>4 DEF Billed
  <2>6. (\A h \in DOMAIN g : g[h].rid = NoWs) =>
           \A h \in DOMAIN g : g[h].closed = 0 => h \in HoldsOf(u)
    BY <2>2, <2>4 DEF Billed
  <2>7. Billed(u, g)
    BY <2>2, <2>4, <2>5, <2>6 DEF Billed
  <2> QED BY <2>1, <2>7 DEF u
<1> QED BY <1>1, <1>2

\* A retry closes the old hold after it opened the new one; the order does not
\* matter.
LEMMA OpenThenClose ==
    ASSUME NEW hs \in Seq(HoldRows), NEW rid \in MaybeIds, NEW h \in DOMAIN hs \cup {0}
    PROVE  /\ CloseHold(OpenHold(hs, rid), h) = OpenHold(CloseHold(hs, h), rid)
           /\ NewHold(CloseHold(hs, h)) = NewHold(hs)
<1>1. CASE h = 0
  BY <1>1 DEF CloseHold
<1>2. CASE h # 0
  <2> DEFINE x == [rid |-> rid, closed |-> 0]
             y == [hs[h] EXCEPT !.closed = @ + 1]
             c == [hs EXCEPT ![h] = y]
  <2>1. /\ \A g : CloseHold(g, h) = [g EXCEPT ![h].closed = @ + 1]
        /\ CloseHold(hs, h) = c
    BY <1>2 DEF CloseHold
  <2>2. Len(hs) \in Nat /\ DOMAIN hs = 1 .. Len(hs) /\ h \in 1 .. Len(hs)
    BY <1>2
  <2> DEFINE R == HoldRows \cup {y}
  <2>3. hs \in Seq(R) /\ c \in Seq(R) /\ Len(c) = Len(hs)
    BY <2>2
  <2> HIDE DEF x, y
  <2>4. NewHold(CloseHold(hs, h)) = NewHold(hs)
    BY <2>1, <2>3 DEF NewHold
  <2>5. [Append(hs, x) EXCEPT ![h] = y] = Append(c, x)
    <3> DEFINE l == [Append(hs, x) EXCEPT ![h] = y]
               k == Append(c, x)
               Q == HoldRows \cup {x, y}
    <3>1. hs \in Seq(Q) /\ c \in Seq(Q)
      BY <2>2
    <3>2. Append(hs, x) \in Seq(Q) /\ Len(Append(hs, x)) = Len(hs) + 1
          /\ \A i \in 1 .. Len(hs) + 1 : Append(hs, x)[i] = IF i = Len(hs) + 1 THEN x ELSE hs[i]
      BY <3>1
    <3>3. k \in Seq(Q) /\ Len(k) = Len(hs) + 1
          /\ \A i \in 1 .. Len(hs) + 1 : k[i] = IF i = Len(hs) + 1 THEN x ELSE c[i]
      BY <2>3, <3>1
    <3>4. DOMAIN l = 1 .. Len(hs) + 1 /\ DOMAIN k = 1 .. Len(hs) + 1
      BY <3>2, <3>3
    <3>5. ASSUME NEW i \in 1 .. Len(hs) + 1 PROVE l[i] = k[i]
      <4>1. CASE i = h
        BY <4>1, <2>2, <3>2, <3>3
      <4>2. CASE i # h
        <5> DEFINE g == Append(hs, x)
        <5>0. i \in DOMAIN g /\ l = [g EXCEPT ![h] = y]
          BY <3>2
        <5> HIDE DEF g, l
        <5>1. l[i] = Append(hs, x)[i]
          BY <4>2, <5>0, ZenonT(40) DEF g
        <5>2. i # Len(hs) + 1 => c[i] = hs[i]
          BY <4>2, <2>2
        <5> HIDE DEF l, k, c
        <5> QED BY <5>1, <5>2, <3>2, <3>3
      <4> QED BY <4>1, <4>2
    <3>6. l = [i \in DOMAIN l |-> l[i]] /\ k = [i \in DOMAIN k |-> k[i]]
      BY <3>3
    <3> HIDE DEF l, k
    <3>7. l = k
      BY <3>4, <3>5, <3>6
    <3> QED BY <3>7 DEF l, k
  <2>6. Append(hs, x)[h] = hs[h]
    BY <2>2
  <2>7. CloseHold(Append(hs, x), h) = [Append(hs, x) EXCEPT ![h] = y]
    BY <2>1, <2>6, ZenonT(40) DEF y
  <2>8. CloseHold(Append(hs, x), h) = Append(CloseHold(hs, h), x)
    BY <2>1, <2>5, <2>7
  <2> QED BY <2>4, <2>8, ZenonT(40) DEF OpenHold, x
<1> QED BY <1>1, <1>2

LEMMA BilledInv == WsInv <=>
    /\ Billed(tracker, holds) /\ metered \in BOOLEAN /\ (~metered => holds = <<>>)
    /\ wsPhase \in {"closed", "pick", "connect"} => HoldsOf(tracker) = {}
  BY DEF WsInv, Billed

LEMMA HandshakeStep ==
    ASSUME WsInv, Handshake \/ DeadlinePasses \/ RecoverAccount
    PROVE  WsInv'
<1>1. UNCHANGED sessionVars /\ UNCHANGED metered
  BY DEF Handshake, PickAccountWs, SkipSharedUnhealthy, NoRouteWs, RetryWithoutSubprotocol,
         RetryHandshake, NoOutboundProxy, HandshakeFails, UpgradeWs, DeadlinePasses, RecoverAccount
<1>2. wsPhase' \in {"closed", "pick", "connect"} => HoldsOf(tracker) = {}
  BY DEF Handshake, PickAccountWs, SkipSharedUnhealthy, NoRouteWs, RetryWithoutSubprotocol,
         RetryHandshake, NoOutboundProxy, HandshakeFails, UpgradeWs, DeadlinePasses, RecoverAccount,
         WsInv
<1> QED BY <1>1, <1>2 DEF WsInv, sessionVars

\* A step of the session that leaves the rest of the connection in place.
LEMMA SessionKeeps ==
    ASSUME WsInv, wsPhase = "stream", UNCHANGED <<wsPhase, metered>>,
           Billed(tracker', holds'), ~metered => holds' = <<>>
    PROVE  WsInv'
<1>1. wsPhase' = "stream" /\ metered' \in BOOLEAN /\ (~metered' => holds' = <<>>)
  BY DEF WsInv
<1> QED BY <1>1 DEF WsInv, Billed

\* Finishing a response, whatever holds hs there are.
LEMMA FinishBilled ==
    ASSUME NEW t, NEW hs, Billed(t, hs), NEW rid \in MaybeIds
    PROVE  LET f == FinishResponse(t, rid)
           IN  Billed(f.t, CloseHold(hs, f.x.hold)) /\ (hs = <<>> => CloseHold(hs, f.x.hold) = <<>>)
<1> DEFINE f == FinishResponse(t, rid)
<1>1. t \in Trackers /\ KeptOnce(t)
  BY DEF Billed
<1>2. /\ f.t \in Trackers /\ KeptOnce(f.t) /\ f.x.hold \in HoldsOf(t) \cup {0}
      /\ HoldsOf(f.t) = HoldsOf(t) \ {f.x.hold}
  BY <1>1, FinishKeeps
<1> HIDE DEF f
<1>3. Billed(f.t, CloseHold(hs, f.x.hold))
  BY <1>1, <1>2, CloseKeeps
<1>4. ASSUME hs = <<>> PROVE CloseHold(hs, f.x.hold) = <<>>
  <2>1. f.x.hold = 0
    BY <1>2, <1>4 DEF Billed
  <2> QED BY <1>4, <2>1 DEF CloseHold
<1> QED BY <1>3, <1>4 DEF f

\* Every step of the connection keeps the invariant.
LEMMA WsStep == WsInv /\ [WsNext]_wsVars => WsInv'
<1> SUFFICES ASSUME WsInv, [WsNext]_wsVars PROVE WsInv'
  OBVIOUS
<1>0. /\ Billed(tracker, holds) /\ metered \in BOOLEAN /\ (~metered => holds = <<>>)
      /\ tracker \in Trackers /\ KeptOnce(tracker) /\ holds \in Seq(HoldRows)
  BY BilledInv DEF Billed
<1>1. CASE UNCHANGED wsVars
  BY <1>1 DEF wsVars, handshakeVars, sessionVars, WsInv
<1>2. CASE Handshake \/ DeadlinePasses \/ RecoverAccount
  BY <1>2, HandshakeStep
<1>3. ASSUME NEW r \in WsRequests, NEW rid \in MaybeIds, NEW named \in BOOLEAN, SendRequest(r, rid, named)
      PROVE  WsInv'
  <2> DEFINE x == [req |-> r, hold |-> NewHold(holds), rid |-> rid, named |-> named, started |-> FALSE]
  <2>1. NewHold(holds) \in Nat
    BY <1>0 DEF NewHold
  <2>2. x \in TrackedRequests /\ x.hold = NewHold(holds) /\ x.rid = rid
    BY <2>1 DEF TrackedRequests
  <2>3. tracker' = RegisterTracked(tracker, x) /\ holds' = OpenHold(holds, rid)
        /\ wsPhase = "stream" /\ UNCHANGED <<wsPhase, metered>>
    BY <1>3 DEF SendRequest, SameSocket, Stays
  <2> HIDE DEF x
  <2>4. Billed(RegisterTracked(tracker, x), OpenHold(holds, x.rid))
    BY <1>0, <2>2, OpenKeeps
  <2>5. ~metered => holds' = <<>>
    BY <1>0, <2>3 DEF OpenHold
  <2> QED BY <2>2, <2>3, <2>4, <2>5, SessionKeeps
<1>4. ASSUME NEW policy \in BOOLEAN, EndSession(policy)
      PROVE  WsInv'
  <2> DEFINE H == HoldsOf(tracker)
             c == [h \in DOMAIN holds |-> IF h \in H THEN [holds[h] EXCEPT !.closed = @ + 1] ELSE holds[h]]
             u == [tracker EXCEPT !.pending = <<>>, !.active = <<>>]
  <2>1. holds' = c /\ tracker' = u /\ UNCHANGED metered
    BY <1>0, <1>4, UnfinishedAreHeld DEF EndSession, CloseHolds, Stays
  <2>2. Len(holds) \in Nat /\ DOMAIN holds = 1 .. Len(holds) /\ \A h \in DOMAIN holds : holds[h] \in HoldRows
    BY <1>0
  <2>3. \A h \in DOMAIN holds : c[h] \in HoldRows
                                /\ (c[h].closed = 0 => holds[h].closed = 0 /\ h \notin H)
                                /\ c[h].rid = holds[h].rid
    BY <1>0, <2>2 DEF HoldRows, Billed
  <2>4. c \in Seq(HoldRows) /\ DOMAIN c = DOMAIN holds
    BY <2>2, <2>3
  <2> HIDE DEF c
  <2>5. u \in Trackers /\ u.pending = <<>> /\ DOMAIN u.active = {}
    <3>1. <<>> \in [{} -> TrackedRequests] /\ {} \in SUBSET ResponseIds /\ DOMAIN <<>> = {}
      OBVIOUS
    <3>2. <<>> \in UNION {[S -> TrackedRequests] : S \in SUBSET ResponseIds}
      BY <3>1
    <3> DEFINE e == <<>>
    <3>3. e \in Seq(TrackedRequests) /\ DOMAIN e = {}
          /\ e \in UNION {[S -> TrackedRequests] : S \in SUBSET ResponseIds}
      BY <3>1, <3>2
    <3> HIDE DEF e
    <3>4. LET v == [tracker EXCEPT !.pending = e, !.active = e]
          IN  v \in Trackers /\ v.pending = e /\ v.active = e
      BY <1>0, <3>3, ZenonT(40) DEF Trackers
    <3> QED BY <3>3, <3>4 DEF e
  <2> HIDE DEF u
  <2>6. HoldsOf(u) = {} /\ KeptOnce(u)
    BY <2>5 DEF HoldsOf, KeptOnce, Places
  <2>7. Billed(u, c)
    BY <1>0, <2>3, <2>4, <2>5, <2>6 DEF Billed
  <2>8. ~metered => c = <<>>
    BY <1>0, <2>2, <2>4
  <2> QED BY <1>0, <2>1, <2>6, <2>7, <2>8 DEF WsInv, Billed
<1>5. ASSUME NEW rid \in MaybeIds, ResponseCreated(rid)
      PROVE  WsInv'
  <2> DEFINE u == RegisterResponseCreated(tracker, rid)
  <2>1. u \in Trackers /\ KeptOnce(u) /\ HoldsOf(u) = HoldsOf(tracker)
    BY <1>0, CreatedKeeps
  <2>2. tracker' = u /\ holds' = holds /\ wsPhase = "stream" /\ UNCHANGED <<wsPhase, metered>>
    BY <1>5 DEF ResponseCreated, SameSocket, Stays
  <2> HIDE DEF u
  <2>3. Billed(u, holds)
    BY <1>0, <2>1 DEF Billed
  <2> QED BY <1>0, <2>2, <2>3, SessionKeeps
<1>6. ASSUME NEW rid \in MaybeIds, WsResponseCompleted(rid) \/ ResponseReleased(rid)
      PROVE  WsInv'
  <2> DEFINE f == FinishResponse(tracker, rid)
  <2>1. Billed(f.t, CloseHold(holds, f.x.hold)) /\ (holds = <<>> => CloseHold(holds, f.x.hold) = <<>>)
    BY <1>0, FinishBilled
  <2>2. tracker' = f.t /\ holds' = CloseHold(holds, f.x.hold)
        /\ wsPhase = "stream" /\ UNCHANGED <<wsPhase, metered>>
    BY <1>6 DEF WsResponseCompleted, ResponseReleased, SameSocket, Stays
  <2> HIDE DEF f
  <2> QED BY <1>0, <2>1, <2>2, SessionKeeps
<1>7. ASSUME NEW scope \in {"none", "same", "cross"}, NEW rid \in MaybeIds,
             NEW r \in WsRequests \cup {NoWs}, RetryOnNewSocket(scope, rid, r)
      PROVE  WsInv'
  <2>1. PICK p \in FindRetryable(tracker, rid, r) :
          LET x == Entry(tracker, p)
              retried == [x EXCEPT !.hold = NewHold(holds)]
          IN  /\ tracker' = RegisterTracked(TakeRetryable(tracker, p), retried)
              /\ holds' = CloseHold(OpenHold(holds, x.rid), x.hold)
    BY <1>7 DEF RetryOnNewSocket
  <2>2. wsPhase = "stream" /\ UNCHANGED <<wsPhase, metered>>
    BY <1>7 DEF RetryOnNewSocket, Stays
  <2> DEFINE x == Entry(tracker, p)
             retried == [x EXCEPT !.hold = NewHold(holds)]
             u == TakeRetryable(tracker, p)
             c == CloseHold(holds, x.hold)
  <2>3. /\ x \in TrackedRequests /\ x.hold \in HoldsOf(tracker) \cup {0}
        /\ u \in Trackers /\ KeptOnce(u) /\ HoldsOf(u) = HoldsOf(tracker) \ {x.hold}
    BY <1>0, RetryableKeeps
  <2>4. tracker' = RegisterTracked(u, retried) /\ holds' = CloseHold(OpenHold(holds, x.rid), x.hold)
    BY <2>1
  <2> HIDE DEF x, u
  <2>5. Billed(u, c)
    BY <1>0, <2>3, CloseKeeps
  <2>6. x.hold \in DOMAIN holds \cup {0} /\ x.rid \in MaybeIds
    BY <1>0, <2>3 DEF Billed, TrackedRequests
  <2>7. CloseHold(OpenHold(holds, x.rid), x.hold) = OpenHold(c, x.rid) /\ NewHold(c) = NewHold(holds)
    BY <1>0, <2>6, OpenThenClose
  <2>8. NewHold(holds) \in Nat
    BY <1>0 DEF NewHold
  <2>9. retried \in TrackedRequests /\ retried.hold = NewHold(holds) /\ retried.rid = x.rid
    BY <2>3, <2>8 DEF TrackedRequests
  <2>10. ~metered => c = <<>>
    BY <1>0, <2>6 DEF CloseHold
  <2> HIDE DEF retried, c
  <2>11. Billed(RegisterTracked(u, retried), OpenHold(c, retried.rid))
    BY <1>0, <2>5, <2>7, <2>9, <2>10, OpenKeeps
  <2>12. ~metered => holds' = <<>>
    BY <2>4, <2>7, <2>10 DEF OpenHold
  <2> QED BY <2>2, <2>4, <2>7, <2>9, <2>11, <2>12, SessionKeeps
<1>8. ASSUME NEW scope \in {"none", "same", "cross"}, NEW rid \in MaybeIds,
             NEW r \in WsRequests \cup {NoWs}, ErrorReachesClient(scope, rid, r)
      PROVE  WsInv'
  <2> DEFINE f == FinishResponse(tracker, rid)
             g == Append(holds, [rid |-> rid, closed |-> 1])
  <2>1. wsPhase = "stream" /\ UNCHANGED <<wsPhase, metered>> /\ tracker' = f.t
    BY <1>8 DEF ErrorReachesClient, Stays
  <2>2. \/ holds' = CloseHold(holds, f.x.hold)
        \/ metered /\ holds' = CloseHold(g, f.x.hold)
    BY <1>8, ZenonT(40) DEF ErrorReachesClient
  <2>3. Billed(tracker, g)
    <3> DEFINE n == Len(holds) + 1
    <3>1. /\ g \in Seq(HoldRows) /\ DOMAIN g = DOMAIN holds \cup {n}
          /\ g[n].closed = 1 /\ \A h \in DOMAIN holds : g[h] = holds[h]
      BY <1>0, AppendedHold, ZenonT(40)
    <3> HIDE DEF g, n
    <3> QED BY <1>0, <3>1 DEF Billed
  <2> HIDE DEF g
  <2>4. CASE holds' = CloseHold(holds, f.x.hold)
    <3>1. Billed(f.t, CloseHold(holds, f.x.hold)) /\ (holds = <<>> => CloseHold(holds, f.x.hold) = <<>>)
      BY <1>0, FinishBilled
    <3> HIDE DEF f
    <3> QED BY <1>0, <2>1, <2>4, <3>1, SessionKeeps
  <2>5. CASE metered /\ holds' = CloseHold(g, f.x.hold)
    <3>1. Billed(f.t, CloseHold(g, f.x.hold))
      BY <2>3, FinishBilled
    <3> HIDE DEF f
    <3> QED BY <2>1, <2>5, <3>1, SessionKeeps
  <2> QED BY <2>2, <2>4, <2>5
<1> QED BY <1>1, <1>2, <1>3, <1>4, <1>5, <1>6, <1>7, <1>8 DEF WsNext, Session

LEMMA WsStarts == WsInit => WsInv
<1> SUFFICES ASSUME WsInit PROVE WsInv
  OBVIOUS
<1>1. tracker \in Trackers /\ tracker.pending = <<>> /\ DOMAIN tracker.active = {} /\ holds = <<>>
  BY DEF WsInit, NoTracker, Trackers
<1>2. HoldsOf(tracker) = {} /\ KeptOnce(tracker)
  BY <1>1 DEF HoldsOf, KeptOnce, Places
<1> QED BY <1>1, <1>2 DEF WsInit, WsInv

\* Every hold of a session is closed once it is over, as long as the client
\* named no response: by a capture or a release, through any mix of
\* completions, failures, retries on another socket and the end of the session.
THEOREM SessionAlwaysSettles == WsSafetySpec => []HoldsAreSettled
<1>1. WsInv => HoldsAreSettled
  <2> SUFFICES ASSUME WsInv, wsPhase = "closed", \A h \in DOMAIN holds : holds[h].rid = NoWs,
                      NEW h \in DOMAIN holds
               PROVE  holds[h].closed = 1
    BY DEF HoldsAreSettled
  <2>1. holds[h] \in HoldRows
    BY DEF WsInv
  <2>2. holds[h].closed # 0
    BY DEF WsInv
  <2> QED BY <2>1, <2>2 DEF HoldRows
<1> QED BY <1>1, WsStarts, WsStep, PTL DEF WsSafetySpec

\* No hold of a session is closed twice.
THEOREM SessionHoldsCloseOnce == WsSafetySpec => []HoldClosedOnce
<1>1. WsInv => HoldClosedOnce
  <2> SUFFICES ASSUME WsInv, NEW h \in DOMAIN holds
               PROVE  holds[h].closed <= 1
    BY DEF HoldClosedOnce
  <2>1. holds[h] \in HoldRows
    BY DEF WsInv
  <2> QED BY <2>1 DEF HoldRows
<1> QED BY <1>1, WsStarts, WsStep, PTL DEF WsSafetySpec

-----------------------------------------------------------------------------
\* BackgroundResponses, for every number of responses, callers and frames.

Statuses == {"absent", "queued", "in_progress", "completed", "incomplete", "failed", "cancelled"}

Record == [status : Statuses, cancelled : BOOLEAN, events : Seq(FrameKinds \cup {"cancelled"})]

WorkerRow ==
  [step : {"none", "permit", "mark", "send", "fail", "read", "result", "cursor", "snapshot", "check", "eof", "done"},
   saw : BOOLEAN, says : {"none", "unread", "in_progress", "completed", "incomplete"},
   after : {"none", "leave", "check", "eof"}, previous : BOOLEAN]

RecordTypes == entries \in [BgRequests -> Record] /\ bgWorkers \in [BgRequests -> WorkerRow]

\* What cancelled a record also marked it, for the worker to see.
CancelledIsMarked == \A q \in BgRequests : entries[q].status = "cancelled" => entries[q].cancelled

\* A worker knows what it is to write, and where it goes on.
WorkersAreReady ==
  \A q \in BgRequests :
    /\ bgWorkers[q].step \in {"result", "snapshot"} => bgWorkers[q].says \in {"in_progress", "completed", "incomplete"}
    /\ bgWorkers[q].step = "snapshot" => bgWorkers[q].after \in {"check", "eof"}
    /\ bgWorkers[q].step = "cursor" => bgWorkers[q].after \in {"leave", "check", "eof"}

RecordInv == RecordTypes /\ CancelledIsMarked /\ WorkersAreReady

\* What a step may do to a cancelled record: nothing, or drop it.
Respects(q) == entries[q].status = "cancelled" => entries'[q].status \in {"cancelled", "absent"}

LEMMA NoRecordType == NoRecord \in Record /\ NoRecord.status = "absent"
<1>1. <<>> \in Seq(FrameKinds \cup {"cancelled"})
  OBVIOUS
<1> QED BY <1>1 DEF NoRecord, Record, Statuses

LEMMA RecordInvInit == BgInit => RecordInv
<1> SUFFICES ASSUME BgInit PROVE RecordInv
  OBVIOUS
<1>1. NoRecord \in Record /\ NoRecord.status = "absent"
  BY NoRecordType
<1>2. IdleWorker \in WorkerRow /\ IdleWorker.step = "none"
  BY DEF IdleWorker, WorkerRow
<1>3. RecordTypes
  BY <1>1, <1>2 DEF BgInit, RecordTypes
<1>4. CancelledIsMarked /\ WorkersAreReady
  BY <1>1, <1>2 DEF BgInit, CancelledIsMarked, WorkersAreReady
<1> QED BY <1>3, <1>4 DEF RecordInv

\* A step that leaves the workers alone and writes v for the record of q.
LEMMA RecordWritten ==
  ASSUME RecordInv, NEW q \in BgRequests, NEW v \in Record,
         entries' = [entries EXCEPT ![q] = v],
         v.status = "cancelled" => v.cancelled,
         v.status = entries[q].status \/ v.status = "absent" \/ ~entries[q].cancelled
  PROVE  /\ entries' \in [BgRequests -> Record] /\ CancelledIsMarked'
         /\ \A p \in BgRequests : Respects(p)
<1>1. entries' \in [BgRequests -> Record] /\ entries'[q] = v /\ \A p \in BgRequests \ {q} : entries'[p] = entries[p]
  BY DEF RecordInv, RecordTypes
<1>2. CancelledIsMarked'
  BY <1>1 DEF RecordInv, CancelledIsMarked
<1>3. \A p \in BgRequests : Respects(p)
  BY <1>1 DEF Respects, RecordInv, CancelledIsMarked
<1> QED BY <1>1, <1>2, <1>3

\* A worker that goes on to w.
LEMMA WorkerGoesOn ==
  ASSUME RecordInv, NEW q \in BgRequests, NEW w \in WorkerRow,
         bgWorkers' = [bgWorkers EXCEPT ![q] = w],
         w.step \in {"result", "snapshot"} => w.says \in {"in_progress", "completed", "incomplete"},
         w.step = "snapshot" => w.after \in {"check", "eof"},
         w.step = "cursor" => w.after \in {"leave", "check", "eof"}
  PROVE  bgWorkers' \in [BgRequests -> WorkerRow] /\ WorkersAreReady'
<1>1. /\ bgWorkers' \in [BgRequests -> WorkerRow] /\ bgWorkers'[q] = w
      /\ \A p \in BgRequests \ {q} : bgWorkers'[p] = bgWorkers[p]
  BY DEF RecordInv, RecordTypes
<1>2. WorkersAreReady'
  BY <1>1 DEF RecordInv, WorkersAreReady
<1> QED BY <1>1, <1>2

LEMMA WorkersStay ==
  ASSUME RecordInv, UNCHANGED bgWorkers
  PROVE  bgWorkers' \in [BgRequests -> WorkerRow] /\ WorkersAreReady'
  BY DEF RecordInv, RecordTypes, WorkersAreReady

LEMMA RecordsStay ==
  ASSUME RecordInv, UNCHANGED entries
  PROVE  /\ entries' \in [BgRequests -> Record] /\ CancelledIsMarked'
         /\ \A p \in BgRequests : Respects(p)
  BY DEF RecordInv, RecordTypes, CancelledIsMarked, Respects

\* A worker writes a status only into a record that is not marked.
LEMMA StatusWritten ==
  ASSUME RecordInv, NEW q \in BgRequests, NEW s \in Statuses \ {"cancelled"},
         entries' = IF Open(q) THEN [entries EXCEPT ![q].status = s] ELSE entries
  PROVE  /\ entries' \in [BgRequests -> Record] /\ CancelledIsMarked'
         /\ \A p \in BgRequests : Respects(p)
<1> DEFINE v == [entries[q] EXCEPT !.status = s]
<1>1. entries[q] \in Record
  BY DEF RecordInv, RecordTypes
<1>2. v \in Record /\ v.status = s
  BY <1>1 DEF Record
<1>3. CASE Open(q)
  <2>1. entries' = [entries EXCEPT ![q] = v] /\ ~entries[q].cancelled
    BY <1>3 DEF Open
  <2> HIDE DEF v
  <2> QED BY <1>2, <2>1, RecordWritten, ZenonT(40)
<1> QED BY <1>3, RecordsStay

LEMMA QueueStep ==
  ASSUME RecordInv, NEW q \in BgRequests, QueueBackgroundResponse(q)
  PROVE  RecordInv' /\ \A p \in BgRequests : Respects(p)
<1> DEFINE v == [NoRecord EXCEPT !.status = "queued"]
           w == [IdleWorker EXCEPT !.step = "permit", !.previous = Previous(q) # NoKey]
<1>1. v \in Record /\ v.status = "queued"
  BY NoRecordType DEF Record, Statuses
<1>2. w \in WorkerRow /\ w.step = "permit"
  BY ZenonT(40) DEF IdleWorker, WorkerRow
<1>3. entries' = [entries EXCEPT ![q] = v] /\ bgWorkers' = [bgWorkers EXCEPT ![q] = w] /\ entries[q].status = "absent"
  BY DEF QueueBackgroundResponse, Stored
<1> HIDE DEF v, w
<1>4. bgWorkers' \in [BgRequests -> WorkerRow] /\ WorkersAreReady'
  BY <1>2, <1>3, WorkerGoesOn, ZenonT(40)
<1>5. /\ entries' \in [BgRequests -> Record] /\ entries'[q] = v
      /\ \A p \in BgRequests \ {q} : entries'[p] = entries[p]
  BY <1>1, <1>3 DEF RecordInv, RecordTypes
<1>6. CancelledIsMarked'
  BY <1>1, <1>5 DEF RecordInv, CancelledIsMarked
<1>7. \A p \in BgRequests : Respects(p)
  BY <1>1, <1>3, <1>5 DEF Respects
<1> QED BY <1>4, <1>5, <1>6, <1>7 DEF RecordInv, RecordTypes

\* A record that is there already, and was not cancelled, before it is stored:
\* none; what is written is not cancelled either.
LEMMA StoreStep ==
  ASSUME RecordInv, NEW q \in BgRequests, StoreCompletedResponse(q)
  PROVE  RecordInv' /\ \A p \in BgRequests : Respects(p)
<1> DEFINE v == [NoRecord EXCEPT !.status = "completed"]
<1>1. v \in Record /\ v.status = "completed"
  BY NoRecordType DEF Record, Statuses
<1>2. /\ entries' = [entries EXCEPT ![q] = v] \/ entries' = entries
      /\ bgWorkers' = bgWorkers /\ entries[q].status = "absent"
  BY DEF StoreCompletedResponse, Stored
<1> HIDE DEF v
<1>3. bgWorkers' \in [BgRequests -> WorkerRow] /\ WorkersAreReady'
  BY <1>2, WorkersStay
<1>4. CASE entries' = [entries EXCEPT ![q] = v]
  <2>1. /\ entries' \in [BgRequests -> Record] /\ entries'[q] = v
        /\ \A p \in BgRequests \ {q} : entries'[p] = entries[p]
    BY <1>1, <1>4 DEF RecordInv, RecordTypes
  <2>2. CancelledIsMarked'
    BY <1>1, <2>1 DEF RecordInv, CancelledIsMarked
  <2>3. \A p \in BgRequests : Respects(p)
    BY <1>1, <1>2, <2>1 DEF Respects
  <2> QED BY <1>3, <2>1, <2>2, <2>3 DEF RecordInv, RecordTypes
<1> QED BY <1>2, <1>3, <1>4, RecordsStay DEF RecordInv, RecordTypes

LEMMA CancelStep ==
  ASSUME RecordInv, NEW q \in BgRequests, CancelResponse(q)
  PROVE  RecordInv' /\ \A p \in BgRequests : Respects(p)
<1> DEFINE marked == [entries[q] EXCEPT !.cancelled = TRUE]
           set == [marked EXCEPT !.status = "cancelled"]
           told == [set EXCEPT !.events = Append(set.events, "cancelled")]
           v == CancelledRecord(q, entries[q])
<1>1. entries[q] \in Record
  BY DEF RecordInv, RecordTypes
<1>2. marked \in Record /\ marked.cancelled /\ marked.status = entries[q].status
  BY <1>1, ZenonT(40) DEF Record
<1>3. v = marked \/ v = set \/ v = told
  BY DEF CancelledRecord, AppendFrame
<1> HIDE DEF marked
<1>4. set \in Record /\ set.cancelled
  BY <1>2 DEF Record, Statuses
<1> HIDE DEF set
<1>5. Append(set.events, "cancelled") \in Seq(FrameKinds \cup {"cancelled"})
  BY <1>4 DEF Record
<1>6. told \in Record /\ told.cancelled
  BY <1>4, <1>5 DEF Record
<1> HIDE DEF told
<1>7. v \in Record /\ v.cancelled
  BY <1>2, <1>3, <1>4, <1>6
<1>8. entries' = [entries EXCEPT ![q] = v] /\ bgWorkers' = bgWorkers /\ ~entries[q].cancelled
  BY DEF CancelResponse
<1> HIDE DEF v
<1> QED BY <1>7, <1>8, RecordWritten, WorkersStay, ZenonT(40) DEF RecordInv, RecordTypes

LEMMA CleanupStep ==
  ASSUME RecordInv, CleanupExpired
  PROVE  RecordInv' /\ \A p \in BgRequests : Respects(p)
<1>1. NoRecord \in Record /\ NoRecord.status = "absent"
  BY NoRecordType
<1>2. /\ entries' = [q \in BgRequests |-> IF q \in expired THEN NoRecord ELSE entries[q]]
      /\ bgWorkers' = bgWorkers
  BY DEF CleanupExpired
<1>3. entries' \in [BgRequests -> Record]
  BY <1>1, <1>2 DEF RecordInv, RecordTypes
<1>4. CancelledIsMarked'
  BY <1>1, <1>2 DEF RecordInv, CancelledIsMarked
<1>5. \A p \in BgRequests : Respects(p)
  BY <1>1, <1>2 DEF Respects
<1> QED BY <1>2, <1>3, <1>4, <1>5, WorkersStay DEF RecordInv, RecordTypes

\* Where the task of q ends.
LEMMA LeaveIsReady ==
  ASSUME RecordInv, NEW q \in BgRequests, NEW c, Leave(q, c)
  PROVE  bgWorkers' \in [BgRequests -> WorkerRow] /\ WorkersAreReady'
<1> DEFINE w == [IdleWorker EXCEPT !.step = "done"]
<1>1. w \in WorkerRow /\ w.step = "done"
  BY ZenonT(40) DEF IdleWorker, WorkerRow
<1>2. bgWorkers' = [bgWorkers EXCEPT ![q] = w]
  BY DEF Leave
<1> HIDE DEF w
<1> QED BY <1>1, <1>2, WorkerGoesOn, ZenonT(40)

LEMMA GoesIsReady ==
  ASSUME RecordInv, NEW q \in BgRequests, NEW s \in {"mark", "send", "fail", "read", "check", "eof"}, Goes(q, s)
  PROVE  bgWorkers' \in [BgRequests -> WorkerRow] /\ WorkersAreReady'
<1> DEFINE w == [bgWorkers[q] EXCEPT !.step = s]
<1>1. bgWorkers[q] \in WorkerRow
  BY DEF RecordInv, RecordTypes
<1>2. w \in WorkerRow /\ w.step = s
  BY <1>1 DEF WorkerRow
<1>3. bgWorkers' = [bgWorkers EXCEPT ![q] = w]
  BY DEF Goes
<1> HIDE DEF w
<1> QED BY <1>2, <1>3, WorkerGoesOn, ZenonT(40)

LEMMA MarkStep ==
  ASSUME RecordInv, NEW q \in BgRequests, MarkBackgroundInProgress(q)
  PROVE  RecordInv' /\ \A p \in BgRequests : Respects(p)
<1>1. entries' = IF Open(q) THEN [entries EXCEPT ![q].status = "in_progress"] ELSE entries
  BY ZenonT(40) DEF MarkBackgroundInProgress, Open
<1>2. Goes(q, "send") \/ Leave(q, FALSE)
  BY ZenonT(40) DEF MarkBackgroundInProgress
<1>3. bgWorkers' \in [BgRequests -> WorkerRow] /\ WorkersAreReady'
  BY <1>2, LeaveIsReady, GoesIsReady, ZenonT(40)
<1>4. "in_progress" \in Statuses \ {"cancelled"}
  BY DEF Statuses
<1>5. entries' \in [BgRequests -> Record] /\ CancelledIsMarked' /\ \A p \in BgRequests : Respects(p)
  BY <1>1, <1>4, StatusWritten
<1> QED BY <1>3, <1>5 DEF RecordInv, RecordTypes

LEMMA SelfRequestStep ==
  ASSUME RecordInv, NEW q \in BgRequests, SelfRequest(q)
  PROVE  RecordInv' /\ \A p \in BgRequests : Respects(p)
<1> DEFINE reads == [IdleWorker EXCEPT !.step = "read"]
           unread == [IdleWorker EXCEPT !.step = "done", !.says = "unread"]
           answered(says) == [bgWorkers[q] EXCEPT !.step = "result", !.says = says]
<1>1. UNCHANGED entries
  BY DEF SelfRequest
<1>2. \/ Goes(q, "fail")
      \/ bgWorkers' = [bgWorkers EXCEPT ![q] = reads]
      \/ bgWorkers' = [bgWorkers EXCEPT ![q] = unread]
      \/ \E says \in {"completed", "incomplete"} : bgWorkers' = [bgWorkers EXCEPT ![q] = answered(says)]
  BY ZenonT(40) DEF SelfRequest
<1>3. bgWorkers' \in [BgRequests -> WorkerRow] /\ WorkersAreReady'
  <2>1. CASE Goes(q, "fail")
    BY <2>1, GoesIsReady
  <2>2. ASSUME NEW w \in {reads, unread}, bgWorkers' = [bgWorkers EXCEPT ![q] = w]
        PROVE  bgWorkers' \in [BgRequests -> WorkerRow] /\ WorkersAreReady'
    <3>1. reads \in WorkerRow /\ reads.step = "read" /\ unread \in WorkerRow /\ unread.step = "done"
      BY ZenonT(40) DEF IdleWorker, WorkerRow
    <3> HIDE DEF reads, unread
    <3>2. w \in WorkerRow /\ w.step \in {"read", "done"}
      BY <3>1
    <3> QED BY <2>2, <3>2, WorkerGoesOn, ZenonT(40)
  <2>3. ASSUME NEW says \in {"completed", "incomplete"}, bgWorkers' = [bgWorkers EXCEPT ![q] = answered(says)]
        PROVE  bgWorkers' \in [BgRequests -> WorkerRow] /\ WorkersAreReady'
    <3>1. bgWorkers[q] \in WorkerRow
      BY DEF RecordInv, RecordTypes
    <3>2. answered(says) \in WorkerRow /\ answered(says).step = "result" /\ answered(says).says = says
      BY <3>1, ZenonT(40) DEF WorkerRow
    <3> HIDE DEF answered
    <3> QED BY <2>3, <3>2, WorkerGoesOn, ZenonT(40)
  <2> QED BY <1>2, <2>1, <2>2, <2>3
<1> QED BY <1>1, <1>3, RecordsStay DEF RecordInv, RecordTypes

LEMMA ResultStep ==
  ASSUME RecordInv, NEW q \in BgRequests, ApplyBackgroundResult(q) \/ ApplyBackgroundFailure(q)
  PROVE  RecordInv' /\ \A p \in BgRequests : Respects(p)
<1> DEFINE s == IF bgWorkers[q].step = "fail" THEN "failed" ELSE bgWorkers[q].says
           w == [bgWorkers[q] EXCEPT !.step = "cursor", !.after = "leave"]
<1>1. bgWorkers[q] \in WorkerRow /\ s \in Statuses \ {"cancelled"}
  BY ZenonT(40) DEF RecordInv, RecordTypes, WorkersAreReady, ApplyBackgroundResult, ApplyBackgroundFailure, Statuses
<1>2. entries' = IF Open(q) THEN [entries EXCEPT ![q].status = s] ELSE entries
  BY ZenonT(40) DEF ApplyBackgroundResult, ApplyBackgroundFailure
<1>3. Leave(q, TRUE) \/ bgWorkers' = [bgWorkers EXCEPT ![q] = w]
  BY ZenonT(40) DEF ApplyBackgroundResult, ApplyBackgroundFailure
<1>4. w \in WorkerRow /\ w.step = "cursor" /\ w.after = "leave"
  BY <1>1, ZenonT(40) DEF WorkerRow
<1> HIDE DEF w, s
<1>5. bgWorkers' \in [BgRequests -> WorkerRow] /\ WorkersAreReady'
  BY <1>3, <1>4, WorkerGoesOn, LeaveIsReady, ZenonT(40)
<1> QED BY <1>1, <1>2, <1>5, StatusWritten, ZenonT(40) DEF RecordInv, RecordTypes

LEMMA FrameStep ==
  ASSUME RecordInv, NEW q \in BgRequests, NEW kind \in FrameKinds, NEW last \in BOOLEAN,
         AppendBackgroundStreamFrame(q, kind, last)
  PROVE  RecordInv' /\ \A p \in BgRequests : Respects(p)
<1> DEFINE next == IF last THEN "eof" ELSE "check"
           v == [entries[q] EXCEPT !.events = Append(entries[q].events, kind)]
           w == [bgWorkers[q] EXCEPT !.step = "snapshot", !.says = kind, !.after = next]
<1>1. entries[q] \in Record /\ bgWorkers[q] \in WorkerRow /\ next \in {"eof", "check"}
  BY DEF RecordInv, RecordTypes
<1>2. entries' = [entries EXCEPT ![q] = v] \/ entries' = entries
  BY DEF AppendBackgroundStreamFrame, AppendFrame
<1>3. Goes(q, next) \/ (kind # "delta" /\ bgWorkers' = [bgWorkers EXCEPT ![q] = w])
  BY ZenonT(40) DEF AppendBackgroundStreamFrame, Goes
<1> HIDE DEF next
<1>4. v \in Record /\ v.status = entries[q].status /\ v.cancelled = entries[q].cancelled
  <2>1. Append(entries[q].events, kind) \in Seq(FrameKinds \cup {"cancelled"})
    BY <1>1 DEF Record
  <2> QED BY <1>1, <2>1 DEF Record
<1>5. ASSUME kind # "delta"
      PROVE  w \in WorkerRow /\ w.step = "snapshot" /\ w.says \in {"in_progress", "completed"} /\ w.after = next
  BY <1>1, <1>5, ZenonT(40) DEF WorkerRow, FrameKinds
<1> HIDE DEF v, w
<1>6. bgWorkers' \in [BgRequests -> WorkerRow] /\ WorkersAreReady'
  BY <1>1, <1>3, <1>5, WorkerGoesOn, GoesIsReady
<1>7. v.status = "cancelled" => v.cancelled
  BY <1>4, ZenonT(40) DEF RecordInv, CancelledIsMarked
<1>8. entries' \in [BgRequests -> Record] /\ CancelledIsMarked' /\ \A p \in BgRequests : Respects(p)
  BY <1>2, <1>4, <1>7, RecordWritten, RecordsStay
<1> QED BY <1>6, <1>8 DEF RecordInv, RecordTypes

LEMMA SnapshotStep ==
  ASSUME RecordInv, NEW q \in BgRequests, ApplyBackgroundResponseSnapshot(q)
  PROVE  RecordInv' /\ \A p \in BgRequests : Respects(p)
<1> DEFINE s == bgWorkers[q].says
           next == bgWorkers[q].after
           w(x) == [bgWorkers[q] EXCEPT !.step = x]
<1>1. bgWorkers[q] \in WorkerRow /\ s \in Statuses \ {"cancelled"} /\ next \in {"check", "eof"}
  BY DEF RecordInv, RecordTypes, WorkersAreReady, ApplyBackgroundResponseSnapshot, Statuses
<1>2. entries' = IF Open(q) THEN [entries EXCEPT ![q].status = s] ELSE entries
  BY DEF ApplyBackgroundResponseSnapshot
<1>3. PICK x \in {"cursor", next} : bgWorkers' = [bgWorkers EXCEPT ![q] = w(x)]
  BY ZenonT(40) DEF ApplyBackgroundResponseSnapshot
<1>4. w(x) \in WorkerRow /\ w(x).step = x /\ w(x).after = next
  BY <1>1 DEF WorkerRow
<1> HIDE DEF w, s
<1>5. bgWorkers' \in [BgRequests -> WorkerRow] /\ WorkersAreReady'
  BY <1>1, <1>3, <1>4, WorkerGoesOn, ZenonT(40)
<1> QED BY <1>1, <1>2, <1>5, StatusWritten, ZenonT(40) DEF RecordInv, RecordTypes

\* The steps of a worker that write no record.
LEMMA QuietStep ==
  ASSUME RecordInv, NEW q \in BgRequests,
         AcquirePermit(q) \/ StoreConversationCursor(q) \/ CheckStatus(q) \/ SelfStreamFails(q) \/ SelfStreamEof(q)
  PROVE  RecordInv' /\ \A p \in BgRequests : Respects(p)
<1> DEFINE b == bgWorkers[q].saw \/ (Retrievable(q) /\ entries[q].status \in Terminal)
           w == [bgWorkers[q] EXCEPT !.step = "read", !.says = "none", !.after = "none", !.saw = b]
<1>1. bgWorkers[q] \in WorkerRow /\ b \in BOOLEAN
  BY DEF RecordInv, RecordTypes, WorkerRow
<1>2. UNCHANGED entries
  BY ZenonT(40) DEF AcquirePermit, StoreConversationCursor, CheckStatus, SelfStreamFails, SelfStreamEof
<1>3. CASE CheckStatus(q)
  <2>1. bgWorkers' = [bgWorkers EXCEPT ![q] = w]
    BY <1>3, ZenonT(40) DEF CheckStatus
  <2> HIDE DEF b
  <2>2. w \in WorkerRow /\ w.step = "read"
    BY <1>1, ZenonT(40) DEF WorkerRow
  <2> HIDE DEF w
  <2> QED BY <1>2, <2>1, <2>2, WorkerGoesOn, RecordsStay, ZenonT(40) DEF RecordInv, RecordTypes
<1>4. CASE ~CheckStatus(q)
  <2>1. \/ Leave(q, TRUE)
        \/ \E s \in {"mark", "send", "fail", "read", "check", "eof"} : Goes(q, s)
    BY <1>4, ZenonT(40) DEF AcquirePermit, StoreConversationCursor, SelfStreamFails, SelfStreamEof, RecordInv, WorkersAreReady
  <2> QED BY <1>2, <2>1, LeaveIsReady, GoesIsReady, RecordsStay, ZenonT(40) DEF RecordInv, RecordTypes
<1> QED BY <1>3, <1>4

\* Readers, the clock and stuttering.
LEMMA ReaderStep ==
  ASSUME RecordInv, UNCHANGED <<entries, bgWorkers>>
  PROVE  RecordInv' /\ \A p \in BgRequests : Respects(p)
  BY WorkersStay, RecordsStay DEF RecordInv, RecordTypes

LEMMA RecordInvStep ==
  ASSUME RecordInv, [BgNext]_bgVars
  PROVE  RecordInv' /\ \A p \in BgRequests : Respects(p)
<1>1. ASSUME NEW q \in BgRequests, BgWorkerStep(q)
      PROVE  RecordInv' /\ \A p \in BgRequests : Respects(p)
  BY <1>1, MarkStep, SelfRequestStep, ResultStep, FrameStep, SnapshotStep, QuietStep DEF BgWorkerStep
<1>2. ASSUME NEW q \in BgRequests,
             QueueBackgroundResponse(q) \/ StoreCompletedResponse(q) \/ CancelResponse(q)
      PROVE  RecordInv' /\ \A p \in BgRequests : Respects(p)
  BY <1>2, QueueStep, StoreStep, CancelStep
<1>3. ASSUME NEW q \in BgRequests, BgTick(q)
      PROVE  RecordInv' /\ \A p \in BgRequests : Respects(p)
  BY <1>3, ReaderStep DEF BgTick
<1>4. ASSUME NEW r \in BgReaders,
             \/ \E q \in BgRequests, n \in 0..1 : StreamResponse(r, q, n)
             \/ BgReaderStep(r) \/ ReaderLeaves(r)
      PROVE  RecordInv' /\ \A p \in BgRequests : Respects(p)
  <2>1. UNCHANGED <<entries, bgWorkers>>
    BY <1>4, ZenonT(40) DEF StreamResponse, BgReaderStep, ReaderScan, ReaderDelivers, ReaderLeaves
  <2> QED BY <2>1, ReaderStep
<1>5. CASE UNCHANGED bgVars
  BY <1>5, ReaderStep DEF bgVars
<1> QED BY <1>1, <1>2, <1>3, <1>4, <1>5, CleanupStep DEF BgNext

\* A response cancelled before it ended stays cancelled for as long as it is
\* kept, whatever the worker that was running it brings back.
THEOREM CancelAlwaysSticks == BgSpec => CancelSticks
<1> DEFINE Kept == \A q \in BgRequests :
                     (entries[q].status = "cancelled" /\ entries'[q].status # "absent")
                       => entries'[q].status = "cancelled"
<1>1. RecordInv /\ [BgNext]_bgVars => RecordInv'
  BY RecordInvStep
<1>2. RecordInv /\ [BgNext]_bgVars => [Kept]_bgVars
  BY RecordInvStep DEF Respects
<1> QED BY <1>1, <1>2, RecordInvInit, PTL DEF BgSpec, CancelSticks
=============================================================================
