------------------------- MODULE BackgroundResponses -------------------------
(***************************************************************************)
(* The data plane's store of responses (proxy/responses_api.rs): the       *)
(* records a background request is queued in, the worker that runs each of *)
(* them through the proxy itself and writes what comes back, the readers   *)
(* that follow a stored stream, cancellation, retention, and the cursors   *)
(* that let a conversation go on from its last response.                   *)
(*                                                                         *)
(* One step of a worker or a reader is what it does between two awaits     *)
(* that can change what it sees: each acquisition of the `entries` lock is *)
(* a step of its own.  The retention clock is the set of records whose     *)
(* time is over.  What a response or a frame says is abstracted to its     *)
(* status.                                                                 *)
(***************************************************************************)
EXTENDS Integers, Sequences, FiniteSets

CONSTANTS
  BgRequests,
  BgWorlds,    \* the requests that may be made: functions from BgRequests to
               \* [owner, conv, session, stream, background, store, followed]
  BgReaders,   \* clients that follow a stream
  MaxConcurrency,
  MaxBgFrames, \* frames the upstream sends, bound of the model
  NoKey        \* no conversation, no session key, no response

BgKeys == UNION {UNION {{w[q].conv, w[q].session} : q \in BgRequests} : w \in BgWorlds} \ {NoKey}

VARIABLES
  asked,     \* request -> what it asks
  entries,   \* request -> its record, or NoRecord
  cursors,   \* conversation or session key -> [owner, id, local], or NoKey
  expired,   \* records whose retention is over
  bgWorkers, \* request -> [step, saw, says, after, previous]
  inFlight,  \* in_flight_total
  readers    \* reader -> [step, of, next, got, terminal]

bgVars == <<asked, entries, cursors, expired, bgWorkers, inFlight, readers>>

NoRecord == [status |-> "absent", cancelled |-> FALSE, events |-> <<>>]

Terminal == {"completed", "failed", "cancelled", "incomplete"}

IdleWorker == [step |-> "none", saw |-> FALSE, says |-> "none", after |-> "none", previous |-> FALSE]

IdleReader == [step |-> "none", of |-> NoKey, start |-> 0, next |-> 0, got |-> <<>>, terminal |-> FALSE]

BgInit ==
  /\ asked \in BgWorlds
  /\ entries = [q \in BgRequests |-> NoRecord]
  /\ cursors = [k \in BgKeys |-> NoKey]
  /\ expired = {}
  /\ bgWorkers = [q \in BgRequests |-> IdleWorker]
  /\ inFlight = 0
  /\ readers = [r \in BgReaders |-> IdleReader]

Stored(q) == entries[q].status # "absent"

Retrievable(q) == Stored(q) /\ q \notin expired

\* Another owner's cursor under the same key is not this owner's.
CurrentResponse(o, k) ==
  IF k # NoKey /\ cursors[k] # NoKey /\ cursors[k].owner = o /\ cursors[k].id \notin expired
  THEN cursors[k] ELSE NoKey

WithCursor(cs, k, q, local) ==
  IF k = NoKey THEN cs ELSE [cs EXCEPT ![k] = [owner |-> asked[q].owner, id |-> q, local |-> local]]

----------------------------------------------------------------------------
(* Frames and the readers they wake. *)

StreamEnded(q) == \E i \in DOMAIN entries[q].events : entries[q].events[i] \in Terminal

\* notify_waiters wakes the readers that wait now, and leaves nothing for one
\* that is about to.
NotifyWaiters(q) ==
  [r \in BgReaders |->
     IF readers[r].step = "waiting" /\ readers[r].of = q
     THEN [readers[r] EXCEPT !.step = "scan"] ELSE readers[r]]

AppendFrame(q, rec, event) == [rec EXCEPT !.events = Append(@, event)]

----------------------------------------------------------------------------
(* Requests. *)

\* The response a request is to go on from: the conversation's, else the
\* session's when the request names no conversation that has one.
Previous(q) ==
  LET o == asked[q].owner
      c == CurrentResponse(o, asked[q].conv)
  IN IF c # NoKey THEN c ELSE CurrentResponse(o, asked[q].session)

\* A request whose body names both a previous response and a conversation is
\* refused; the one the handler itself restored is written into the body.
RefusedSemantics(q, previous) == previous /\ asked[q].conv # NoKey

QueueBackgroundResponse(q) ==
  /\ asked[q].background /\ asked[q].store
  /\ bgWorkers[q].step = "none" /\ ~Stored(q) /\ q \notin expired
  /\ entries' = [entries EXCEPT ![q] = [NoRecord EXCEPT !.status = "queued"]]
  /\ bgWorkers' = [bgWorkers EXCEPT ![q] =
                     [IdleWorker EXCEPT !.step = "permit", !.previous = Previous(q) # NoKey]]
  /\ UNCHANGED <<asked, cursors, expired, inFlight, readers>>

\* A foreground request that succeeded (its other steps are ProxyRequest's).
StoreCompletedResponse(q) ==
  /\ ~asked[q].background
  /\ ~Stored(q) /\ q \notin expired
  /\ entries' = IF asked[q].store
                THEN [entries EXCEPT ![q] = [NoRecord EXCEPT !.status = "completed"]]
                ELSE entries
  /\ cursors' = WithCursor(IF asked[q].store THEN WithCursor(cursors, asked[q].conv, q, FALSE) ELSE cursors,
                           asked[q].session, q, FALSE)
  /\ cursors' # cursors \/ entries' # entries
  /\ UNCHANGED <<asked, expired, bgWorkers, inFlight, readers>>

CancelledRecord(q, rec) ==
  LET marked == [rec EXCEPT !.cancelled = TRUE]
  IN IF rec.status \in Terminal THEN marked
     ELSE LET set == [marked EXCEPT !.status = "cancelled"]
          IN IF asked[q].stream THEN AppendFrame(q, set, "cancelled") ELSE set

CancelResponse(q) ==
  /\ Retrievable(q) /\ asked[q].background /\ ~entries[q].cancelled
  /\ entries' = [entries EXCEPT ![q] = CancelledRecord(q, @)]
  /\ readers' = IF entries'[q].events # entries[q].events THEN NotifyWaiters(q) ELSE readers
  /\ UNCHANGED <<asked, cursors, expired, bgWorkers, inFlight>>

\* A record's retention ends.
BgTick(q) ==
  /\ q \notin expired
  /\ Stored(q) \/ \E k \in BgKeys : cursors[k] # NoKey /\ cursors[k].id = q
  /\ expired' = expired \cup {q}
  /\ UNCHANGED <<asked, entries, cursors, bgWorkers, inFlight, readers>>

CleanupExpired ==
  /\ entries' = [q \in BgRequests |-> IF q \in expired THEN NoRecord ELSE entries[q]]
  /\ cursors' = [k \in BgKeys |-> IF cursors[k] # NoKey /\ cursors[k].id \in expired THEN NoKey ELSE cursors[k]]
  /\ entries' # entries \/ cursors' # cursors
  /\ UNCHANGED <<asked, expired, bgWorkers, inFlight, readers>>

----------------------------------------------------------------------------
(* The worker of a background request. *)

Holding == {q \in BgRequests : bgWorkers[q].step \notin {"none", "permit", "done"}}

\* The worker's task ends: its permit goes back; in_flight_total goes down if
\* it had been counted.
Leave(q, counted) ==
  /\ bgWorkers' = [bgWorkers EXCEPT ![q] = [IdleWorker EXCEPT !.step = "done"]]
  /\ inFlight' = IF counted THEN inFlight - 1 ELSE inFlight

Goes(q, step) == bgWorkers' = [bgWorkers EXCEPT ![q].step = step]

AcquirePermit(q) ==
  /\ bgWorkers[q].step = "permit"
  /\ Cardinality(Holding) < MaxConcurrency
  /\ Goes(q, "mark")
  /\ UNCHANGED <<asked, entries, cursors, expired, inFlight, readers>>

MarkBackgroundInProgress(q) ==
  /\ bgWorkers[q].step = "mark"
  /\ \/ /\ Stored(q) /\ ~entries[q].cancelled
        /\ entries' = [entries EXCEPT ![q].status = "in_progress"]
        /\ Goes(q, "send")
        /\ inFlight' = inFlight + 1
     \/ /\ ~Stored(q) \/ entries[q].cancelled
        /\ Leave(q, FALSE)
        /\ UNCHANGED entries
  /\ UNCHANGED <<asked, cursors, expired, readers>>

\* The request the worker sends through the proxy, once its dispatch slot has
\* come: refused, failed, answered with a stream or with a body.  The proxy
\* stores the answer of a request that is not streamed under the upstream's id
\* and moves the conversation there.
SelfRequest(q) ==
  /\ bgWorkers[q].step = "send"
  /\ LET refused == RefusedSemantics(q, bgWorkers[q].previous)
     IN \/ Goes(q, "fail") /\ UNCHANGED <<cursors, inFlight>>
        \/ /\ ~refused /\ asked[q].stream
           /\ bgWorkers' = [bgWorkers EXCEPT ![q] = [IdleWorker EXCEPT !.step = "read"]]
           /\ UNCHANGED <<cursors, inFlight>>
        \/ \E says \in {"completed", "incomplete"} :
             /\ ~refused /\ ~asked[q].stream
             /\ cursors' = WithCursor(WithCursor(cursors, asked[q].conv, q, FALSE), asked[q].session, q, FALSE)
             /\ bgWorkers' = [bgWorkers EXCEPT ![q].step = "result", ![q].says = says]
             /\ UNCHANGED inFlight
        \* A successful answer whose body cannot be read is not written.
        \/ /\ ~refused /\ ~asked[q].stream
           /\ bgWorkers' = [bgWorkers EXCEPT ![q] = [IdleWorker EXCEPT !.step = "done", !.says = "unread"]]
           /\ inFlight' = inFlight - 1
           /\ UNCHANGED cursors
  /\ UNCHANGED <<asked, entries, expired, readers>>

Open(q) == Stored(q) /\ ~entries[q].cancelled

ApplyBackgroundResult(q) ==
  /\ bgWorkers[q].step = "result"
  /\ entries' = IF Open(q) THEN [entries EXCEPT ![q].status = bgWorkers[q].says] ELSE entries
  /\ IF Open(q) /\ asked[q].conv # NoKey
     THEN /\ bgWorkers' = [bgWorkers EXCEPT ![q].step = "cursor", ![q].after = "leave"]
          /\ UNCHANGED inFlight
     ELSE Leave(q, TRUE)
  /\ UNCHANGED <<asked, cursors, expired, readers>>

ApplyBackgroundFailureAlways(q) ==
  /\ bgWorkers[q].step = "fail"
  /\ entries' = IF Stored(q) THEN [entries EXCEPT ![q].status = "failed"] ELSE entries
  /\ Leave(q, TRUE)
  /\ UNCHANGED <<asked, cursors, expired, readers>>

\* No frame tells the readers of the stream.
ApplyBackgroundFailure(q) ==
  /\ bgWorkers[q].step = "fail"
  /\ entries' = IF Open(q) THEN [entries EXCEPT ![q].status = "failed"] ELSE entries
  /\ Leave(q, TRUE)
  /\ UNCHANGED <<asked, cursors, expired, readers>>

\* The events of a stream: one without a response, one that carries the
\* response in progress, or one that ends it, after which none comes.
FrameKinds == {"delta", "in_progress", "completed"}

UpstreamEnded(q) == \E i \in DOMAIN entries[q].events : entries[q].events[i] = "completed"

\* A frame the worker has read whole, or (last) what was left when the stream
\* ended without closing its last frame.
AppendBackgroundStreamFrame(q, kind, last) ==
  /\ bgWorkers[q].step = "read"
  /\ Len(entries[q].events) < MaxBgFrames /\ ~UpstreamEnded(q)
  /\ LET next == IF last THEN "eof" ELSE "check"
     IN IF Retrievable(q)
        THEN /\ entries' = [entries EXCEPT ![q] = AppendFrame(q, @, kind)]
             /\ readers' = NotifyWaiters(q)
             /\ bgWorkers' = IF kind = "delta" THEN [bgWorkers EXCEPT ![q].step = next]
                             ELSE [bgWorkers EXCEPT ![q].step = "snapshot", ![q].says = kind,
                                                    ![q].after = next]
        ELSE Goes(q, next) /\ UNCHANGED <<entries, readers>>
  /\ UNCHANGED <<asked, cursors, expired, inFlight>>

SnapshotMovesCursor(kind) == kind \in Terminal

ApplyBackgroundResponseSnapshot(q) ==
  /\ bgWorkers[q].step = "snapshot"
  /\ LET says == bgWorkers[q].says
         moves == Open(q) /\ SnapshotMovesCursor(says) /\ asked[q].conv # NoKey
     IN /\ entries' = IF Open(q) THEN [entries EXCEPT ![q].status = says] ELSE entries
        /\ bgWorkers' = [bgWorkers EXCEPT ![q].step = IF moves THEN "cursor" ELSE bgWorkers[q].after]
  /\ UNCHANGED <<asked, cursors, expired, inFlight, readers>>

\* The conversation goes on from this response, under the id the proxy gave it.
StoreConversationCursor(q) ==
  /\ bgWorkers[q].step = "cursor"
  /\ cursors' = WithCursor(cursors, asked[q].conv, q, TRUE)
  /\ IF bgWorkers[q].after = "leave" THEN Leave(q, TRUE)
     ELSE Goes(q, bgWorkers[q].after) /\ UNCHANGED inFlight
  /\ UNCHANGED <<asked, entries, expired, readers>>

CheckStatus(q) ==
  /\ bgWorkers[q].step = "check"
  /\ bgWorkers' = [bgWorkers EXCEPT ![q].step = "read", ![q].says = "none", ![q].after = "none",
                     ![q].saw = @ \/ (Retrievable(q) /\ entries[q].status \in Terminal)]
  /\ UNCHANGED <<asked, entries, cursors, expired, inFlight, readers>>

SelfStreamFails(q) ==
  /\ bgWorkers[q].step = "read"
  /\ Goes(q, "fail")
  /\ UNCHANGED <<asked, entries, cursors, expired, inFlight, readers>>

SelfStreamEofSilent(q) ==
  /\ \/ bgWorkers[q].step = "eof"
     \/ bgWorkers[q].step = "read"
  /\ Leave(q, TRUE)
  /\ UNCHANGED <<asked, entries, cursors, expired, readers>>

\* The stream is over; nothing looked at the status the last, open frame set.
SelfStreamEof(q) ==
  /\ bgWorkers[q].step \in {"eof", "read"}
  /\ IF bgWorkers[q].saw THEN Leave(q, TRUE)
     ELSE Goes(q, "fail") /\ UNCHANGED inFlight
  /\ UNCHANGED <<asked, entries, cursors, expired, readers>>

----------------------------------------------------------------------------
(* The readers of a stored stream. *)

StreamResponse(r, q, startingAfter) ==
  /\ readers[r].step = "none"
  /\ Retrievable(q) /\ asked[q].background /\ asked[q].stream /\ asked[q].followed
  /\ readers' = [readers EXCEPT ![r] =
                   [IdleReader EXCEPT !.step = "scan", !.of = q, !.start = startingAfter,
                                      !.next = startingAfter + 1]]
  /\ UNCHANGED <<asked, entries, cursors, expired, bgWorkers, inFlight>>

\* The events from the sequence number the reader waits for.
PendingEvents(r) ==
  SubSeq(entries[readers[r].of].events, readers[r].next, Len(entries[readers[r].of].events))

\* Reads what is new and hands it to the client.
ReaderScan(r) ==
  /\ readers[r].step = "scan"
  /\ LET q == readers[r].of
         pending == PendingEvents(r)
     IN readers' = [readers EXCEPT ![r] =
          IF ~Retrievable(q) THEN [@ EXCEPT !.step = "ended"]
          ELSE [@ EXCEPT !.step = "deliver", !.got = @ \o pending,
                         !.next = IF pending = <<>> THEN @ ELSE Len(entries[q].events) + 1,
                         !.terminal = StreamEnded(q)]]
  /\ UNCHANGED <<asked, entries, cursors, expired, bgWorkers, inFlight>>

\* All it read is delivered; it ends, or goes to wait for a notification.
ReaderDelivers(r) ==
  /\ readers[r].step = "deliver"
  /\ readers' = [readers EXCEPT ![r].step = IF readers[r].terminal THEN "ended" ELSE "waiting"]
  /\ UNCHANGED <<asked, entries, cursors, expired, bgWorkers, inFlight>>

ReaderLeaves(r) ==
  /\ readers[r].step = "deliver"
  /\ readers' = [readers EXCEPT ![r].step = "ended"]
  /\ UNCHANGED <<asked, entries, cursors, expired, bgWorkers, inFlight>>

----------------------------------------------------------------------------

BgWorkerStep(q) ==
  \/ AcquirePermit(q)
  \/ MarkBackgroundInProgress(q)
  \/ SelfRequest(q)
  \/ ApplyBackgroundResult(q)
  \/ ApplyBackgroundFailure(q)
  \/ \E kind \in FrameKinds, last \in BOOLEAN : AppendBackgroundStreamFrame(q, kind, last)
  \/ ApplyBackgroundResponseSnapshot(q)
  \/ StoreConversationCursor(q)
  \/ CheckStatus(q)
  \/ SelfStreamFails(q)
  \/ SelfStreamEof(q)

BgReaderStep(r) == ReaderScan(r) \/ ReaderDelivers(r)

BgNext ==
  \/ \E q \in BgRequests :
       \/ QueueBackgroundResponse(q)
       \/ StoreCompletedResponse(q)
       \/ CancelResponse(q)
       \/ BgTick(q)
       \/ BgWorkerStep(q)
  \/ CleanupExpired
  \/ \E r \in BgReaders :
       \/ \E q \in BgRequests, n \in 0..1 : StreamResponse(r, q, n)
       \/ BgReaderStep(r)
       \/ ReaderLeaves(r)

\* The runtime schedules every spawned worker and reader, the permit queue of
\* the semaphore is first come, first served, and the cleanup loop goes on.
\* An upstream that streams ends its stream at some time.
BgFairness ==
  /\ WF_bgVars(CleanupExpired)
  /\ \A q \in BgRequests : 
       SF_bgVars(AcquirePermit(q)) /\ SF_bgVars(SelfStreamEof(q)) /\ WF_bgVars(BgWorkerStep(q))
  /\ \A r \in BgReaders : WF_bgVars(BgReaderStep(r))

BgSpec == BgInit /\ [][BgNext]_bgVars /\ BgFairness

----------------------------------------------------------------------------
(* Properties. *)

\* A response that was cancelled before it ended stays cancelled for as long
\* as its record is kept, whatever the worker that was running it brings back
\* afterwards.
CancelSticks ==
  [][\A q \in BgRequests :
       (entries[q].status = "cancelled" /\ entries'[q].status # "absent")
         => entries'[q].status = "cancelled"]_bgVars

\* A queued background response ends: completed, failed, cancelled, or gone
\* with its retention; except one whose successful answer had a body that
\* could not be read, which stays in progress.
BackgroundResponsesEnd ==
  \A q \in BgRequests :
    (entries[q].status = "queued") ~>
       (entries[q].status \in Terminal \cup {"absent"} \/ bgWorkers[q].says = "unread")

\* The client that follows a background stream is told that it is over: once
\* the stored stream holds its last event, its readers end.
StreamReadersEnd ==
  \A r \in BgReaders :
    (readers[r].step # "none" /\ StreamEnded(readers[r].of)) ~> (readers[r].step = "ended")
=============================================================================
