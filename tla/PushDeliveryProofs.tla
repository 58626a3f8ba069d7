------------------------- MODULE PushDeliveryProofs -------------------------
(* Proofs about PushDelivery, for any number of devices, drains and events, *)
(* any budget of retries and faults, and any number of claim attempts.      *)
EXTENDS PushDelivery, TLAPS

-----------------------------------------------------------------------------
(* The inductive invariant.                                                 *)

Shape ==
    /\ queue \in [Devices -> SUBSET Row]
    /\ recipients \subseteq Devices \X Events
    /\ dismissedTo \in Dismissals \cup {0}
    /\ expired \subseteq Events
    /\ pc \in [Drains -> {"idle", "chosen", "owner"} \cup Sending]
    /\ task \in [Drains -> Devices \X Events]
    /\ rowLocks \in [Drains -> SUBSET (Devices \X Events)]
    /\ deviceLocks \in [Drains -> SUBSET Devices]
    /\ past \in [Drains -> SUBSET Events]
    /\ shown \in [Devices -> SUBSET Alerts]
    /\ fenced \in [Devices -> Dismissals \cup {0}]
    /\ settled \subseteq Devices \X Events /\ strayed \subseteq Devices
    /\ stalled \subseteq Drains
    /\ retries \in 0 .. MaxRetries /\ faults \in 0 .. MaxFaults

(* One row per event, and the rows stand in one line. *)
Line(rows) ==
    /\ \A r, s \in rows : r.event = s.event => r = s
    /\ \A r \in rows : r.ahead \subseteq Queued(rows)
    /\ \A r, s \in rows : s.event \in r.ahead <=> r # s /\ r.event \notin s.ahead
    /\ \A r, s \in rows : s.event \in r.ahead => s.ahead \subseteq r.ahead

Present(d, e) == \E r \in Rows(d) : r.event = e

Lines == \A d \in Devices : Line(Rows(d))

LeasedRow(d, e) == \E r \in Rows(d) : r.event = e /\ Leased(r)

(* A claim keeps the rows it locked, and no lease on them begins or is      *)
(* renewed; locks exclude each other.                                       *)
Locks ==
    /\ \A w \in Drains : \A p \in rowLocks[w] :
          Present(p[1], p[2]) /\ ~LeasedRow(p[1], p[2])
    /\ \A v, w \in Drains : v # w => rowLocks[v] \cap rowLocks[w] = {}
    /\ \A v, w \in Drains : v # w => deviceLocks[v] \cap deviceLocks[w] = {}
    /\ \A w \in Drains : pc[w] \in {"chosen", "owner"} => task[w] \in rowLocks[w]
    /\ \A w \in Drains : pc[w] = "owner" => task[w][1] \in deviceLocks[w]

(* What was ever queued is known for the deduplication; dismissals that were *)
(* are committed.                                                           *)
Known ==
    /\ \A d \in Devices : \A r \in Rows(d) : <<d, r.event>> \in recipients
    /\ \A p \in settled : p \in recipients /\ ~Present(p[1], p[2])
    /\ \A p \in recipients : p[2] \in Dismissals => p[2] <= dismissedTo
    /\ \A w \in Drains : pc[w] # "idle" => task[w] \in recipients

(* A drain between its lease and its finish that was not stalled. *)
Sends(w) == pc[w] \in Sending /\ w \notin stalled

(* Its lease still holds, no other such drain is at its device, and no claim *)
(* owns the device.                                                         *)
Leases ==
    /\ \A w \in Drains : Sends(w) => HasLease(w)
    /\ \A v, w \in Drains : Sends(v) /\ Sends(w) /\ task[v][1] = task[w][1] => v = w
    /\ \A v, w \in Drains : Sends(v) /\ pc[w] = "owner" => task[v][1] # task[w][1]

(* Trays, and alerts on their way to them. *)
Trays ==
    /\ \A d \in Devices : fenced[d] <= dismissedTo
    /\ \A d \in Devices \ strayed : \A a \in shown[d] : a > fenced[d]
    /\ \A w \in Drains :
          /\ Sends(w) /\ pc[w] \in {"leased", "sending"}
          /\ task[w][2] \in Alerts /\ task[w][1] \notin strayed
          => task[w][2] > fenced[task[w][1]]

Inv == Shape /\ Lines /\ Locks /\ Known /\ Leases /\ Trays

-----------------------------------------------------------------------------
(* The line of a device.                                                    *)

LEMMA WithoutLine ==
    ASSUME NEW rows \in SUBSET Row, Line(rows), NEW gone \in SUBSET Events
    PROVE  /\ Without(rows, gone) \in SUBSET Row
           /\ Line(Without(rows, gone))
           /\ \A s \in Without(rows, gone) :
                \E r \in rows : /\ r.event = s.event /\ r.event \notin gone
                                /\ r.token = s.token /\ r.live = s.live
           /\ \A r \in rows : r.event \notin gone =>
                \E s \in Without(rows, gone) :
                    r.event = s.event /\ r.token = s.token /\ r.live = s.live
<1> DEFINE f(r) == [r EXCEPT !.ahead = @ \ gone]
           kept == {r \in rows : r.event \notin gone}
           left == Without(rows, gone)
<1>1. left = {f(r) : r \in kept}
  BY DEF Without
<1>2. \A r \in rows : /\ f(r) \in Row /\ f(r).event = r.event
                      /\ f(r).ahead = r.ahead \ gone
                      /\ f(r).token = r.token /\ f(r).live = r.live
  BY DEF Row
<1> HIDE DEF f, left
<1>3. \A s \in left : \E r \in kept : s = f(r)
  BY <1>1
<1>4. \A r \in kept : f(r) \in left
  BY <1>1
<1>5. left \subseteq Row
  BY <1>2, <1>3
<1>6. \A r, s \in left : r.event = s.event => r = s
  BY <1>2, <1>3 DEF Line
<1>7. \A r \in left : r.ahead \subseteq Queued(left)
  <2>1. SUFFICES ASSUME NEW r \in kept, NEW e \in f(r).ahead PROVE e \in Queued(left)
    BY <1>3
  <2>2. e \in r.ahead /\ e \notin gone
    BY <1>2, <2>1
  <2>3. PICK s \in rows : s.event = e
    BY <2>2 DEF Line, Queued
  <2>4. f(s) \in left /\ f(s).event = e
    BY <1>2, <1>4, <2>2, <2>3
  <2>5. QED
    BY <2>4 DEF Queued
<1>8. ASSUME NEW t \in left, NEW u \in left
      PROVE  /\ u.event \in t.ahead <=> t # u /\ t.event \notin u.ahead
             /\ u.event \in t.ahead => u.ahead \subseteq t.ahead
  <2>1. PICK r \in kept, s \in kept : t = f(r) /\ u = f(s)
    BY <1>3
  <2>2. f(r) = f(s) <=> r = s
    BY <1>2 DEF Line
  <2>3. /\ s.event \in r.ahead <=> r # s /\ r.event \notin s.ahead
        /\ s.event \in r.ahead => s.ahead \subseteq r.ahead
    BY DEF Line
  <2>4. QED
    BY <1>2, <2>1, <2>2, <2>3
<1>9. Line(left)
  BY <1>6, <1>7, <1>8 DEF Line
<1>10. QED
  BY <1>2, <1>3, <1>4, <1>5, <1>9 DEF left

(* A row is inserted behind a beginning of the line.                       *)
LEMMA EnqueueLine ==
    ASSUME NEW rows \in SUBSET Row, Line(rows), NEW e \in Events,
           \A r \in rows : r.event # e, NEW front \in Fronts(rows)
    PROVE  /\ Enqueue(rows, e, front) \in SUBSET Row
           /\ Line(Enqueue(rows, e, front))
           /\ \A s \in Enqueue(rows, e, front) :
                \/ s.event = e /\ s.token = None
                \/ \E r \in rows : r.event = s.event /\ r.token = s.token /\ r.live = s.live
           /\ \A r \in rows : \E s \in Enqueue(rows, e, front) :
                r.event = s.event /\ r.token = s.token /\ r.live = s.live
           /\ \E s \in Enqueue(rows, e, front) : s.event = e
<1> DEFINE f(r) == IF r.event \in front THEN r ELSE [r EXCEPT !.ahead = @ \cup {e}]
           new == Pending(e, front)
           all == Enqueue(rows, e, front)
<1>1. all = {f(r) : r \in rows} \cup {new}
  BY DEF Enqueue
<1>2. \A r \in rows : /\ f(r) \in Row /\ f(r).event = r.event
                      /\ r.event \in front => f(r).ahead = r.ahead
                      /\ r.event \notin front => f(r).ahead = r.ahead \cup {e}
                      /\ f(r).token = r.token /\ f(r).live = r.live
  BY DEF Row
<1>3. /\ front \subseteq Queued(rows) /\ e \notin Queued(rows)
      /\ \A r \in rows : r.event \in front => r.ahead \subseteq front
  BY DEF Fronts, Queued
<1>4. front \subseteq Events
  BY <1>3 DEF Queued, Row
<1>5. /\ new \in Row /\ new.event = e /\ new.ahead = front /\ new.token = None
  BY <1>4 DEF Pending, Row
<1> HIDE DEF f, new, all
<1>6. \A s \in all : s = new \/ \E r \in rows : s = f(r)
  BY <1>1
<1>7. new \in all /\ \A r \in rows : f(r) \in all
  BY <1>1
<1>8. \A r \in rows : f(r) # new /\ e \notin r.ahead
  BY <1>2, <1>3, <1>5 DEF Line
<1>9. \A r, s \in all : r.event = s.event => r = s
  BY <1>2, <1>5, <1>6 DEF Line
<1>10. Queued(rows) \subseteq Queued(all) /\ e \in Queued(all)
  BY <1>2, <1>5, <1>7 DEF Queued
<1>11. \A r \in all : r.ahead \subseteq Queued(all)
  BY <1>2, <1>3, <1>5, <1>6, <1>10 DEF Line
<1>12. ASSUME NEW r \in rows, NEW s \in rows
       PROVE  /\ f(s).event \in f(r).ahead <=> f(r) # f(s) /\ f(r).event \notin f(s).ahead
              /\ f(s).event \in f(r).ahead => f(s).ahead \subseteq f(r).ahead
  <2>1. s.event # e /\ r.event # e
    OBVIOUS
  <2>2. f(s).event \in f(r).ahead <=> s.event \in r.ahead
    BY <1>2, <2>1
  <2>3. f(r).event \in f(s).ahead <=> r.event \in s.ahead
    BY <1>2, <2>1
  <2>4. f(r) = f(s) <=> r = s
    BY <1>2 DEF Line
  <2>5. ASSUME s.event \in r.ahead PROVE f(s).ahead \subseteq f(r).ahead
    <3>1. s.ahead \subseteq r.ahead
      BY <2>5 DEF Line
    <3>2. s.event \notin front => r.event \notin front
      BY <1>3, <2>5
    <3>3. QED
      BY <1>2, <3>1, <3>2
  <2>6. QED
    BY <2>2, <2>3, <2>4, <2>5 DEF Line
<1>13. ASSUME NEW r \in rows
       PROVE  /\ e \in f(r).ahead <=> r.event \notin front
              /\ e \in f(r).ahead => front \subseteq f(r).ahead
              /\ r.event \in front => f(r).ahead \subseteq front
  <2>1. e \in f(r).ahead <=> r.event \notin front
    BY <1>2, <1>8
  <2>2. ASSUME r.event \notin front, NEW g \in front PROVE g \in r.ahead
    <3>1. PICK s \in rows : s.event = g
      BY <1>3, <2>2 DEF Queued
    <3>2. r.event \notin s.ahead
      BY <1>3, <2>2, <3>1
    <3>3. QED
      BY <2>2, <3>1, <3>2 DEF Line
  <2>3. QED
    BY <1>2, <1>3, <2>1, <2>2
<1>14. ASSUME NEW t \in all, NEW u \in all
       PROVE  /\ u.event \in t.ahead <=> t # u /\ t.event \notin u.ahead
              /\ u.event \in t.ahead => u.ahead \subseteq t.ahead
  <2>1. CASE t = new /\ u = new
    BY <1>3, <1>5, <2>1
  <2>2. ASSUME NEW r \in rows, t = f(r), u = new
        PROVE  /\ u.event \in t.ahead <=> t # u /\ t.event \notin u.ahead
               /\ u.event \in t.ahead => u.ahead \subseteq t.ahead
    BY <1>2, <1>5, <1>8, <1>13, <2>2
  <2>3. ASSUME NEW r \in rows, u = f(r), t = new
        PROVE  /\ u.event \in t.ahead <=> t # u /\ t.event \notin u.ahead
               /\ u.event \in t.ahead => u.ahead \subseteq t.ahead
    BY <1>2, <1>5, <1>8, <1>13, <2>3
  <2>4. QED
    BY <1>6, <1>12, <2>1, <2>2, <2>3
<1>15. all \subseteq Row
  BY <1>2, <1>5, <1>6
<1>16. Line(all)
  BY <1>9, <1>11, <1>14 DEF Line
<1>17. QED
  BY <1>2, <1>5, <1>6, <1>7, <1>15, <1>16 DEF all

(* A lease changes the token and the time of a row, not its place. *)
LEMMA MarkLine ==
    ASSUME NEW rows \in SUBSET Row, Line(rows), NEW h,
           \A r \in rows : h[r] \in Row /\ h[r].event = r.event /\ h[r].ahead = r.ahead
    PROVE  {h[r] : r \in rows} \in SUBSET Row /\ Line({h[r] : r \in rows})
<1> DEFINE new == {h[r] : r \in rows}
<1>1. \A s \in new : \E r \in rows : s = h[r]
  OBVIOUS
<1>2. \A r \in rows : h[r] \in new
  OBVIOUS
<1> HIDE DEF new
<1>3. \A r, s \in new : r.event = s.event => r = s
  BY <1>1 DEF Line
<1>4. Queued(rows) \subseteq Queued(new)
  BY <1>2 DEF Queued
<1>5. \A r \in new : r.ahead \subseteq Queued(new)
  BY <1>1, <1>4 DEF Line
<1>6. \A r, s \in new :
         /\ s.event \in r.ahead <=> r # s /\ r.event \notin s.ahead
         /\ s.event \in r.ahead => s.ahead \subseteq r.ahead
  BY <1>1 DEF Line
<1>7. new \subseteq Row
  BY <1>1
<1>8. QED
  BY <1>3, <1>5, <1>6, <1>7 DEF Line, new

-----------------------------------------------------------------------------
(* What a step does to the rows of one device: some are lost, some change   *)
(* their lease, some are new; the others keep token and lease.              *)
QueueMoves(d, lost, touched, fresh) ==
    /\ queue' \in [Devices -> SUBSET Row]
    /\ Line(queue'[d])
    /\ \A q \in Devices \ {d} : queue'[q] = queue[q]
    /\ \A r \in queue[d] : r.event \notin lost \cup touched =>
          \E s \in queue'[d] : s.event = r.event /\ s.token = r.token /\ s.live = r.live
    /\ \A r \in queue[d] : r.event \in touched => \E s \in queue'[d] : s.event = r.event
    /\ \A s \in queue'[d] : s.event \in fresh => s.token = None
    /\ \A s \in queue'[d] : s.event \notin fresh =>
          /\ s.event \notin lost
          /\ \E r \in queue[d] :
                /\ r.event = s.event
                /\ s.event \notin touched => s.token = r.token /\ s.live = r.live

(* Rows are deleted, and at most one is added after that. *)
LEMMA RemovalMoves ==
    ASSUME Shape, Lines, NEW d \in Devices, NEW gone \in SUBSET Events,
           queue' = [queue EXCEPT ![d] = Without(@, gone)]
    PROVE  QueueMoves(d, gone, {}, {})
<1>1. queue[d] \in SUBSET Row /\ Line(queue[d])
  BY DEF Shape, Lines, Rows
<1>2. queue'[d] = Without(queue[d], gone) /\ \A q \in Devices \ {d} : queue'[q] = queue[q]
  BY DEF Shape
<1>3. queue' \in [Devices -> SUBSET Row]
  BY <1>1, <1>2, WithoutLine DEF Shape
<1>4. QED
  BY <1>1, <1>2, <1>3, WithoutLine DEF QueueMoves

LEMMA ReplacingMoves ==
    ASSUME Shape, Lines, NEW d \in Devices, NEW gone \in SUBSET Events, NEW e \in Events,
           \A r \in queue[d] : r.event = e => r.event \in gone,
           NEW front \in Fronts(Without(queue[d], gone)),
           queue' = [queue EXCEPT ![d] = Enqueue(Without(@, gone), e, front)]
    PROVE  QueueMoves(d, gone \ {e}, gone \cap {e}, {e})
<1> DEFINE left == Without(queue[d], gone)
           all == Enqueue(left, e, front)
<1>1. queue[d] \in SUBSET Row /\ Line(queue[d])
  BY DEF Shape, Lines, Rows
<1>2. queue'[d] = all /\ \A q \in Devices \ {d} : queue'[q] = queue[q]
  BY DEF Shape
<1>3. /\ left \in SUBSET Row /\ Line(left)
      /\ \A s \in left :
            \E r \in queue[d] : /\ r.event = s.event /\ r.event \notin gone
                                /\ s.token = r.token /\ s.live = r.live
      /\ \A r \in queue[d] : r.event \notin gone =>
            \E s \in left : r.event = s.event /\ s.token = r.token /\ s.live = r.live
  BY <1>1, WithoutLine
<1>4. front \in Fronts(left)
  OBVIOUS
<1> HIDE DEF left
<1>5. \A r \in left : r.event # e
  BY <1>3
<1>6. /\ all \in SUBSET Row /\ Line(all)
      /\ \A s \in all :
            \/ s.event = e /\ s.token = None
            \/ \E r \in left : r.event = s.event /\ r.token = s.token /\ r.live = s.live
      /\ \A r \in left : \E s \in all :
            r.event = s.event /\ r.token = s.token /\ r.live = s.live
      /\ \E s \in all : s.event = e
  BY <1>3, <1>4, <1>5, EnqueueLine
<1> HIDE DEF all
<1>7. queue' \in [Devices -> SUBSET Row]
  BY <1>2, <1>6 DEF Shape
<1>8. \A s \in all : s.event = e => s.token = None
  BY <1>5, <1>6
<1>9. \A s \in all : s.event # e =>
         /\ s.event \notin gone
         /\ \E r \in queue[d] : r.event = s.event /\ s.token = r.token /\ s.live = r.live
  BY <1>3, <1>6
<1>10. \A r \in queue[d] : r.event \notin gone =>
         \E s \in all : s.event = r.event /\ s.token = r.token /\ s.live = r.live
  BY <1>3, <1>6
<1>11. QED
  BY <1>2, <1>6, <1>7, <1>8, <1>9, <1>10 DEF QueueMoves

LEMMA AddingMoves ==
    ASSUME Shape, Lines, NEW d \in Devices, NEW e \in Events, \A r \in queue[d] : r.event # e,
           NEW front \in Fronts(queue[d]),
           queue' = [queue EXCEPT ![d] = Enqueue(@, e, front)]
    PROVE  QueueMoves(d, {}, {}, {e})
<1> DEFINE all == Enqueue(queue[d], e, front)
<1>1. queue[d] \in SUBSET Row /\ Line(queue[d])
  BY DEF Shape, Lines, Rows
<1>2. queue'[d] = all /\ \A q \in Devices \ {d} : queue'[q] = queue[q]
  BY DEF Shape
<1>3. /\ all \in SUBSET Row /\ Line(all)
      /\ \A s \in all :
            \/ s.event = e /\ s.token = None
            \/ \E r \in queue[d] : r.event = s.event /\ r.token = s.token /\ r.live = s.live
      /\ \A r \in queue[d] : \E s \in all :
            r.event = s.event /\ r.token = s.token /\ r.live = s.live
  BY <1>1, EnqueueLine
<1> HIDE DEF all
<1>4. queue' \in [Devices -> SUBSET Row]
  BY <1>2, <1>3 DEF Shape
<1>5. QED
  BY <1>2, <1>3, <1>4 DEF QueueMoves

(* The rows of one event get another token or lease. *)
LEMMA MarkingMoves ==
    ASSUME Shape, Lines, NEW d \in Devices, NEW e, NEW h,
           \A r \in queue[d] : /\ h[r] \in Row /\ h[r].event = r.event /\ h[r].ahead = r.ahead
                               /\ r.event # e => h[r] = r,
           queue' = [queue EXCEPT ![d] = {h[r] : r \in @}]
    PROVE  QueueMoves(d, {}, {e}, {})
<1> DEFINE new == {h[r] : r \in queue[d]}
<1>1. queue[d] \in SUBSET Row /\ Line(queue[d])
  BY DEF Shape, Lines, Rows
<1>2. queue'[d] = new /\ \A q \in Devices \ {d} : queue'[q] = queue[q]
  BY DEF Shape
<1>3. new \in SUBSET Row /\ Line(new)
  BY <1>1, MarkLine
<1>4. \A r \in queue[d] : h[r] \in new
  OBVIOUS
<1>5. \A s \in new : \E r \in queue[d] : s = h[r]
  OBVIOUS
<1> HIDE DEF new
<1>6. queue' \in [Devices -> SUBSET Row]
  BY <1>2, <1>3 DEF Shape
<1>7. \A r \in queue[d] : r.event # e =>
         \E s \in new : s.event = r.event /\ s.token = r.token /\ s.live = r.live
  BY <1>4
<1>8. \A r \in queue[d] : \E s \in new : s.event = r.event
  BY <1>4
<1>9. \A s \in new : \E r \in queue[d] :
         r.event = s.event /\ (s.event # e => s.token = r.token /\ s.live = r.live)
  BY <1>5
<1>10. QED
  BY <1>2, <1>3, <1>6, <1>7, <1>8, <1>9 DEF QueueMoves

-----------------------------------------------------------------------------
(* The same of a whole step, by deliveries <<device, event>>.               *)

(* The row of a delivery is held by drain w under a lease that has not run  *)
(* out.                                                                     *)
Under(d, e, w) == \E r \in Rows(d) : r.event = e /\ r.token = w /\ r.live

RowsMove(lost, touched, fresh) ==
    /\ queue' \in [Devices -> SUBSET Row]
    /\ Lines'
    /\ \A d \in Devices, e \in Events :
          Present(d, e) /\ <<d, e>> \notin lost => Present(d, e)'
    /\ \A d \in Devices, e \in Events :
          Present(d, e)' => <<d, e>> \in fresh \/ (Present(d, e) /\ <<d, e>> \notin lost)
    /\ \A d \in Devices, e \in Events, w \in Drains :
          Under(d, e, w) /\ <<d, e>> \notin lost \cup touched => Under(d, e, w)'
    /\ \A d \in Devices, e \in Events :
          LeasedRow(d, e)' /\ <<d, e>> \notin touched => LeasedRow(d, e)

LEMMA StillRows ==
    ASSUME Shape, Lines, queue' = queue
    PROVE  RowsMove({}, {}, {})
<1>1. Lines'
  BY DEF Lines, Line, Rows, Queued
<1>2. QED
  BY <1>1 DEF RowsMove, Shape, Present, Under, LeasedRow, Leased, Rows

LEMMA MovedRows ==
    ASSUME Shape, Lines, NEW d \in Devices,
           NEW lost, NEW touched, NEW fresh, QueueMoves(d, lost, touched, fresh)
    PROVE  RowsMove({d} \X lost, {d} \X touched, {d} \X fresh)
<1>1. Lines'
  BY DEF Lines, Line, Rows, Queued, QueueMoves
<1>2. ASSUME NEW q \in Devices, NEW e \in Events, Present(q, e), <<q, e>> \notin {d} \X lost
      PROVE  Present(q, e)'
  BY <1>2 DEF QueueMoves, Present, Rows
<1>3. ASSUME NEW q \in Devices, NEW e \in Events, Present(q, e)', <<q, e>> \notin {d} \X fresh
      PROVE  Present(q, e) /\ <<q, e>> \notin {d} \X lost
  BY <1>3 DEF QueueMoves, Present, Rows
<1>4. ASSUME NEW q \in Devices, NEW e \in Events, NEW w \in Drains, Under(q, e, w),
             <<q, e>> \notin ({d} \X lost) \cup ({d} \X touched)
      PROVE  Under(q, e, w)'
  BY <1>4 DEF QueueMoves, Under, Rows
<1>5. ASSUME NEW q \in Devices, NEW e \in Events, LeasedRow(q, e)',
             <<q, e>> \notin {d} \X touched
      PROVE  LeasedRow(q, e)
  BY <1>5 DEF QueueMoves, LeasedRow, Leased, Rows
<1>6. QED
  BY <1>1, <1>2, <1>3, <1>4, <1>5 DEF RowsMove, QueueMoves

-----------------------------------------------------------------------------
(* What the steps do to the deliveries.                                     *)

(* A lease that holds, of a drain that goes on, and that does not run out.  *)
Guarded(d, r) ==
    Leased(r) /\ Sender(d, r) /\ Sender(d, r)' /\ ~StallLease(d, r)

(* No claim loses a row it locked, nor sees a lease begin on it; no drain   *)
(* that sends under its lease loses that, and no guarded lease ends; only   *)
(* what was never queued appears; and only finished, expired and dismissed  *)
(* deliveries disappear.                                                    *)
Effect(lost, touched, fresh) ==
    /\ RowsMove(lost, touched, fresh)
    /\ \A p \in lost, w \in Drains : p \notin rowLocks'[w]
    /\ \A p \in touched, w \in Drains : p \in rowLocks'[w] => ~LeasedRow(p[1], p[2])'
    /\ \A w \in Drains : Sends(w)' /\ task'[w] \in lost \cup touched => HasLease(w)'
    /\ \A d \in Devices : \A r \in queue[d] :
          Guarded(d, r) => <<d, r.event>> \notin lost \cup touched
    /\ recipients \subseteq recipients' /\ fresh \subseteq recipients'
    /\ fresh \cap recipients = {}
    /\ settled' \ settled \subseteq lost \cap recipients
    /\ \A p \in lost : \/ p \in settled'
                       \/ p[2] \in expired
                       \/ p[2] \in Alerts /\ dismissedTo' >= p[2]

SomeEffect == \E lost, touched, fresh : Effect(lost, touched, fresh)

LEMMA SenderHoldsItsRow ==
    ASSUME Inv, NEW w \in Drains, Sends(w)
    PROVE  /\ Under(task[w][1], task[w][2], w)
           /\ \A r \in queue[task[w][1]] : r.event = task[w][2] => r.token = w /\ r.live
           /\ w # None
<1>1. PICK r \in queue[task[w][1]] : r.event = task[w][2] /\ r.token = w /\ r.live
  BY DEF Inv, Leases, HasLease, Holds, Rows
<1>2. task[w][1] \in Devices
  BY DEF Inv, Shape
<1>3. \A s \in queue[task[w][1]] : s.event = task[w][2] => s = r
  BY <1>1, <1>2 DEF Inv, Lines, Line, Rows
<1>4. w # None
  BY PushAssumption
<1>5. QED
  BY <1>1, <1>3, <1>4 DEF Under, Rows

LEMMA CalmSteps ==
    ASSUME Inv, queue' = queue, settled' = settled, recipients' = recipients
    PROVE  SomeEffect
<1>1. RowsMove({}, {}, {})
  BY StillRows DEF Inv
<1>2. Effect({}, {}, {})
  BY <1>1 DEF Effect
<1>3. QED
  BY <1>2 DEF SomeEffect

LEMMA AlertEffect ==
    ASSUME Inv, NEW d \in Devices, NEW e \in Events, AcceptAlert(d, e)
    PROVE  SomeEffect
<1>1. Shape /\ Lines
  BY DEF Inv
<1>2. PICK front \in Fronts(queue[d]) : queue' = [queue EXCEPT ![d] = Enqueue(@, e, front)]
  BY DEF AcceptAlert, Rows
<1>3. \A r \in queue[d] : r.event # e
  BY DEF Inv, Known, AcceptAlert, Duplicate, Rows
<1>4. QueueMoves(d, {}, {}, {e})
  BY <1>1, <1>2, <1>3, AddingMoves
<1>5. RowsMove({d} \X {}, {d} \X {}, {d} \X {e})
  BY <1>1, <1>4, MovedRows
<1>6. Effect({d} \X {}, {d} \X {}, {d} \X {e})
  BY <1>5 DEF Effect, AcceptAlert, Duplicate, phones
<1>7. QED
  BY <1>6 DEF SomeEffect

LEMMA DismissalEffect ==
    ASSUME Inv, NEW d \in Devices, NEW x \in Events, AcceptDismissal(d, x)
    PROVE  SomeEffect
<1> DEFINE gone == Queued({r \in queue[d] : Cancelled(r, x)})
<1>1. Shape /\ Lines
  BY DEF Inv
<1>2. queue[d] \in SUBSET Row /\ Line(queue[d])
  BY DEF Inv, Shape, Lines, Rows
<1>3. gone \in SUBSET Events
  BY <1>2 DEF Row, Queued
<1>4. \A g \in gone : \E r \in queue[d] : r.event = g /\ Cancelled(r, x)
  BY DEF Queued
<1>5. PICK front \in Fronts(Without(queue[d], gone)) :
         queue' = [queue EXCEPT ![d] = Enqueue(Without(@, gone), x, front)]
  BY DEF AcceptDismissal, Rows, Shape, Inv
<1>6. \A r \in queue[d] : Guarded(d, r) => r.event \notin gone
  BY <1>2, <1>4 DEF Cancelled, Guarded, Line
<1> HIDE DEF gone
<1>7. \A r \in queue[d] : r.event # x
  BY DEF Inv, Known, AcceptDismissal, Duplicate, Rows
<1>8. gone \ {x} = gone /\ gone \cap {x} = {}
  BY <1>4, <1>7
<1>9. QueueMoves(d, gone, {}, {x})
  <2>1. QueueMoves(d, gone \ {x}, gone \cap {x}, {x})
    BY <1>1, <1>3, <1>5, <1>7, ReplacingMoves
  <2>2. QED
    BY <1>8, <2>1
<1>10. RowsMove({d} \X gone, {d} \X {}, {d} \X {x})
  BY <1>1, <1>9, MovedRows
<1>11. \A p \in {d} \X gone, w \in Drains : p \notin rowLocks'[w]
  BY <1>4 DEF AcceptDismissal, claims, Locked, Rows
<1>12. ASSUME NEW w \in Drains, Sends(w)', task'[w] \in {d} \X gone PROVE FALSE
  <2>1. Sends(w) /\ task[w][1] = d /\ task[w][2] \in gone
    BY <1>12 DEF AcceptDismissal, claims, phones, Sends
  <2>2. PICK r \in queue[d] : r.event = task[w][2] /\ ~Leased(r)
    BY <1>4, <2>1 DEF Cancelled
  <2>3. QED
    BY <2>1, <2>2, SenderHoldsItsRow DEF Leased
<1>13. \A p \in {d} \X gone : p[2] \in Alerts /\ dismissedTo' >= p[2]
  <2>1. SUFFICES ASSUME NEW g \in gone PROVE g \in Alerts /\ dismissedTo' >= g
    OBVIOUS
  <2>2. g \in Alerts /\ g <= x
    BY <1>4 DEF Cancelled
  <2>3. dismissedTo \in Nat /\ x \in Nat /\ g \in Nat
    BY <2>2, PushAssumption DEF Inv, Shape, Alerts
  <2>4. dismissedTo' = IF dismissedTo > x THEN dismissedTo ELSE x
    BY DEF AcceptDismissal
  <2>5. QED
    BY <2>2, <2>3, <2>4
<1>14. /\ recipients' = recipients \cup {<<d, x>>} /\ <<d, x>> \notin recipients
       /\ settled' = settled
  BY DEF AcceptDismissal, Duplicate, phones
<1>15. Effect({d} \X gone, {d} \X {}, {d} \X {x})
  BY <1>6, <1>10, <1>11, <1>12, <1>13, <1>14 DEF Effect
<1>16. QED
  BY <1>15 DEF SomeEffect

LEMMA LeaseEffect ==
    ASSUME Inv, NEW w \in Drains, Lease(w)
    PROVE  SomeEffect /\ HasLease(w)'
<1> DEFINE d == task[w][1]
           e == task[w][2]
           h == [r \in queue[d] |->
                    IF r.event = e THEN [r EXCEPT !.token = w, !.live = TRUE] ELSE r]
<1>1. Shape /\ Lines
  BY DEF Inv
<1>2. d \in Devices /\ e \in Events /\ task[w] = <<d, e>>
  BY DEF Inv, Shape
<1>3. queue[d] \in SUBSET Row
  BY <1>2 DEF Inv, Shape
<1>4. \A r \in queue[d] : /\ h[r] \in Row /\ h[r].event = r.event /\ h[r].ahead = r.ahead
                          /\ r.event # e => h[r] = r
  BY <1>3 DEF Row
<1>4a. \A r \in queue[d] : r.event = e => h[r].event = e /\ h[r].token = w /\ h[r].live
  BY <1>3 DEF Row
<1>5. queue' = [queue EXCEPT ![d] = {h[r] : r \in @}]
  BY <1>2 DEF Lease
<1> HIDE DEF h, d, e
<1>6. QueueMoves(d, {}, {e}, {})
  BY <1>1, <1>2, <1>4, <1>5, MarkingMoves
<1>7. RowsMove({d} \X {}, {d} \X {e}, {d} \X {})
  BY <1>1, <1>2, <1>6, MovedRows
<1>8. pc[w] = "owner" /\ pc' = [pc EXCEPT ![w] = "leased"] /\ task' = task
  BY DEF Lease, Goto
<1>9. rowLocks' = [rowLocks EXCEPT ![w] = {}]
  BY DEF Lease, Unlock
<1>10. task[w] \in rowLocks[w]
  BY <1>8 DEF Inv, Locks
<1>11. HasLease(w)'
  <2>1. PICK r \in queue[d] : r.event = e
    BY <1>2, <1>10 DEF Inv, Locks, Present, Rows
  <2>2. h[r] \in queue'[d]
    BY <1>1, <1>2, <1>5 DEF Shape
  <2>3. pc'[w] = "leased"
    BY <1>8 DEF Inv, Shape
  <2>4. QED
    BY <1>2, <1>4a, <1>8, <2>1, <2>2, <2>3 DEF HasLease, Holds, Rows, Sending
<1>12. ASSUME NEW v \in Drains, Sends(v)', task'[v] \in {d} \X {e} PROVE v = w
  <2>1. SUFFICES ASSUME v # w PROVE FALSE
    OBVIOUS
  <2>2. stalled' = stalled \ {w} /\ pc'[v] = pc[v]
    BY <1>8, <2>1 DEF Lease, Inv, Shape
  <2>3. Sends(v)
    BY <1>12, <2>1, <2>2 DEF Sends
  <2>4. task[v][1] = task[w][1]
    BY <1>2, <1>8, <1>12
  <2>5. QED
    BY <1>8, <2>3, <2>4 DEF Inv, Leases
<1>13. \A v \in Drains : <<d, e>> \notin rowLocks'[v]
  <2>1. rowLocks'[w] = {} /\ \A v \in Drains \ {w} : rowLocks'[v] = rowLocks[v]
    BY <1>9 DEF Inv, Shape
  <2>2. \A v \in Drains \ {w} : task[w] \notin rowLocks[v]
    BY <1>10 DEF Inv, Locks
  <2>3. QED
    BY <1>2, <2>1, <2>2
<1>14. settled' = settled /\ recipients' = recipients
  BY DEF Lease
<1>15. \A r \in queue[d] : Guarded(d, r) => r.event # e
  BY <1>2, <1>10 DEF Inv, Locks, LeasedRow, Guarded, Rows
<1>16. Effect({d} \X {}, {d} \X {e}, {d} \X {})
  BY <1>7, <1>11, <1>12, <1>13, <1>14, <1>15 DEF Effect
<1>17. QED
  BY <1>11, <1>16 DEF SomeEffect

LEMMA DropEffect ==
    ASSUME Inv, NEW w \in Drains, DropDismissed(w)
    PROVE  SomeEffect
<1> DEFINE d == task[w][1]
           e == task[w][2]
<1>1. Shape /\ Lines
  BY DEF Inv
<1>2. d \in Devices /\ e \in Events /\ task[w] = <<d, e>>
  BY DEF Inv, Shape
<1>3. /\ queue' = [queue EXCEPT ![d] = Without(@, {e})]
      /\ e \in Alerts /\ dismissedTo >= e /\ dismissedTo' = dismissedTo
      /\ pc[w] = "owner" /\ rowLocks' = [rowLocks EXCEPT ![w] = {}]
      /\ pc' = [pc EXCEPT ![w] = "idle"] /\ task' = [task EXCEPT ![w] = NoTask]
      /\ settled' = settled /\ recipients' = recipients /\ stalled' = stalled
  BY DEF DropDismissed, IsDismissedAlert, Unlock, Rest, phones
<1> HIDE DEF d, e
<1>4. QueueMoves(d, {e}, {}, {})
  BY <1>1, <1>2, <1>3, RemovalMoves
<1>5. RowsMove({d} \X {e}, {d} \X {}, {d} \X {})
  BY <1>1, <1>2, <1>4, MovedRows
<1>6. \A v \in Drains : <<d, e>> \notin rowLocks'[v]
  <2>1. rowLocks'[w] = {} /\ \A v \in Drains \ {w} : rowLocks'[v] = rowLocks[v]
    BY <1>3 DEF Inv, Shape
  <2>2. task[w] \in rowLocks[w]
    BY <1>3 DEF Inv, Locks
  <2>3. \A v \in Drains \ {w} : task[w] \notin rowLocks[v]
    BY <2>2 DEF Inv, Locks
  <2>4. QED
    BY <1>2, <2>1, <2>3
<1>7. ASSUME NEW v \in Drains, Sends(v)', task'[v] \in {d} \X {e} PROVE FALSE
  <2>1. pc'[w] = "idle" /\ v # w
    BY <1>3, <1>7 DEF Inv, Shape, Sends, Sending
  <2>2. pc'[v] = pc[v] /\ task'[v] = task[v]
    BY <1>3, <2>1 DEF Inv, Shape
  <2>3. Sends(v)
    BY <1>3, <1>7, <2>2 DEF Sends
  <2>4. task[v][1] = task[w][1]
    BY <1>2, <1>7, <2>2
  <2>5. QED
    BY <1>3, <2>3, <2>4 DEF Inv, Leases
<1>8. \A r \in queue[d] : Guarded(d, r) => r.event # e
  BY <1>2, <1>3 DEF Inv, Locks, LeasedRow, Guarded, Rows
<1>9. Effect({d} \X {e}, {d} \X {}, {d} \X {})
  BY <1>3, <1>5, <1>6, <1>7, <1>8 DEF Effect
<1>10. QED
  BY <1>9 DEF SomeEffect

(* The row a drain finishes is not that of another that sends.              *)
LEMMA OwnRowOnly ==
    ASSUME Inv, NEW w \in Drains, HasToken(w), NEW v \in Drains, Sends(v), task[v] = task[w]
    PROVE  v = w
<1>1. task[w][1] \in Devices
  BY DEF Inv, Shape
<1>2. PICK r \in queue[task[w][1]] : r.event = task[w][2] /\ r.token = w
  BY DEF HasToken, Holds, Rows
<1>3. QED
  BY <1>2, SenderHoldsItsRow

LEMMA FinishEndsItsOwn ==
    ASSUME Inv, NEW w \in Drains, HasToken(w), pc' = [pc EXCEPT ![w] = "idle"],
           NEW r \in queue[task[w][1]], Guarded(task[w][1], r)
    PROVE  r.event # task[w][2]
<1>1. SUFFICES ASSUME r.event = task[w][2] PROVE FALSE
  OBVIOUS
<1>2. task[w][1] \in Devices
  BY DEF Inv, Shape
<1>3. r.token = w
  BY <1>1, <1>2 DEF HasToken, Holds, Inv, Lines, Line, Rows
<1>4. pc'[w] \in Sending
  BY <1>3 DEF Guarded, Sender
<1>5. QED
  BY <1>4 DEF Sending, Inv, Shape

LEMMA DeleteEffect ==
    ASSUME Inv, NEW w \in Drains, FinishDelete(w)
    PROVE  SomeEffect
<1>1. CASE ~HasToken(w)
  BY <1>1, CalmSteps DEF FinishDelete, MayFinish
<1>2. CASE HasToken(w)
  <2> DEFINE d == task[w][1]
             e == task[w][2]
  <2>1. Shape /\ Lines
    BY DEF Inv
  <2>2. d \in Devices /\ e \in Events /\ task[w] = <<d, e>>
    BY DEF Inv, Shape
  <2>3. /\ queue' = [queue EXCEPT ![d] = Without(@, {e})]
        /\ \A v \in Drains : task[w] \notin rowLocks[v]
        /\ rowLocks' = rowLocks
        /\ pc' = [pc EXCEPT ![w] = "idle"] /\ task' = [task EXCEPT ![w] = NoTask]
        /\ settled' = settled \cup {task[w]}
        /\ recipients' = recipients /\ stalled' = stalled
    BY <1>2 DEF FinishDelete, MayFinish, Unblocked, Rest
  <2>4. task[w] \in recipients
    BY DEF FinishDelete, Inv, Known
  <2> HIDE DEF d, e
  <2>5. QueueMoves(d, {e}, {}, {})
    BY <2>1, <2>2, <2>3, RemovalMoves
  <2>6. RowsMove({d} \X {e}, {d} \X {}, {d} \X {})
    BY <2>1, <2>2, <2>5, MovedRows
  <2>7. ASSUME NEW v \in Drains, Sends(v)', task'[v] \in {d} \X {e} PROVE FALSE
    <3>1. pc'[w] = "idle" /\ v # w
      BY <2>3, <2>7 DEF Inv, Shape, Sends, Sending
    <3>2. pc'[v] = pc[v] /\ task'[v] = task[v]
      BY <2>3, <3>1 DEF Inv, Shape
    <3>3. Sends(v)
      BY <2>3, <2>7, <3>2 DEF Sends
    <3>4. task[v] = task[w]
      BY <2>2, <2>7, <3>2
    <3>5. QED
      BY <1>2, <3>1, <3>3, <3>4, OwnRowOnly
  <2>8. \A r \in queue[d] : Guarded(d, r) => r.event # e
    BY <1>2, <2>3, FinishEndsItsOwn DEF d, e
  <2>9. Effect({d} \X {e}, {d} \X {}, {d} \X {})
    BY <2>2, <2>3, <2>4, <2>6, <2>7, <2>8 DEF Effect
  <2>10. QED
    BY <2>9 DEF SomeEffect
<1>3. QED
  BY <1>1, <1>2

LEMMA RetryEffect ==
    ASSUME Inv, NEW w \in Drains, FinishRetry(w)
    PROVE  SomeEffect
<1>1. CASE ~HasToken(w)
  BY <1>1, CalmSteps DEF FinishRetry, MayFinish, phones
<1>2. CASE HasToken(w)
  <2> DEFINE d == task[w][1]
             e == task[w][2]
  <2>1. Shape /\ Lines
    BY DEF Inv
  <2>2. d \in Devices /\ e \in Events /\ task[w] = <<d, e>>
    BY DEF Inv, Shape
  <2>3. /\ \E front \in Fronts(Without(queue[d], {e})) :
              queue' = [queue EXCEPT ![d] = Enqueue(Without(@, {e}), e, front)]
        /\ \A v \in Drains : task[w] \notin rowLocks[v]
        /\ rowLocks' = rowLocks
        /\ pc' = [pc EXCEPT ![w] = "idle"] /\ task' = [task EXCEPT ![w] = NoTask]
        /\ settled' = settled /\ recipients' = recipients /\ stalled' = stalled
    BY <1>2 DEF FinishRetry, MayFinish, Unblocked, Rest, Rows, phones
  <2>4. Present(d, e)
    BY <1>2 DEF HasToken, Holds, Present, Rows
  <2> HIDE DEF d, e
  <2>5. QueueMoves(d, {}, {e}, {e})
    <3>1. QueueMoves(d, {e} \ {e}, {e} \cap {e}, {e})
      BY <2>1, <2>2, <2>3, ReplacingMoves
    <3>2. {e} \ {e} = {} /\ {e} \cap {e} = {e}
      OBVIOUS
    <3>3. QED
      BY <3>1, <3>2
  <2>6. RowsMove({d} \X {}, {d} \X {e}, {d} \X {e})
    BY <2>1, <2>2, <2>5, MovedRows
  <2>7. RowsMove({d} \X {}, {d} \X {e}, {d} \X {})
    BY <2>4, <2>6 DEF RowsMove
  <2>8. ASSUME NEW v \in Drains, Sends(v)', task'[v] \in {d} \X {e} PROVE FALSE
    <3>1. pc'[w] = "idle" /\ v # w
      BY <2>3, <2>8 DEF Inv, Shape, Sends, Sending
    <3>2. pc'[v] = pc[v] /\ task'[v] = task[v]
      BY <2>3, <3>1 DEF Inv, Shape
    <3>3. Sends(v)
      BY <2>3, <2>8, <3>2 DEF Sends
    <3>4. task[v] = task[w]
      BY <2>2, <2>8, <3>2
    <3>5. QED
      BY <1>2, <3>1, <3>3, <3>4, OwnRowOnly
  <2>9. \A r \in queue[d] : Guarded(d, r) => r.event # e
    BY <1>2, <2>3, FinishEndsItsOwn DEF d, e
  <2>10. Effect({d} \X {}, {d} \X {e}, {d} \X {})
    BY <2>2, <2>3, <2>7, <2>8, <2>9 DEF Effect
  <2>11. QED
    BY <2>10 DEF SomeEffect
<1>3. QED
  BY <1>1, <1>2

(* Leases that run out or are renewed, by SetLive.                          *)
LEMMA LiveMoves ==
    ASSUME Shape, Lines, NEW d \in Devices, NEW e, NEW live \in BOOLEAN, SetLive(d, e, live)
    PROVE  RowsMove({d} \X {}, {d} \X {e}, {d} \X {})
<1> DEFINE h == [r \in queue[d] |-> IF r.event = e THEN [r EXCEPT !.live = live] ELSE r]
<1>1. queue[d] \in SUBSET Row
  BY DEF Shape
<1>2. \A r \in queue[d] : /\ h[r] \in Row /\ h[r].event = r.event /\ h[r].ahead = r.ahead
                          /\ r.event # e => h[r] = r
  BY <1>1 DEF Row
<1>3. queue' = [queue EXCEPT ![d] = {h[r] : r \in @}]
  BY DEF SetLive
<1> HIDE DEF h
<1>4. QueueMoves(d, {}, {e}, {})
  BY <1>2, <1>3, MarkingMoves
<1>5. QED
  BY <1>4, MovedRows

LEMMA LapseEffect ==
    ASSUME Inv, NEW d \in Devices, NEW r \in queue[d], LapseLease(d, r)
    PROVE  SomeEffect
<1> DEFINE e == r.event
<1>1. Shape /\ Lines /\ e \in Events /\ r.token \in Drains
  BY DEF Inv, Shape, Row, LapseLease, Leased
<1>2. SetLive(d, e, FALSE) /\ UNCHANGED <<pc, task, rowLocks, stalled, settled, recipients>>
  BY DEF LapseLease, claims, phones
<1>3. RowsMove({d} \X {}, {d} \X {e}, {d} \X {})
  BY <1>1, <1>2, LiveMoves
<1>4. \A v \in Drains : <<d, e>> \notin rowLocks'[v]
  BY <1>2 DEF Inv, Locks, LeasedRow, LapseLease, Rows
<1>5. ASSUME NEW v \in Drains, Sends(v)', task'[v] \in {d} \X {e} PROVE FALSE
  <2>1. Sends(v) /\ task[v] = <<d, e>>
    BY <1>2, <1>5 DEF Sends
  <2>2. r.token = v
    BY <2>1, SenderHoldsItsRow
  <2>3. Sender(d, r)
    BY <2>1, <2>2 DEF Sender, Sends
  <2>4. QED
    BY <2>3 DEF LapseLease
<1>6. \A s \in queue[d] : Guarded(d, s) => s.event # e
  <2>1. \A s \in queue[d] : s.event = e => s = r
    BY DEF Inv, Lines, Line, Rows
  <2>2. ~Guarded(d, r)
    BY DEF Guarded, LapseLease
  <2>3. QED
    BY <2>1, <2>2
<1> HIDE DEF e
<1>7. Effect({d} \X {}, {d} \X {e}, {d} \X {})
  BY <1>2, <1>3, <1>4, <1>5, <1>6 DEF Effect
<1>8. QED
  BY <1>7 DEF SomeEffect

LEMMA StallEffect ==
    ASSUME Inv, NEW d \in Devices, NEW r \in queue[d], StallLease(d, r)
    PROVE  SomeEffect
<1> DEFINE e == r.event
<1>1. Shape /\ Lines /\ e \in Events /\ r.token \in Drains
  BY DEF Inv, Shape, Row, StallLease, Leased
<1>2. /\ SetLive(d, e, FALSE) /\ UNCHANGED <<pc, task, rowLocks, settled, recipients>>
      /\ stalled' = stalled \cup {r.token}
  BY DEF StallLease, claims
<1>3. RowsMove({d} \X {}, {d} \X {e}, {d} \X {})
  BY <1>1, <1>2, LiveMoves
<1>4. \A v \in Drains : <<d, e>> \notin rowLocks'[v]
  BY <1>2 DEF Inv, Locks, LeasedRow, StallLease, Rows
<1>5. ASSUME NEW v \in Drains, Sends(v)', task'[v] \in {d} \X {e} PROVE FALSE
  <2>1. Sends(v) /\ task[v] = <<d, e>> /\ v # r.token
    BY <1>2, <1>5 DEF Sends
  <2>2. QED
    BY <2>1, SenderHoldsItsRow
<1>6. \A s \in queue[d] : Guarded(d, s) => s.event # e
  <2>1. \A s \in queue[d] : s.event = e => s = r
    BY DEF Inv, Lines, Line, Rows
  <2>2. ~Guarded(d, r)
    BY DEF Guarded, Leased
  <2>3. QED
    BY <2>1, <2>2
<1> HIDE DEF e
<1>7. Effect({d} \X {}, {d} \X {e}, {d} \X {})
  BY <1>2, <1>3, <1>4, <1>5, <1>6 DEF Effect
<1>8. QED
  BY <1>7 DEF SomeEffect

LEMMA RenewEffect ==
    ASSUME Inv, NEW w \in Drains, Renew(w)
    PROVE  SomeEffect
<1> DEFINE d == task[w][1]
           e == task[w][2]
<1>1. Shape /\ Lines /\ d \in Devices /\ e \in Events /\ task[w] = <<d, e>>
  BY DEF Inv, Shape
<1>2. /\ SetLive(d, e, TRUE)
      /\ UNCHANGED <<pc, task, rowLocks, stalled, settled, recipients>>
      /\ HasToken(w) /\ ~HasLease(w)
      /\ \A v \in Drains : task[w] \notin rowLocks[v]
  BY DEF Renew, claims, phones, Unblocked
<1> HIDE DEF d, e
<1>3. RowsMove({d} \X {}, {d} \X {e}, {d} \X {})
  BY <1>1, <1>2, LiveMoves
<1>4. \A v \in Drains : <<d, e>> \notin rowLocks'[v]
  BY <1>1, <1>2
<1>5. ASSUME NEW v \in Drains, Sends(v)', task'[v] \in {d} \X {e} PROVE FALSE
  <2>1. Sends(v) /\ task[v] = task[w]
    BY <1>1, <1>2, <1>5 DEF Sends
  <2>2. v = w
    BY <1>2, <2>1, OwnRowOnly
  <2>3. QED
    BY <1>2, <2>1, <2>2 DEF Inv, Leases
<1>6. \A r \in queue[d] : Guarded(d, r) => r.event # e
  <2>1. PICK s \in queue[d] : s.event = e /\ s.token = w /\ pc[w] \in Sending
    BY <1>1, <1>2 DEF HasToken, Holds, Rows
  <2>2. ~s.live
    BY <1>1, <1>2, <2>1 DEF HasLease, Holds, Rows
  <2>3. \A r \in queue[d] : r.event = e => r = s
    BY <1>1, <2>1 DEF Lines, Line, Rows
  <2>4. QED
    BY <2>2, <2>3 DEF Guarded, Leased
<1>7. Effect({d} \X {}, {d} \X {e}, {d} \X {})
  BY <1>2, <1>3, <1>4, <1>5, <1>6 DEF Effect
<1>8. QED
  BY <1>7 DEF SomeEffect

LEMMA PruneEffect ==
    ASSUME Inv, NEW d \in Devices, Prune(d)
    PROVE  SomeEffect
<1> DEFINE gone == Queued({r \in queue[d] : Prunable(d, r)})
<1>1. Shape /\ Lines /\ queue[d] \in SUBSET Row
  BY DEF Inv, Shape
<1>2. gone \in SUBSET Events
  BY <1>1 DEF Row, Queued
<1>3. \A g \in gone : \E r \in queue[d] :
         r.event = g /\ g \in expired /\ ~Leased(r) /\ ~Locked(d, g)
  BY DEF Queued, Prunable
<1>4. /\ queue' = [queue EXCEPT ![d] = Without(@, gone)]
      /\ UNCHANGED <<pc, task, rowLocks, stalled, settled, recipients>>
  BY DEF Prune, Rows, claims, phones
<1> HIDE DEF gone
<1>5. QueueMoves(d, gone, {}, {})
  BY <1>1, <1>2, <1>4, RemovalMoves
<1>6. RowsMove({d} \X gone, {d} \X {}, {d} \X {})
  BY <1>1, <1>5, MovedRows
<1>7. \A p \in {d} \X gone, w \in Drains : p \notin rowLocks'[w]
  <2>1. SUFFICES ASSUME NEW g \in gone, NEW w \in Drains PROVE <<d, g>> \notin rowLocks'[w]
    OBVIOUS
  <2>2. ~Locked(d, g)
    BY <1>3
  <2>3. QED
    BY <1>4, <2>2 DEF Locked
<1>8. ASSUME NEW w \in Drains, Sends(w)', task'[w] \in {d} \X gone PROVE FALSE
  <2>1. Sends(w) /\ task[w][1] = d /\ task[w][2] \in gone
    BY <1>4, <1>8 DEF Sends
  <2>2. PICK r \in queue[d] : r.event = task[w][2] /\ ~Leased(r)
    BY <1>3, <2>1
  <2>3. QED
    BY <2>1, <2>2, SenderHoldsItsRow DEF Leased
<1>9. \A p \in {d} \X gone : p[2] \in expired
  BY <1>3
<1>10. \A r \in queue[d] : Guarded(d, r) => r.event \notin gone
  BY <1>3 DEF Guarded, Inv, Lines, Line, Rows
<1>11. Effect({d} \X gone, {d} \X {}, {d} \X {})
  BY <1>4, <1>6, <1>7, <1>8, <1>9, <1>10 DEF Effect
<1>12. QED
  BY <1>11 DEF SomeEffect

-----------------------------------------------------------------------------
(* The steps of Next, for the lemmas about all of them.                     *)

(* Steps of a drain that leave every row alone.                             *)
CalmStep(w) ==
    \/ \E d \in Devices : ScanCandidate(w, d)
    \/ OwnDevice(w) \/ SkipDevice(w) \/ EndClaim(w) \/ Crash(w)
    \/ BeginSend(w) \/ ProviderAccepts(w) \/ ProviderRetryable(w) \/ ProviderRefuses(w)
    \/ FinishFails(w)

HeavyStep(w) ==
    Lease(w) \/ DropDismissed(w) \/ FinishDelete(w) \/ FinishRetry(w) \/ Renew(w)

TableStep ==
    \/ \E d \in Devices, e \in Events : AcceptAlert(d, e) \/ AcceptDismissal(d, e)
    \/ \E d \in Devices : \E r \in queue[d] : LapseLease(d, r) \/ StallLease(d, r)
    \/ \E d \in Devices : Prune(d)
    \/ \E e \in Events : Expire(e)

LEMMA StepKinds ==
    ASSUME Next
    PROVE  TableStep \/ \E w \in Drains : CalmStep(w) \/ HeavyStep(w)
<1>1. CASE \E w \in Drains : DrainStep(w) \/ Crash(w)
  <2>1. PICK w \in Drains : DrainStep(w) \/ Crash(w)
    BY <1>1
  <2>2. CalmStep(w) \/ HeavyStep(w)
    BY <2>1 DEF DrainStep, CalmStep, HeavyStep
  <2>3. QED
    BY <2>2
<1>2. QED
  BY <1>1 DEF Next, TableStep, Rows

LEMMA StepsHaveEffects ==
    ASSUME Inv, [Next]_vars
    PROVE  SomeEffect
<1>1. ASSUME NEW w \in Drains, CalmStep(w) PROVE SomeEffect
  <2>1. queue' = queue /\ settled' = settled /\ recipients' = recipients
    BY <1>1 DEF CalmStep, ScanCandidate, OwnDevice, SkipDevice, EndClaim, Crash, BeginSend,
                ProviderAccepts, ProviderRetryable, ProviderRefuses, FinishFails, Arrive,
                tables, phones
  <2>2. QED
    BY <2>1, CalmSteps
<1>2. ASSUME NEW w \in Drains, HeavyStep(w) PROVE SomeEffect
  BY <1>2, LeaseEffect, DropEffect, DeleteEffect, RetryEffect, RenewEffect DEF HeavyStep
<1>3. ASSUME TableStep PROVE SomeEffect
  <2>1. ASSUME NEW e \in Events, Expire(e) PROVE SomeEffect
    BY <2>1, CalmSteps DEF Expire, phones
  <2>2. QED
    BY <1>3, <2>1, AlertEffect, DismissalEffect, LapseEffect, StallEffect,
       PruneEffect DEF TableStep
<1>4. CASE UNCHANGED vars
  BY <1>4, CalmSteps DEF vars, tables, phones
<1>5. QED
  BY <1>1, <1>2, <1>3, <1>4, StepKinds

-----------------------------------------------------------------------------
(* Shape and Lines.                                                         *)

LEMMA NoTaskIsATask == NoTask \in Devices \X Events
<1>1. PICK d \in Devices, e \in Events : TRUE
  BY PushAssumption
<1>2. <<d, e>> \in Devices \X Events
  OBVIOUS
<1>3. QED
  BY <1>2 DEF NoTask

(* A drain goes on to another place, or rests.                              *)
LEMMA PlacesKeepShape ==
    ASSUME Shape, NEW w \in Drains,
           \/ \E next \in {"idle", "chosen", "owner"} \cup Sending : Goto(w, next)
           \/ Rest(w)
    PROVE  /\ pc' \in [Drains -> {"idle", "chosen", "owner"} \cup Sending]
           /\ task' \in [Drains -> Devices \X Events]
  BY NoTaskIsATask DEF Shape, Goto, Rest

LEMMA ShapeOfCalmSteps ==
    ASSUME Shape, NEW w \in Drains, CalmStep(w)
    PROVE  Shape'
<1> USE DEF CalmStep, Sending
<1>1. ASSUME NEW d \in Devices, ScanCandidate(w, d) PROVE Shape'
  <2>1. PICK r \in queue[d] : /\ task' = [task EXCEPT ![w] = <<d, r.event>>]
                             /\ rowLocks' = [rowLocks EXCEPT ![w] = @ \cup {<<d, r.event>>}]
    BY <1>1 DEF ScanCandidate, Candidate, Foremost, Rows
  <2>2. r.event \in Events
    BY DEF Shape, Row
  <2>3. pc' \in [Drains -> {"idle", "chosen", "owner"} \cup Sending]
    BY <1>1 DEF ScanCandidate, Shape
  <2>4. past' \in [Drains -> SUBSET Events]
    BY <1>1 DEF ScanCandidate, Past, Shape
  <2>5. QED
    BY <1>1, <2>1, <2>2, <2>3, <2>4 DEF Shape, ScanCandidate, tables, phones, budgets
<1>2. CASE OwnDevice(w)
  BY <1>2, PlacesKeepShape DEF Shape, OwnDevice, tables, phones, budgets
<1>3. CASE SkipDevice(w)
  <2>1. deviceLocks' \in [Drains -> SUBSET Devices]
    BY <1>3 DEF Shape, SkipDevice
  <2>2. QED
    BY <1>3, <2>1, PlacesKeepShape DEF Shape, SkipDevice, tables, phones, budgets
<1>4. CASE EndClaim(w)
  BY <1>4 DEF Shape, EndClaim, Unlock, tables, phones, budgets
<1>5. CASE Crash(w)
  BY <1>5, PlacesKeepShape, PushAssumption DEF Shape, Crash, Unlock, tables, phones
<1>6. CASE BeginSend(w)
  BY <1>6, PlacesKeepShape DEF Shape, BeginSend, tables, phones, budgets
<1>7. ASSUME Arrive(w) PROVE /\ shown' \in [Devices -> SUBSET Alerts]
                            /\ fenced' \in [Devices -> Dismissals \cup {0}]
                            /\ settled' \subseteq Devices \X Events /\ strayed' \subseteq Devices
                            /\ stalled' \subseteq Drains
  <2>1. task[w][1] \in Devices /\ task[w][2] \in Events
    BY DEF Shape
  <2>2. shown' \in [Devices -> SUBSET Alerts]
    BY <1>7, <2>1 DEF Arrive, Shape
  <2>3. fenced' \in [Devices -> Dismissals \cup {0}]
    BY <1>7, <2>1 DEF Arrive, Shape, Alerts
  <2>4. QED
    BY <1>7, <2>1, <2>2, <2>3 DEF Arrive, Shape
<1>8. CASE ProviderAccepts(w)
  BY <1>7, <1>8, PlacesKeepShape DEF Shape, ProviderAccepts, tables, budgets
<1>9. CASE ProviderRetryable(w)
  <2>1. retries' \in 0 .. MaxRetries
    BY <1>9, PushAssumption DEF Shape, ProviderRetryable
  <2>2. QED
    BY <1>7, <1>9, <2>1, PlacesKeepShape DEF Shape, ProviderRetryable, tables, phones
<1>10. CASE ProviderRefuses(w)
  BY <1>10, PlacesKeepShape DEF Shape, ProviderRefuses, tables, phones, budgets
<1>11. CASE FinishFails(w)
  <2>1. retries' \in 0 .. MaxRetries
    BY <1>11, PushAssumption DEF Shape, FinishFails
  <2>2. QED
    BY <1>11, <2>1, PlacesKeepShape DEF Shape, FinishFails, tables, phones
<1>12. QED
  BY <1>1, <1>2, <1>3, <1>4, <1>5, <1>6, <1>8, <1>9, <1>10, <1>11

LEMMA ShapeOfHeavySteps ==
    ASSUME Shape, NEW w \in Drains, HeavyStep(w), queue' \in [Devices -> SUBSET Row]
    PROVE  Shape'
<1> USE DEF HeavyStep, Sending
<1>1. CASE Lease(w)
  BY <1>1, PlacesKeepShape DEF Shape, Lease, Unlock, budgets
<1>2. CASE DropDismissed(w)
  BY <1>2, PlacesKeepShape DEF Shape, DropDismissed, Unlock, phones, budgets
<1>3. CASE FinishDelete(w)
  <2>1. task[w] \in Devices \X Events
    BY DEF Shape
  <2>2. settled' \subseteq Devices \X Events
    BY <1>3, <2>1 DEF Shape, FinishDelete
  <2>3. /\ pc' \in [Drains -> {"idle", "chosen", "owner"} \cup Sending]
        /\ task' \in [Drains -> Devices \X Events]
    BY <1>3, PlacesKeepShape DEF FinishDelete
  <2>4. QED
    BY <1>3, <2>2, <2>3 DEF Shape, FinishDelete, budgets
<1>4. CASE FinishRetry(w)
  BY <1>4, PlacesKeepShape DEF Shape, FinishRetry, phones, budgets
<1>5. CASE Renew(w)
  BY <1>5 DEF Shape, Renew, claims, phones, budgets
<1>6. QED
  BY <1>1, <1>2, <1>3, <1>4, <1>5

LEMMA ShapeOfTableSteps ==
    ASSUME Shape, TableStep, queue' \in [Devices -> SUBSET Row]
    PROVE  Shape'
<1> USE DEF TableStep, claims, phones, budgets
<1>1. ASSUME NEW d \in Devices, NEW e \in Events, AcceptAlert(d, e) PROVE Shape'
  BY <1>1 DEF Shape, AcceptAlert
<1>2. ASSUME NEW d \in Devices, NEW e \in Events, AcceptDismissal(d, e) PROVE Shape'
  BY <1>2 DEF Shape, AcceptDismissal
<1>3. ASSUME NEW d \in Devices, NEW r \in queue[d], LapseLease(d, r) PROVE Shape'
  BY <1>3 DEF Shape, LapseLease
<1>4. ASSUME NEW d \in Devices, NEW r \in queue[d], StallLease(d, r) PROVE Shape'
  <2>1. r.token \in Drains
    BY <1>4 DEF Shape, StallLease, Leased, Row
  <2>2. QED
    BY <1>4, <2>1, PushAssumption DEF Shape, StallLease
<1>5. ASSUME NEW d \in Devices, Prune(d) PROVE Shape'
  BY <1>5 DEF Shape, Prune
<1>6. ASSUME NEW e \in Events, Expire(e) PROVE Shape'
  BY <1>6 DEF Shape, Expire
<1>7. QED
  BY <1>1, <1>2, <1>3, <1>4, <1>5, <1>6

LEMMA ShapeSteps ==
    ASSUME Inv, [Next]_vars
    PROVE  Shape' /\ Lines'
<1>1. queue' \in [Devices -> SUBSET Row] /\ Lines'
  BY StepsHaveEffects DEF SomeEffect, Effect, RowsMove
<1>2. CASE UNCHANGED vars
  BY <1>1, <1>2 DEF Inv, Shape, vars, tables, claims, phones, budgets
<1>3. QED
  BY <1>1, <1>2, StepKinds, ShapeOfCalmSteps, ShapeOfHeavySteps, ShapeOfTableSteps DEF Inv

-----------------------------------------------------------------------------
(* What one drain's step leaves to the others.                              *)

LEMMA OthersStay ==
    ASSUME Shape, NEW w \in Drains, CalmStep(w) \/ HeavyStep(w), NEW v \in Drains, v # w
    PROVE  /\ pc'[v] = pc[v] /\ task'[v] = task[v]
           /\ rowLocks'[v] = rowLocks[v] /\ deviceLocks'[v] = deviceLocks[v]
           /\ v \in stalled' => v \in stalled
           /\ v \in stalled => v \in stalled'
<1> USE DEF Shape, tables, phones, claims
<1>1. ASSUME NEW d \in Devices, ScanCandidate(w, d)
      PROVE  /\ pc' = [pc EXCEPT ![w] = "chosen"] /\ UNCHANGED <<deviceLocks, stalled>>
             /\ \E r : /\ task' = [task EXCEPT ![w] = <<d, r.event>>]
                      /\ rowLocks' = [rowLocks EXCEPT ![w] = @ \cup {<<d, r.event>>}]
  BY <1>1 DEF ScanCandidate
<1>2. ASSUME OwnDevice(w) \/ SkipDevice(w) \/ EndClaim(w) \/ Crash(w)
      PROVE  /\ pc'[v] = pc[v] /\ task'[v] = task[v]
             /\ rowLocks'[v] = rowLocks[v] /\ deviceLocks'[v] = deviceLocks[v]
             /\ stalled' = stalled
  BY <1>2 DEF OwnDevice, SkipDevice, EndClaim, Crash, Goto, Rest, Unlock
<1>3. ASSUME \/ BeginSend(w) \/ ProviderAccepts(w) \/ ProviderRetryable(w) \/ ProviderRefuses(w)
             \/ FinishFails(w)
      PROVE  /\ pc'[v] = pc[v] /\ task'[v] = task[v]
             /\ rowLocks'[v] = rowLocks[v] /\ deviceLocks'[v] = deviceLocks[v]
             /\ stalled' = stalled
  BY <1>3 DEF BeginSend, ProviderAccepts, ProviderRetryable, ProviderRefuses, FinishFails,
              Arrive, Goto
<1>4. ASSUME HeavyStep(w)
      PROVE  /\ pc'[v] = pc[v] /\ task'[v] = task[v]
             /\ rowLocks'[v] = rowLocks[v] /\ deviceLocks'[v] = deviceLocks[v]
             /\ stalled' = stalled \/ stalled' = stalled \ {w}
  BY <1>4 DEF HeavyStep, Lease, DropDismissed, FinishDelete, FinishRetry, Renew,
              Goto, Rest, Unlock
<1>5. QED
  BY <1>1, <1>2, <1>3, <1>4 DEF CalmStep

LEMMA TablesLeaveDrains ==
    ASSUME TableStep \/ UNCHANGED vars
    PROVE  UNCHANGED claims /\ stalled \subseteq stalled'
  BY DEF TableStep, AcceptAlert, AcceptDismissal, LapseLease, StallLease, Prune, Expire, vars, phones

(* Row locks grow by the candidate of a scan.                               *)
LEMMA RowLocksGrow ==
    ASSUME Inv, [Next]_vars, NEW v \in Drains
    PROVE  \/ rowLocks'[v] \subseteq rowLocks[v]
           \/ \E d \in Devices : ScanCandidate(v, d)
<1>1. CASE \E w \in Drains \ {v} : CalmStep(w) \/ HeavyStep(w)
  BY <1>1, OthersStay DEF Inv
<1>2. CASE CalmStep(v) \/ HeavyStep(v)
  BY <1>2 DEF Inv, Shape, CalmStep, HeavyStep, OwnDevice, SkipDevice, EndClaim, Crash,
              BeginSend, ProviderAccepts, ProviderRetryable, ProviderRefuses, FinishFails, Lease,
              DropDismissed, FinishDelete, FinishRetry, Renew, Unlock, claims
<1>3. CASE TableStep \/ UNCHANGED vars
  BY <1>3, TablesLeaveDrains DEF claims
<1>4. QED
  BY <1>1, <1>2, <1>3, StepKinds

(* Device locks grow by the device of the candidate, when it is free.       *)
LEMMA DeviceLocksGrow ==
    ASSUME Inv, [Next]_vars, NEW v \in Drains
    PROVE  \/ deviceLocks'[v] \subseteq deviceLocks[v]
           \/ /\ deviceLocks'[v] = deviceLocks[v] \cup {task[v][1]}
              /\ ~DeviceLocked(task[v][1], v)
              /\ CalmStep(v)
<1>1. CASE \E w \in Drains \ {v} : CalmStep(w) \/ HeavyStep(w)
  BY <1>1, OthersStay DEF Inv
<1>2. CASE OwnDevice(v) \/ SkipDevice(v)
  BY <1>2 DEF Inv, Shape, CalmStep, OwnDevice, SkipDevice
<1>3. CASE \/ HeavyStep(v) \/ EndClaim(v) \/ Crash(v)
           \/ \E d \in Devices : ScanCandidate(v, d)
           \/ BeginSend(v) \/ ProviderAccepts(v) \/ ProviderRetryable(v) \/ ProviderRefuses(v)
             \/ FinishFails(v)
  BY <1>3 DEF Inv, Shape, HeavyStep, ScanCandidate, EndClaim, Crash,
              BeginSend, ProviderAccepts, ProviderRetryable, ProviderRefuses, FinishFails, Lease,
              DropDismissed, FinishDelete, FinishRetry, Renew, Unlock, claims
<1>4. CASE TableStep \/ UNCHANGED vars
  BY <1>4, TablesLeaveDrains DEF claims
<1>5. QED
  BY <1>1, <1>2, <1>3, <1>4, StepKinds DEF CalmStep

(* How a drain comes to the places where it claims.                         *)
LEMMA ClaimsGoOn ==
    ASSUME Inv, [Next]_vars, NEW v \in Drains, pc'[v] \in {"chosen", "owner"}
    PROVE  \/ /\ pc'[v] = pc[v] /\ task'[v] = task[v]
              /\ rowLocks'[v] = rowLocks[v] /\ deviceLocks'[v] = deviceLocks[v]
           \/ pc'[v] = "chosen" /\ \E d \in Devices : ScanCandidate(v, d)
           \/ OwnDevice(v)
<1>1. CASE \E w \in Drains \ {v} : CalmStep(w) \/ HeavyStep(w)
  BY <1>1, OthersStay DEF Inv
<1>2. CASE CalmStep(v) \/ HeavyStep(v)
  <2>1. ASSUME NEW d \in Devices, ScanCandidate(v, d) PROVE pc'[v] = "chosen"
    BY <2>1 DEF Inv, Shape, ScanCandidate
  <2>2. CASE SkipDevice(v) \/ Crash(v) \/ DropDismissed(v) \/ FinishDelete(v) \/ FinishRetry(v)
    BY <2>2 DEF Inv, Shape, SkipDevice, Crash, DropDismissed, FinishDelete, FinishRetry, Rest
  <2>3. CASE EndClaim(v) \/ Renew(v)
    BY <2>3 DEF Inv, Shape, EndClaim, Renew, HasToken, Sending, claims
  <2>4. CASE \/ BeginSend(v) \/ ProviderAccepts(v) \/ ProviderRetryable(v) \/ ProviderRefuses(v)
             \/ FinishFails(v)
             \/ Lease(v)
    BY <2>4 DEF Inv, Shape, BeginSend, ProviderAccepts, ProviderRetryable, ProviderRefuses, FinishFails,
                Lease, Goto
  <2>5. QED
    BY <1>2, <2>1, <2>2, <2>3, <2>4 DEF CalmStep, HeavyStep
<1>3. CASE TableStep \/ UNCHANGED vars
  BY <1>3, TablesLeaveDrains DEF claims
<1>4. QED
  BY <1>1, <1>2, <1>3, StepKinds

-----------------------------------------------------------------------------
(* The locks of the claims.                                                 *)

LEMMA ScanFindsItsRow ==
    ASSUME Inv, NEW w \in Drains, NEW d \in Devices, ScanCandidate(w, d)
    PROVE  \E r \in queue[d] :
             /\ ~Leased(r) /\ ~Locked(d, r.event) /\ r.event \in Events
             /\ task'[w] = <<d, r.event>>
             /\ rowLocks'[w] = rowLocks[w] \cup {<<d, r.event>>}
             /\ queue' = queue /\ pc'[w] = "chosen" /\ recipients' = recipients
<1>1. PICK r \in Candidate(w, d) :
         /\ task' = [task EXCEPT ![w] = <<d, r.event>>]
         /\ rowLocks' = [rowLocks EXCEPT ![w] = @ \cup {<<d, r.event>>}]
  BY DEF ScanCandidate
<1>2. r \in queue[d] /\ ~Leased(r) /\ ~Locked(d, r.event)
  BY DEF Candidate, Foremost, Claimable, Rows
<1>3. r.event \in Events
  BY <1>2 DEF Inv, Shape, Row
<1>4. queue' = queue /\ pc'[w] = "chosen" /\ recipients' = recipients
  BY DEF ScanCandidate, Inv, Shape, tables
<1>5. QED
  BY <1>1, <1>2, <1>3, <1>4 DEF Inv, Shape

LEMMA LocksSteps ==
    ASSUME Inv, [Next]_vars
    PROVE  Locks'
<1> DEFINE row(p) == /\ Present(p[1], p[2]) /\ ~LeasedRow(p[1], p[2])
<1>1. PICK lost, touched, fresh : Effect(lost, touched, fresh)
  BY StepsHaveEffects DEF SomeEffect
<1>2. Shape'
  BY ShapeSteps
<1>3. ASSUME NEW w \in Drains, NEW p \in rowLocks'[w] PROVE row(p)'
  <2>1. p \in Devices \X Events
    BY <1>2 DEF Shape
  <2>2. CASE p \in rowLocks[w]
    <3>1. row(p)
      BY <2>2 DEF Inv, Locks
    <3>2. p \notin lost /\ (p \in touched => ~LeasedRow(p[1], p[2])')
      BY <1>1 DEF Effect
    <3>3. PICK d \in Devices, e \in Events : p = <<d, e>>
      BY <2>1
    <3>4. Present(d, e) /\ ~LeasedRow(d, e)
      BY <3>1, <3>3
    <3>5. Present(d, e)'
      BY <1>1, <3>2, <3>3, <3>4 DEF Effect, RowsMove
    <3>6. ~LeasedRow(d, e)'
      BY <1>1, <3>2, <3>3, <3>4 DEF Effect, RowsMove
    <3>7. QED
      BY <3>3, <3>5, <3>6
  <2>3. CASE p \notin rowLocks[w]
    <3>1. PICK d \in Devices : ScanCandidate(w, d)
      BY <2>3, RowLocksGrow
    <3>2. PICK r \in queue[d] :
             ~Leased(r) /\ p = <<d, r.event>> /\ queue' = queue
      BY <2>3, <3>1, ScanFindsItsRow
    <3>3. \A s \in queue[d] : s.event = r.event => s = r
      BY DEF Inv, Lines, Line, Rows
    <3>4. Present(d, r.event)' /\ ~LeasedRow(d, r.event)'
      BY <3>2, <3>3 DEF Present, LeasedRow, Leased, Rows
    <3>5. QED
      BY <3>2, <3>4
  <2>4. QED
    BY <2>2, <2>3
<1>4. ASSUME NEW v \in Drains, NEW w \in Drains, v # w
      PROVE  rowLocks'[v] \cap rowLocks'[w] = {}
  <2>1. rowLocks[v] \cap rowLocks[w] = {}
    BY <1>4 DEF Inv, Locks
  <2>2. ASSUME NEW x \in Drains, NEW y \in Drains, x # y, NEW d \in Devices,
               ScanCandidate(x, d), rowLocks[x] \cap rowLocks[y] = {}
        PROVE  rowLocks'[x] \cap rowLocks'[y] = {}
    <3>1. rowLocks'[y] = rowLocks[y]
      BY <2>2, OthersStay DEF Inv, CalmStep
    <3>2. PICK r \in queue[d] : ~Locked(d, r.event) /\
             rowLocks'[x] = rowLocks[x] \cup {<<d, r.event>>}
      BY <2>2, ScanFindsItsRow
    <3>3. <<d, r.event>> \notin rowLocks[y]
      BY <3>2 DEF Locked
    <3>4. QED
      BY <2>2, <3>1, <3>2, <3>3
  <2>3. CASE \E d \in Devices : ScanCandidate(v, d)
    BY <1>4, <2>1, <2>2, <2>3
  <2>4. CASE \E d \in Devices : ScanCandidate(w, d)
    BY <1>4, <2>1, <2>2, <2>4
  <2>5. CASE rowLocks'[v] \subseteq rowLocks[v] /\ rowLocks'[w] \subseteq rowLocks[w]
    BY <2>1, <2>5
  <2>6. QED
    BY <2>3, <2>4, <2>5, RowLocksGrow
<1>5. ASSUME NEW v \in Drains, NEW w \in Drains, v # w
      PROVE  deviceLocks'[v] \cap deviceLocks'[w] = {}
  <2>1. deviceLocks[v] \cap deviceLocks[w] = {}
    BY <1>5 DEF Inv, Locks
  <2>2. ASSUME NEW x \in Drains, NEW y \in Drains, x # y,
               deviceLocks[x] \cap deviceLocks[y] = {},
               deviceLocks'[x] = deviceLocks[x] \cup {task[x][1]},
               ~DeviceLocked(task[x][1], x), CalmStep(x)
        PROVE  deviceLocks'[x] \cap deviceLocks'[y] = {}
    <3>1. deviceLocks'[y] = deviceLocks[y]
      BY <2>2, OthersStay DEF Inv
    <3>2. task[x][1] \notin deviceLocks[y]
      BY <2>2 DEF DeviceLocked
    <3>3. QED
      BY <2>2, <3>1, <3>2
  <2>3. CASE deviceLocks'[v] \subseteq deviceLocks[v] /\ deviceLocks'[w] \subseteq deviceLocks[w]
    BY <2>1, <2>3
  <2>4. CASE ~(deviceLocks'[v] \subseteq deviceLocks[v])
    BY <1>5, <2>1, <2>2, <2>4, DeviceLocksGrow
  <2>5. CASE ~(deviceLocks'[w] \subseteq deviceLocks[w])
    BY <1>5, <2>1, <2>2, <2>5, DeviceLocksGrow
  <2>6. QED
    BY <2>3, <2>4, <2>5
<1>6. ASSUME NEW w \in Drains, pc'[w] \in {"chosen", "owner"}
      PROVE  /\ task'[w] \in rowLocks'[w]
             /\ pc'[w] = "owner" => task'[w][1] \in deviceLocks'[w]
  <2>1. CASE /\ pc'[w] = pc[w] /\ task'[w] = task[w]
             /\ rowLocks'[w] = rowLocks[w] /\ deviceLocks'[w] = deviceLocks[w]
    BY <1>6, <2>1 DEF Inv, Locks
  <2>2. ASSUME pc'[w] = "chosen", NEW d \in Devices, ScanCandidate(w, d)
        PROVE  task'[w] \in rowLocks'[w]
    BY <2>2, ScanFindsItsRow
  <2>3. CASE OwnDevice(w)
    <3>1. /\ pc[w] = "chosen" /\ task' = task /\ rowLocks' = rowLocks
          /\ deviceLocks'[w] = deviceLocks[w] \cup {task[w][1]}
      BY <2>3 DEF OwnDevice, Goto, Inv, Shape
    <3>2. QED
      BY <3>1 DEF Inv, Locks
  <2>4. QED
    BY <1>6, <2>1, <2>2, <2>3, ClaimsGoOn
<1>7. QED
  BY <1>3, <1>4, <1>5, <1>6 DEF Locks

-----------------------------------------------------------------------------
(* What is known of the deliveries.                                         *)

(* A drain's task is the one it scanned.                                    *)
LEMMA TasksAreScanned ==
    ASSUME Inv, [Next]_vars, NEW v \in Drains, pc'[v] # "idle"
    PROVE  \/ task'[v] = task[v] /\ pc[v] # "idle"
           \/ \E d \in Devices : ScanCandidate(v, d)
<1>1. CASE \E w \in Drains \ {v} : CalmStep(w) \/ HeavyStep(w)
  BY <1>1, OthersStay DEF Inv
<1>2. CASE CalmStep(v) \/ HeavyStep(v)
  <2>1. CASE SkipDevice(v) \/ Crash(v) \/ DropDismissed(v) \/ FinishDelete(v) \/ FinishRetry(v)
    BY <2>1 DEF Inv, Shape, SkipDevice, Crash, DropDismissed, FinishDelete, FinishRetry, Rest
  <2>2. CASE EndClaim(v) \/ Renew(v)
    BY <2>2 DEF Inv, Shape, EndClaim, Renew, HasToken, Sending, claims
  <2>3. CASE \/ BeginSend(v) \/ ProviderAccepts(v) \/ ProviderRetryable(v) \/ ProviderRefuses(v)
             \/ FinishFails(v)
             \/ Lease(v) \/ OwnDevice(v)
    BY <2>3 DEF BeginSend, ProviderAccepts, ProviderRetryable, ProviderRefuses, FinishFails,
                Lease, OwnDevice, Goto
  <2>4. QED
    BY <1>2, <2>1, <2>2, <2>3 DEF CalmStep, HeavyStep
<1>3. CASE TableStep \/ UNCHANGED vars
  BY <1>3, TablesLeaveDrains DEF claims
<1>4. QED
  BY <1>1, <1>2, <1>3, StepKinds

LEMMA DismissalsAreCommitted ==
    ASSUME Inv, [Next]_vars
    PROVE  /\ dismissedTo' >= dismissedTo
           /\ \A p \in recipients' : p[2] \in Dismissals => p[2] <= dismissedTo'
<1>1. ASSUME NEW d \in Devices, NEW x \in Events, AcceptDismissal(d, x)
      PROVE  /\ dismissedTo' >= dismissedTo
             /\ \A p \in recipients' : p[2] \in Dismissals => p[2] <= dismissedTo'
  <2>1. /\ dismissedTo' = IF dismissedTo > x THEN dismissedTo ELSE x
        /\ recipients' = recipients \cup {<<d, x>>}
    BY <1>1 DEF AcceptDismissal
  <2>2. dismissedTo \in Nat /\ x \in Nat /\ Dismissals \subseteq Nat
    BY PushAssumption DEF Inv, Shape
  <2>3. \A p \in recipients : p[2] \in Dismissals => p[2] <= dismissedTo
    BY DEF Inv, Known
  <2>4. dismissedTo' \in Nat /\ dismissedTo' >= dismissedTo /\ dismissedTo' >= x
    BY <2>1, <2>2
  <2>5. ASSUME NEW p \in recipients', p[2] \in Dismissals PROVE p[2] <= dismissedTo'
    <3>1. CASE p \in recipients
      <4>1. p[2] <= dismissedTo /\ p[2] \in Nat
        BY <2>2, <2>3, <2>5, <3>1
      <4>2. QED
        BY <2>2, <2>4, <4>1
    <3>2. CASE p = <<d, x>>
      BY <2>2, <2>4, <3>2
    <3>3. QED
      BY <2>1, <2>5, <3>1, <3>2
  <2>6. QED
    BY <2>4, <2>5
<1>2. CASE dismissedTo' = dismissedTo /\ \A p \in recipients' : p[2] \in Dismissals => p \in recipients
  <2>1. dismissedTo \in Nat
    BY PushAssumption DEF Inv, Shape
  <2>2. QED
    BY <1>2, <2>1 DEF Inv, Known
<1>3. ASSUME NEW d \in Devices, NEW e \in Events, AcceptAlert(d, e)
      PROVE  dismissedTo' = dismissedTo /\ recipients' = recipients \cup {<<d, e>>}
             /\ e \notin Dismissals
  BY <1>3 DEF AcceptAlert, Alerts
<1>4. CASE TableStep \/ UNCHANGED vars
  <2>1. CASE \E d \in Devices, e \in Events : AcceptAlert(d, e) \/ AcceptDismissal(d, e)
    <3>1. ASSUME NEW d \in Devices, NEW e \in Events, AcceptAlert(d, e)
          PROVE  \A p \in recipients' : p[2] \in Dismissals => p \in recipients
      BY <1>3, <3>1
    <3>2. QED
      BY <1>1, <1>2, <1>3, <2>1, <3>1
  <2>2. CASE UNCHANGED <<dismissedTo, recipients>>
    BY <1>2, <2>2
  <2>3. QED
    BY <1>4, <2>1, <2>2 DEF TableStep, LapseLease, StallLease, Prune, Expire,
                            vars, tables
<1>5. ASSUME NEW w \in Drains, CalmStep(w) \/ HeavyStep(w)
      PROVE  dismissedTo' = dismissedTo /\ recipients' = recipients
  BY <1>5 DEF CalmStep, HeavyStep, ScanCandidate, OwnDevice, SkipDevice, EndClaim, Crash,
              BeginSend, ProviderAccepts, ProviderRetryable, ProviderRefuses, FinishFails, Lease,
              DropDismissed, FinishDelete, FinishRetry, Renew, tables
<1>6. QED
  BY <1>2, <1>4, <1>5, StepKinds

LEMMA KnownSteps ==
    ASSUME Inv, [Next]_vars
    PROVE  Known'
<1>1. PICK lost, touched, fresh : Effect(lost, touched, fresh)
  BY StepsHaveEffects DEF SomeEffect
<1>2. Shape'
  BY ShapeSteps
<1>3. ASSUME NEW d \in Devices, NEW r \in Rows(d)' PROVE <<d, r.event>> \in recipients'
  <2>1. r.event \in Events /\ Present(d, r.event)'
    BY <1>2, <1>3 DEF Shape, Row, Rows, Present
  <2>2. <<d, r.event>> \in fresh \/ Present(d, r.event)
    BY <1>1, <2>1 DEF Effect, RowsMove
  <2>3. QED
    BY <1>1, <2>2 DEF Effect, Present, Inv, Known
<1>4. ASSUME NEW p \in settled' PROVE p \in recipients' /\ ~Present(p[1], p[2])'
  <2>1. PICK d \in Devices, e \in Events : p = <<d, e>>
    BY <1>2 DEF Shape
  <2>2. p \in recipients
    BY <1>1 DEF Effect, Inv, Known
  <2>3. p \notin fresh /\ p \in recipients'
    BY <1>1, <2>2 DEF Effect
  <2>4. Present(d, e) => p \in lost
    BY <1>1, <2>1 DEF Effect, Inv, Known
  <2>5. ~Present(d, e)'
    BY <1>1, <2>1, <2>3, <2>4 DEF Effect, RowsMove
  <2>6. QED
    BY <2>1, <2>3, <2>5
<1>5. ASSUME NEW w \in Drains, pc'[w] # "idle" PROVE task'[w] \in recipients'
  <2>1. CASE task'[w] = task[w] /\ pc[w] # "idle"
    BY <1>1, <2>1 DEF Effect, Inv, Known
  <2>2. ASSUME NEW d \in Devices, ScanCandidate(w, d) PROVE task'[w] \in recipients'
    <3>1. PICK r \in queue[d] : task'[w] = <<d, r.event>> /\ recipients' = recipients
      BY <2>2, ScanFindsItsRow
    <3>2. QED
      BY <3>1 DEF Inv, Known, Rows
  <2>3. QED
    BY <1>5, <2>1, <2>2, TasksAreScanned
<1>6. QED
  BY <1>3, <1>4, <1>5, DismissalsAreCommitted DEF Known

-----------------------------------------------------------------------------
(* The leases of the drains that send, and the trays of the phones.         *)

LEMMA SendersComeFromLeases ==
    ASSUME Inv, [Next]_vars, NEW v \in Drains, Sends(v)'
    PROVE  \/ /\ Sends(v) /\ task'[v] = task[v]
              /\ pc'[v] \in {"leased", "sending"} => pc[v] \in {"leased", "sending"}
           \/ Lease(v)
<1>1. CASE \E w \in Drains \ {v} : CalmStep(w) \/ HeavyStep(w)
  BY <1>1, OthersStay DEF Inv, Sends
<1>2. CASE CalmStep(v) \/ HeavyStep(v)
  <2>1. CASE \/ SkipDevice(v) \/ Crash(v) \/ DropDismissed(v) \/ FinishDelete(v) \/ FinishRetry(v)
             \/ OwnDevice(v) \/ \E d \in Devices : ScanCandidate(v, d)
    BY <2>1 DEF Inv, Shape, Sends, Sending, SkipDevice, Crash, DropDismissed, FinishDelete,
                FinishRetry, OwnDevice, ScanCandidate, Rest, Goto
  <2>2. CASE EndClaim(v) \/ Renew(v)
    BY <2>2 DEF Sends, EndClaim, Renew, claims, phones
  <2>3. CASE \/ BeginSend(v) \/ ProviderAccepts(v) \/ ProviderRetryable(v) \/ ProviderRefuses(v)
             \/ FinishFails(v)
    <3>1. /\ task' = task /\ stalled' = stalled /\ pc[v] \in Sending
          /\ pc'[v] \in {"leased", "sending"} => pc[v] \in {"leased", "sending"}
      BY <2>3 DEF BeginSend, ProviderAccepts, ProviderRetryable, ProviderRefuses, FinishFails,
                  Goto, Arrive, phones, Sending, Inv, Shape
    <3>2. QED
      BY <3>1 DEF Sends, Sending
  <2>4. QED
    BY <1>2, <2>1, <2>2, <2>3 DEF CalmStep, HeavyStep
<1>3. CASE TableStep \/ UNCHANGED vars
  BY <1>3, TablesLeaveDrains DEF claims, Sends
<1>4. QED
  BY <1>1, <1>2, <1>3, StepKinds

LEMMA LeasesSteps ==
    ASSUME Inv, [Next]_vars
    PROVE  Leases'
<1>1. PICK lost, touched, fresh : Effect(lost, touched, fresh)
  BY StepsHaveEffects DEF SomeEffect
<1>2. ASSUME NEW v \in Drains, Lease(v)
      PROVE  /\ pc[v] = "owner" /\ pc'[v] = "leased" /\ task' = task
             /\ \A w \in Drains \ {v} : pc'[w] = pc[w]
  BY <1>2 DEF Lease, Goto, Inv, Shape
<1>3. ASSUME NEW v \in Drains, Sends(v)' PROVE HasLease(v)'
  <2>1. CASE Lease(v)
    BY <2>1, LeaseEffect
  <2>2. CASE Sends(v) /\ task'[v] = task[v]
    <3>1. CASE task[v] \in lost \cup touched
      BY <1>1, <1>3, <2>2, <3>1 DEF Effect
    <3>2. CASE task[v] \notin lost \cup touched
      <4>1. PICK d \in Devices, e \in Events : task[v] = <<d, e>>
        BY DEF Inv, Shape
      <4>2. Under(d, e, v)
        BY <2>2, <4>1, SenderHoldsItsRow
      <4>3. Under(d, e, v)'
        BY <1>1, <3>2, <4>1, <4>2 DEF Effect, RowsMove
      <4>4. pc'[v] \in Sending
        BY <1>3 DEF Sends
      <4>5. QED
        BY <2>2, <4>1, <4>3, <4>4 DEF HasLease, Holds, Under, Rows
    <3>3. QED
      BY <3>1, <3>2
  <2>3. QED
    BY <1>3, <2>1, <2>2, SendersComeFromLeases
<1>4. ASSUME NEW v \in Drains, NEW w \in Drains, Sends(v)', Sends(w)',
             task'[v][1] = task'[w][1]
      PROVE  v = w
  <2>1. CASE Lease(v) /\ Lease(w)
    BY <1>2, <2>1
  <2>2. CASE Lease(v) /\ Sends(w) /\ task'[w] = task[w]
    BY <1>2, <1>4, <2>2 DEF Inv, Leases
  <2>3. CASE Lease(w) /\ Sends(v) /\ task'[v] = task[v]
    BY <1>2, <1>4, <2>3 DEF Inv, Leases
  <2>4. CASE Sends(v) /\ Sends(w) /\ task'[v] = task[v] /\ task'[w] = task[w]
    BY <1>4, <2>4 DEF Inv, Leases
  <2>5. QED
    BY <1>4, <2>1, <2>2, <2>3, <2>4, SendersComeFromLeases
<1>5. ASSUME NEW v \in Drains, NEW w \in Drains, Sends(v)', pc'[w] = "owner"
      PROVE  task'[v][1] # task'[w][1]
  <2>1. v # w
    BY <1>5 DEF Sends, Sending
  <2>2. CASE OwnDevice(w)
    <3>1. task' = task /\ ~Busy(task[w][1]) /\ ~Lease(v)
      BY <1>2, <2>1, <2>2 DEF OwnDevice, Goto, IsHead, Inv, Shape
    <3>2. Sends(v)
      BY <1>5, <3>1, SendersComeFromLeases
    <3>3. PICK r \in queue[task[v][1]] : r.token = v /\ r.live
      BY <3>2, SenderHoldsItsRow DEF Under, Rows
    <3>4. v # None
      BY <3>2, SenderHoldsItsRow
    <3>5. QED
      BY <3>1, <3>3, <3>4 DEF Busy, Leased, Rows
  <2>3. CASE pc[w] = "owner" /\ task'[w] = task[w]
    <3>1. CASE Lease(v)
      <4>1. task[v][1] \in deviceLocks[v] /\ task[w][1] \in deviceLocks[w]
        BY <1>2, <2>3, <3>1 DEF Inv, Locks
      <4>2. task[v][1] # task[w][1]
        BY <2>1, <4>1 DEF Inv, Locks
      <4>3. QED
        BY <1>2, <3>1, <4>2
    <3>2. CASE Sends(v) /\ task'[v] = task[v]
      BY <2>3, <3>2 DEF Inv, Leases
    <3>3. QED
      BY <1>5, <3>1, <3>2, SendersComeFromLeases
  <2>4. QED
    BY <1>5, <2>2, <2>3, ClaimsGoOn
<1>6. QED
  BY <1>3, <1>4, <1>5 DEF Leases

(* A push arrives at a phone, in a step that begins no lease.               *)
Arrival(w) ==
    /\ pc[w] = "sending" /\ Arrive(w) /\ task' = task
    /\ pc'[w] \notin {"leased", "sending"}
    /\ \A v \in Drains : ~Lease(v)

(* Only what arrives changes a tray.                                        *)
LEMMA TraysChangeOnArrival ==
    ASSUME Inv, [Next]_vars
    PROVE  \/ shown' = shown /\ fenced' = fenced /\ strayed' = strayed
           \/ \E w \in Drains : Arrival(w)
<1>1. ASSUME NEW w \in Drains, ProviderAccepts(w) \/ (ProviderRetryable(w) /\ Arrive(w))
      PROVE  Arrival(w)
  <2>1. /\ pc[w] = "sending" /\ Arrive(w) /\ task' = task
        /\ pc' = [pc EXCEPT ![w] = "sent"] \/ pc' = [pc EXCEPT ![w] = "retry"]
    BY <1>1 DEF ProviderAccepts, ProviderRetryable, Goto
  <2>2. pc'[w] \in {"sent", "retry"} /\ \A u \in Drains : u # w => pc'[u] = pc[u]
    BY <2>1 DEF Inv, Shape
  <2>3. \A u \in Drains : Lease(u) => pc[u] = "owner" /\ pc'[u] = "leased"
    BY DEF Lease, Goto, Inv, Shape
  <2>4. QED
    BY <2>1, <2>2, <2>3 DEF Arrival
<1>2. ASSUME NEW w \in Drains, CalmStep(w) \/ HeavyStep(w),
             ~(ProviderAccepts(w) \/ (ProviderRetryable(w) /\ Arrive(w)))
      PROVE  shown' = shown /\ fenced' = fenced /\ strayed' = strayed
  BY <1>2 DEF CalmStep, HeavyStep, ScanCandidate, OwnDevice, SkipDevice, EndClaim, Crash,
              BeginSend, ProviderRetryable, ProviderRefuses, FinishFails, Lease,
              DropDismissed, FinishDelete, FinishRetry, Renew, phones
<1>3. CASE TableStep \/ UNCHANGED vars
  BY <1>3 DEF TableStep, AcceptAlert, AcceptDismissal, LapseLease, StallLease, Prune, Expire, vars, phones
<1>4. QED
  BY <1>1, <1>2, <1>3, StepKinds

LEMMA TraysSteps ==
    ASSUME Inv, [Next]_vars
    PROVE  Trays'
<1>1. /\ dismissedTo \in Nat /\ dismissedTo' \in Nat /\ dismissedTo' >= dismissedTo
      /\ \A d \in Devices : fenced[d] \in Nat /\ fenced[d] <= dismissedTo
      /\ Events \subseteq Nat /\ Alerts \subseteq Nat /\ Dismissals \subseteq Nat
  <2>1. Events \subseteq Nat /\ Alerts \subseteq Nat /\ Dismissals \subseteq Nat
    BY PushAssumption DEF Alerts
  <2>2. dismissedTo \in Nat /\ \A d \in Devices : fenced[d] \in Nat
    <3>1. \A n \in Dismissals \cup {0} : n \in Nat
      BY <2>1
    <3>2. dismissedTo \in Dismissals \cup {0} /\ \A d \in Devices : fenced[d] \in Dismissals \cup {0}
      BY DEF Inv, Shape
    <3>3. QED
      BY <3>1, <3>2
  <2>3. dismissedTo' \in Nat
    <3>1. dismissedTo' \in Dismissals \cup {0}
      BY ShapeSteps DEF Shape
    <3>2. QED
      BY <2>1, <3>1
  <2>4. dismissedTo' >= dismissedTo
    BY DismissalsAreCommitted
  <2>5. QED
    BY <2>1, <2>2, <2>3, <2>4 DEF Inv, Trays
<1> DEFINE under(w) == /\ Sends(w) /\ pc[w] \in {"leased", "sending"}
                       /\ task[w][2] \in Alerts /\ task[w][1] \notin strayed
           ahead(w) == task[w][2] > fenced[task[w][1]]
<1>2. \A w \in Drains : under(w) => ahead(w)
  BY DEF Inv, Trays
<1>3. \A w \in Drains : task[w][1] \in Devices /\ task[w][2] \in Events
  BY DEF Inv, Shape
<1>4. CASE shown' = shown /\ fenced' = fenced /\ strayed' = strayed
  <2>1. \A d \in Devices : fenced'[d] <= dismissedTo'
    BY <1>1, <1>4
  <2>2. \A d \in Devices \ strayed' : \A a \in shown'[d] : a > fenced'[d]
    BY <1>4 DEF Inv, Trays
  <2>3. ASSUME NEW w \in Drains, under(w)' PROVE ahead(w)'
    <3>1. CASE Lease(w)
      <4>1. task' = task /\ ~IsDismissedAlert(task[w][2])
        BY <3>1 DEF Lease, Goto
      <4>2. task[w][2] \in Alerts /\ task[w][2] \in Nat
        BY <1>1, <2>3, <4>1
      <4>3. task[w][2] > dismissedTo
        BY <1>1, <4>1, <4>2 DEF IsDismissedAlert
      <4>4. fenced[task[w][1]] \in Nat /\ fenced[task[w][1]] <= dismissedTo
        BY <1>1, <1>3
      <4>5. task[w][2] > fenced[task[w][1]]
        BY <1>1, <4>2, <4>3, <4>4
      <4>6. QED
        BY <1>4, <4>1, <4>5
    <3>2. CASE Sends(w) /\ task'[w] = task[w] /\ pc[w] \in {"leased", "sending"}
      BY <1>2, <1>4, <2>3, <3>2
    <3>3. QED
      BY <2>3, <3>1, <3>2, SendersComeFromLeases
  <2>4. QED
    BY <2>1, <2>2, <2>3 DEF Trays
<1>5. ASSUME NEW w \in Drains, pc[w] = "sending", Arrive(w), task' = task,
             pc'[w] \notin {"leased", "sending"}, \A v \in Drains : ~Lease(v)
      PROVE  Trays'
  <2> DEFINE d == task[w][1]
             e == task[w][2]
  <2>1. d \in Devices /\ e \in Events /\ e \in Nat
    BY <1>1, <1>3
  <2>2. /\ \A q \in Devices \ {d} : shown'[q] = shown[q] /\ fenced'[q] = fenced[q]
        /\ shown'[d] = IF e \in Alerts THEN shown[d] \cup {e} ELSE {a \in shown[d] : a > e}
        /\ fenced'[d] = IF e \in Alerts \/ fenced[d] > e THEN fenced[d] ELSE e
        /\ strayed \subseteq strayed'
        /\ w \in stalled => d \in strayed'
    BY <1>5, <2>1 DEF Arrive, Inv, Shape
  <2>3. e \notin Alerts => e <= dismissedTo
    BY <1>5, <2>1 DEF Inv, Known, Alerts
  <2>4. shown[d] \subseteq Nat
    BY <1>1, <2>1 DEF Inv, Shape
  <2> HIDE DEF d, e
  <2>5. \A q \in Devices : fenced'[q] <= dismissedTo'
    <3>1. fenced'[d] \in Nat /\ fenced'[d] <= dismissedTo
      BY <1>1, <2>1, <2>2, <2>3
    <3>2. QED
      BY <1>1, <2>1, <2>2, <3>1
  <2>6. ASSUME NEW q \in Devices \ strayed', NEW a \in shown'[q] PROVE a > fenced'[q]
    <3>1. CASE q # d
      BY <2>2, <2>6, <3>1 DEF Inv, Trays
    <3>2. CASE q = d
      <4>1. Sends(w) /\ d \notin strayed
        BY <1>5, <2>2, <2>6, <3>2 DEF Sends, Sending
      <4>2. e \in Alerts => e > fenced[d]
        BY <1>2, <1>5, <4>1 DEF d, e
      <4>3. \A b \in shown[d] : b > fenced[d] /\ b \in Nat
        BY <2>1, <2>4, <4>1 DEF Inv, Trays
      <4>4. CASE e \in Alerts
        BY <2>2, <2>6, <3>2, <4>2, <4>3, <4>4
      <4>5. CASE e \notin Alerts
        BY <2>2, <2>6, <3>2, <4>3, <4>5
      <4>6. QED
        BY <4>4, <4>5
    <3>3. QED
      BY <3>1, <3>2
  <2>7. ASSUME NEW v \in Drains, under(v)' PROVE ahead(v)'
    <3>1. v # w /\ Sends(v) /\ pc[v] \in {"leased", "sending"}
      BY <1>5, <2>7, SendersComeFromLeases
    <3>2. task[v][2] \in Alerts /\ task[v][1] \notin strayed'
      BY <1>5, <2>7
    <3>3. CASE task[v][1] = d
      <4>1. w \notin stalled
        BY <2>2, <3>2, <3>3
      <4>2. Sends(w)
        BY <1>5, <4>1 DEF Sends, Sending
      <4>3. QED
        BY <3>1, <3>3, <4>2 DEF Inv, Leases, d
    <3>4. CASE task[v][1] # d
      <4>1. fenced'[task[v][1]] = fenced[task[v][1]]
        BY <1>3, <2>2, <3>4
      <4>2. under(v)
        BY <2>2, <3>1, <3>2
      <4>3. QED
        BY <1>2, <1>5, <4>1, <4>2
    <3>5. QED
      BY <3>3, <3>4
  <2>8. QED
    BY <2>5, <2>6, <2>7 DEF Trays
<1> HIDE DEF under, ahead
<1>6. CASE ~(shown' = shown /\ fenced' = fenced /\ strayed' = strayed)
  <2>1. PICK w \in Drains : Arrival(w)
    BY <1>6, TraysChangeOnArrival
  <2>2. QED
    BY <1>5, <2>1 DEF Arrival
<1>7. QED
  BY <1>4, <1>6

-----------------------------------------------------------------------------
(* The theorems.                                                            *)

LEMMA InvAtInit == Init => Inv
<1> SUFFICES ASSUME Init PROVE Inv
  OBVIOUS
<1> USE DEF Init
<1>1. Shape
  <2>1. task \in [Drains -> Devices \X Events]
    BY NoTaskIsATask
  <2>2. QED
    BY <2>1, PushAssumption DEF Shape, Alerts
<1>2. Lines
  BY DEF Lines, Line, Rows
<1>3. Locks
  BY DEF Locks
<1>4. Known
  BY DEF Known, Rows
<1>5. Leases
  BY DEF Leases, Sends, Sending
<1>6. Trays
  BY PushAssumption DEF Trays, Sends, Sending
<1>7. QED
  BY <1>1, <1>2, <1>3, <1>4, <1>5, <1>6 DEF Inv

(* Together these are inductive: one row per delivery, in one line per      *)
(* device; exclusive locks on rows that stay; deliveries that were queued   *)
(* are known; senders under leases of their own; trays ahead of dismissals. *)
THEOREM QueueHolds == Spec => []Inv
<1>1. Inv /\ [Next]_vars => Inv'
  BY ShapeSteps, LocksSteps, KnownSteps, LeasesSteps, TraysSteps DEF Inv
<1>2. QED
  BY InvAtInit, <1>1, PTL DEF Spec

(* Every variable keeps its type, a device has one row per event, and its   *)
(* rows stand in one line, wherever in it new and postponed rows land.      *)
THEOREM QueueTypes == Spec => []TypeOK
<1>1. Inv => TypeOK
  BY DEF Inv, Shape, Lines, Line, Rows, TypeOK
<1>2. QED
  BY QueueHolds, <1>1, PTL

(* However many processes claim, however their transactions, finishes and   *)
(* lease renewals interleave, and wherever in the queue rows land meanwhile, *)
(* no two drains whose leases held all along send to the same phone.        *)
THEOREM OneSenderAtATime == Spec => []OneSenderPerDevice
<1>1. Inv => OneSenderPerDevice
  BY DEF Inv, Leases, Sends, HasLease, OneSenderPerDevice
<1>2. QED
  BY QueueHolds, <1>1, PTL

(* A delivery that a drain finished is not sent again by a drain whose      *)
(* lease held all along, for any number of requests, retries and takeovers. *)
THEOREM SettledStaysUnsent == Spec => []SettledIsNotSentAgain
<1>1. Inv => SettledIsNotSentAgain
  <2>1. SUFFICES ASSUME Inv, NEW w \in Drains \ stalled, pc[w] \in {"leased", "sending"}
                 PROVE  task[w] \notin settled
    BY DEF SettledIsNotSentAgain
  <2>2. Sends(w)
    BY <2>1 DEF Sends, Sending
  <2>3. Present(task[w][1], task[w][2])
    BY <2>1, <2>2, SenderHoldsItsRow DEF Present, Under, Rows
  <2>4. QED
    BY <2>1, <2>3 DEF Inv, Known
<1>2. QED
  BY QueueHolds, <1>1, PTL

(* A phone that was only sent to under leases that held shows no alert that *)
(* a dismissal it received covers.                                          *)
THEOREM TraysStayDismissed == Spec => []DismissedStaysDismissed
<1>1. Inv => DismissedStaysDismissed
  BY DEF Inv, Trays, DismissedStaysDismissed
<1>2. QED
  BY QueueHolds, <1>1, PTL

(* A queued delivery leaves the queue only when its drain finished it, its  *)
(* event expired, or a dismissal committed for it.                          *)
THEOREM DeliveriesAreKept == Spec => NothingLost
<1> DEFINE kept == \A d \in Devices : \A r \in Rows(d) :
                      \/ \E s \in queue'[d] : s.event = r.event
                      \/ <<d, r.event>> \in settled'
                      \/ r.event \in expired
                      \/ r.event \in Alerts /\ dismissedTo' >= r.event
<1>1. Inv /\ [Next]_vars => kept
  <2>1. SUFFICES ASSUME Inv, [Next]_vars, NEW d \in Devices, NEW r \in Rows(d)
                 PROVE  \/ \E s \in queue'[d] : s.event = r.event
                        \/ <<d, r.event>> \in settled'
                        \/ r.event \in expired
                        \/ r.event \in Alerts /\ dismissedTo' >= r.event
    OBVIOUS
  <2>2. PICK lost, touched, fresh : Effect(lost, touched, fresh)
    BY <2>1, StepsHaveEffects DEF SomeEffect
  <2>3. r.event \in Events /\ Present(d, r.event)
    BY <2>1 DEF Inv, Shape, Row, Rows, Present
  <2>4. CASE <<d, r.event>> \in lost
    BY <2>2, <2>4 DEF Effect
  <2>5. CASE <<d, r.event>> \notin lost
    <3>1. Present(d, r.event)'
      BY <2>2, <2>3, <2>5 DEF Effect, RowsMove
    <3>2. QED
      BY <3>1 DEF Present, Rows
  <2>6. QED
    BY <2>4, <2>5
<1>2. QED
  BY QueueHolds, <1>1, PTL DEF Spec, NothingLost

(* While a drain is at a delivery and its lease has not run out, no other   *)
(* step ends the lease: no claim takes the row over, no stale finish or     *)
(* retry of another drain matches it, no dismissal and no cleanup deletes it. *)
THEOREM LeasesEndWithTheirDrains == Spec => LeaseEndsWithItsDrain
<1> DEFINE held == \A d \in Devices : \A r \in Rows(d) :
                      Leased(r) /\ Sender(d, r) /\ Sender(d, r)' /\ ~StallLease(d, r)
                        => \E s \in queue'[d] : s.event = r.event /\ s.token = r.token /\ s.live
<1>1. Inv /\ [Next]_vars => held
  <2>1. SUFFICES ASSUME Inv, [Next]_vars, NEW d \in Devices, NEW r \in Rows(d), Guarded(d, r)
                 PROVE  \E s \in queue'[d] :
                            s.event = r.event /\ s.token = r.token /\ s.live
    BY DEF Guarded
  <2>2. PICK lost, touched, fresh : Effect(lost, touched, fresh)
    BY <2>1, StepsHaveEffects DEF SomeEffect
  <2>3. r.event \in Events /\ r.token \in Drains /\ r.live
    BY <2>1 DEF Inv, Shape, Row, Rows, Guarded, Leased
  <2>4. Under(d, r.event, r.token)
    BY <2>3 DEF Under
  <2>5. <<d, r.event>> \notin lost \cup touched
    BY <2>1, <2>2 DEF Effect, Rows
  <2>6. Under(d, r.event, r.token)'
    BY <2>2, <2>3, <2>4, <2>5 DEF Effect, RowsMove
  <2>7. QED
    BY <2>6 DEF Under, Rows
<1>2. QED
  BY QueueHolds, <1>1, PTL DEF Spec, LeaseEndsWithItsDrain

=============================================================================
