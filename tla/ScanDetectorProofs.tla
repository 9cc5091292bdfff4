------------------------- MODULE ScanDetectorProofs -------------------------
(***************************************************************************)
(* The scan detector, for any tasks, clients, thresholds and times: a      *)
(* block lasts and reports keep their distance, though the times that      *)
(* requests read meet a record out of order and the collector drops        *)
(* records at any time.                                                    *)
(***************************************************************************)
EXTENDS ScanDetector, TLAPS

(* What every variable holds; no time is ahead of the clock.               *)
Shapes ==
  /\ clock \in 0..MaxClock
  /\ tracker \in [Clients -> IpRecord \cup {NoRecord}]
  /\ pc \in [Tasks -> {"idle", "handling", "record"}]
  /\ now \in [Tasks -> Nat]
  /\ \A t \in Tasks : now[t] <= clock
  /\ gc_wake \in Nat
  /\ reported \in [Clients -> Nat \cup {Never}]
  /\ \A c \in Clients : reported[c] # Never => reported[c] <= clock

(* The constants, one by one.                                              *)
LEMMA Constants ==
  /\ ClientOf \in [Tasks -> Clients]
  /\ \A o \in Outcomes : o.error \in BOOLEAN
  /\ Window \in Nat /\ BlockSecs \in Nat /\ Day \in Nat /\ MaxClock \in Nat
  /\ GcInterval \in Nat /\ NoRecord \notin IpRecord /\ Never = -1
  BY ScanDetectorAssumption DEF Never

-----------------------------------------------------------------------------
(* The record of a request in parts                                        *)

Old(c) == IF tracker[c] = NoRecord THEN NewRecord ELSE tracker[c]

Recorded(t, o) == Counted(Current(Old(ClientOf[t]), now[t]), o)

Blocks(t, o) == Score(Recorded(t, o)) >= ScoreTrigger

Until(t) == IF BlockSecs > 0 THEN now[t] + BlockSecs ELSE 0

Updated(t, o) ==
  IF Blocks(t, o)
  THEN [Recorded(t, o) EXCEPT
          !.blocked_until = Until(t),
          !.last_reported = IF ReportDue(Recorded(t, o), now[t]) THEN now[t] ELSE @]
  ELSE Recorded(t, o)

(* Record leaves the record of a blocked client alone; otherwise it        *)
(* writes the new one, and a report comes with a block.                    *)
LEMMA RecordParts ==
  ASSUME NEW t \in Tasks, NEW o \in Outcomes, Record(t, o)
  PROVE  /\ pc' = [pc EXCEPT ![t] = "idle"] /\ UNCHANGED <<clock, now, gc_wake>>
         /\ now[t] < Old(ClientOf[t]).blocked_until => UNCHANGED <<tracker, reported>>
         /\ ~(now[t] < Old(ClientOf[t]).blocked_until) =>
              /\ tracker' = [tracker EXCEPT ![ClientOf[t]] = Updated(t, o)]
              /\ \/ reported' = reported
                 \/ /\ reported' = [reported EXCEPT ![ClientOf[t]] = now[t]]
                    /\ Blocks(t, o)
  <1>1. pc' = [pc EXCEPT ![t] = "idle"] /\ UNCHANGED <<clock, now, gc_wake>>
    BY DEF Record
  <1>2. /\ now[t] < Old(ClientOf[t]).blocked_until => UNCHANGED <<tracker, reported>>
        /\ ~(now[t] < Old(ClientOf[t]).blocked_until) =>
             /\ tracker' = [tracker EXCEPT ![ClientOf[t]] = Updated(t, o)]
             /\ reported' = IF Blocks(t, o) /\ ReportDue(Recorded(t, o), now[t])
                            THEN [reported EXCEPT ![ClientOf[t]] = now[t]] ELSE reported
    BY Zenon DEF Record, Old, Recorded, Updated, Until, Blocks
  <1> QED  BY <1>1, <1>2

(* A new record is empty and not blocked.                                  *)
LEMMA NewRecordTyped ==
  ASSUME Shapes
  PROVE  NewRecord \in IpRecord
  BY Constants DEF Shapes, NewRecord, IpRecord, Never

(* What a request adds to a record.                                        *)
LEMMA RecordedTyped ==
  ASSUME Shapes, NEW t \in Tasks, NEW o \in Outcomes
  PROVE  /\ ClientOf[t] \in Clients /\ now[t] \in Nat /\ now[t] <= clock /\ clock \in Nat
         /\ Old(ClientOf[t]) \in IpRecord
         /\ Recorded(t, o) \in IpRecord
         /\ Recorded(t, o).blocked_until = 0
  <1> DEFINE r == Old(ClientOf[t])
             k == Current(r, now[t])
             P == UNION {q.probes : q \in Outcomes}
  <1>1. ClientOf[t] \in Clients /\ now[t] \in Nat /\ now[t] <= clock /\ clock \in Nat
    BY Constants DEF Shapes
  <1>2. NewRecord \in IpRecord /\ NewRecord.blocked_until = 0
    BY NewRecordTyped DEF NewRecord
  <1>3. r \in IpRecord
    BY <1>1, <1>2 DEF Shapes, Old
  <1>4. k \in IpRecord /\ k.blocked_until = 0
    <2> HIDE DEF r
    <2>1. r.last_reported \in Nat \cup {Never}
      BY <1>3 DEF IpRecord
    <2>2. CASE Elapsed(r.window_start, now[t]) > Window
      <3>1. k = [NewRecord EXCEPT !.last_reported = r.last_reported]
        BY <2>2 DEF Current
      <3> QED  BY <3>1, <1>2, <2>1 DEF IpRecord
    <2>3. CASE ~(Elapsed(r.window_start, now[t]) > Window)
      <3>1. k = [r EXCEPT !.blocked_until = 0]
        BY <2>3 DEF Current
      <3> QED  BY <3>1, <1>3 DEF IpRecord
    <2> QED  BY <2>2, <2>3
  <1>5. o.probes \subseteq P
    OBVIOUS
  <1>6. Counted(k, o) \in IpRecord /\ Counted(k, o).blocked_until = 0
    <2> HIDE DEF k
    <2>1. k.probe_paths \cup o.probes \in SUBSET P
      BY <1>4, <1>5 DEF IpRecord
    <2> HIDE DEF P
    <2>2. IpRecord = [window_start : 0..MaxClock, req_count : Nat, error_4xx : Nat,
                      probe_paths : SUBSET P, blocked_until : Nat,
                      last_reported : Nat \cup {Never}]
      BY DEF IpRecord, P
    <2> DEFINE e == IF o.error THEN k.error_4xx + 1 ELSE k.error_4xx
               q == k.probe_paths \cup o.probes
    <2>3. e \in Nat /\ k.req_count + 1 \in Nat /\ q \in SUBSET P
      BY <2>1, <2>2, <1>4
    <2>4. Counted(k, o) = [k EXCEPT !.req_count = k.req_count + 1, !.error_4xx = e,
                                    !.probe_paths = q]
      BY DEF Counted
    <2> HIDE DEF e, q
    <2> QED  BY <2>2, <2>3, <2>4, <1>4
  <1> QED  BY <1>1, <1>3, <1>6 DEF Recorded

(* The record a request leaves; the block of one that scores enough.       *)
LEMMA UpdatedTyped ==
  ASSUME Shapes, NEW t \in Tasks, NEW o \in Outcomes
  PROVE  /\ Updated(t, o) \in IpRecord /\ Updated(t, o) # NoRecord
         /\ Blocks(t, o) => Updated(t, o).blocked_until = Until(t)
         /\ Until(t) \in Nat
         /\ Until(t) = now[t] + BlockSecs \/ BlockSecs = 0
  <1> DEFINE r == Recorded(t, o)
             l == IF ReportDue(r, now[t]) THEN now[t] ELSE r.last_reported
  <1>1. now[t] \in Nat /\ r \in IpRecord
    BY RecordedTyped
  <1>2. Until(t) \in Nat /\ (Until(t) = now[t] + BlockSecs \/ BlockSecs = 0)
    BY <1>1, Constants DEF Until
  <1>3. CASE Blocks(t, o)
    <2>1. Updated(t, o) = [r EXCEPT !.blocked_until = Until(t), !.last_reported = l]
      BY <1>3 DEF Updated
    <2> HIDE DEF r
    <2>2. l \in Nat \cup {Never}
      BY <1>1 DEF IpRecord
    <2> HIDE DEF l
    <2>3. Updated(t, o) \in IpRecord /\ Updated(t, o).blocked_until = Until(t)
      BY <2>1, <2>2, <1>1, <1>2 DEF IpRecord
    <2> QED  BY <2>3, <1>2, Constants
  <1>4. CASE ~Blocks(t, o)
    BY <1>1, <1>2, <1>4, Constants DEF Updated
  <1> QED  BY <1>3, <1>4

-----------------------------------------------------------------------------
(* Shapes                                                                  *)

(* The initial state.                                                      *)
LEMMA InitShapes == Init => Shapes
  BY Constants DEF Init, Shapes, Never

(* Every step keeps the shapes.                                            *)
LEMMA NextShapes == Shapes /\ [Next]_vars => Shapes'
  <1> SUFFICES ASSUME Shapes, [Next]_vars PROVE Shapes'
    OBVIOUS
  <1>0. clock \in Nat /\ clock <= MaxClock /\ MaxClock \in Nat
    BY Constants DEF Shapes
  <1>1. ASSUME NEW t \in Tasks, Gate(t) \/ ReturnEarly(t) PROVE Shapes'
    BY <1>1 DEF Shapes, Gate, ReturnEarly
  <1>2. ASSUME NEW t \in Tasks, ReadNow(t) PROVE Shapes'
    BY <1>2, <1>0 DEF Shapes, ReadNow
  <1>3. ASSUME NEW t \in Tasks, NEW o \in Outcomes, Record(t, o) PROVE Shapes'
    <2>1. /\ ClientOf[t] \in Clients /\ now[t] \in Nat /\ now[t] <= clock
          /\ Updated(t, o) \in IpRecord
      BY RecordedTyped, UpdatedTyped
    <2>2. /\ pc' = [pc EXCEPT ![t] = "idle"] /\ UNCHANGED <<clock, now, gc_wake>>
          /\ tracker' = tracker \/ tracker' = [tracker EXCEPT ![ClientOf[t]] = Updated(t, o)]
          /\ reported' = reported \/ reported' = [reported EXCEPT ![ClientOf[t]] = now[t]]
      BY <1>3, RecordParts
    <2>3. tracker' \in [Clients -> IpRecord \cup {NoRecord}]
      BY <2>1, <2>2 DEF Shapes
    <2>4. /\ reported' \in [Clients -> Nat \cup {Never}]
          /\ \A c \in Clients : reported'[c] # Never => reported'[c] <= clock
      BY <2>1, <2>2 DEF Shapes
    <2> QED  BY <2>2, <2>3, <2>4 DEF Shapes
  <1>4. CASE Gc
    <2>1. tracker' \in [Clients -> IpRecord \cup {NoRecord}]
      BY <1>4 DEF Gc, Shapes
    <2> QED  BY <2>1, <1>0, <1>4, Constants DEF Shapes, Gc
  <1>5. CASE Tick
    <2>1. \A c \in Clients : reported[c] # Never => reported[c] <= clock + 1
      BY <1>0 DEF Shapes, Never
    <2>2. clock + 1 \in 0..MaxClock /\ \A t \in Tasks : now[t] <= clock + 1
      BY <1>0, <1>5 DEF Shapes, Tick
    <2> QED  BY <1>5, <2>1, <2>2 DEF Shapes, Tick
  <1>6. CASE UNCHANGED vars
    BY <1>6 DEF Shapes, vars
  <1> QED  BY <1>1, <1>2, <1>3, <1>4, <1>5, <1>6 DEF Next

(* The shapes hold always.                                                 *)
LEMMA ShapesHold == Spec => []Shapes
  BY InitShapes, NextShapes, PTL DEF Spec

-----------------------------------------------------------------------------
(* Types                                                                   *)

(* A record never has more errors than requests.                           *)
Rated(c) ==
  tracker[c] # NoRecord => tracker[c].error_4xx <= tracker[c].req_count

(* Counting a request keeps the errors within the requests.                *)
LEMMA UpdatedRated ==
  ASSUME Shapes, NEW t \in Tasks, NEW o \in Outcomes, Rated(ClientOf[t])
  PROVE  Updated(t, o).error_4xx <= Updated(t, o).req_count
  <1> DEFINE r == Old(ClientOf[t])
             k == Current(r, now[t])
             e == IF o.error THEN k.error_4xx + 1 ELSE k.error_4xx
             x == Recorded(t, o)
  <1>1. r \in IpRecord /\ x \in IpRecord
    BY RecordedTyped
  <1>2. r.error_4xx <= r.req_count
    BY DEF Old, Rated, NewRecord
  <1>3. k.error_4xx \in Nat /\ k.req_count \in Nat /\ k.error_4xx <= k.req_count
    <2> HIDE DEF r
    <2>1. CASE Elapsed(r.window_start, now[t]) > Window
      <3>1. k = [NewRecord EXCEPT !.last_reported = r.last_reported]
        BY <2>1 DEF Current
      <3>2. k.error_4xx = 0 /\ k.req_count = 0
        BY <3>1 DEF NewRecord
      <3> QED  BY <3>2
    <2>2. CASE ~(Elapsed(r.window_start, now[t]) > Window)
      <3>1. k = [r EXCEPT !.blocked_until = 0]
        BY <2>2 DEF Current
      <3>2. k.error_4xx = r.error_4xx /\ k.req_count = r.req_count
        BY <3>1, <1>1 DEF IpRecord
      <3> QED  BY <3>2, <1>1, <1>2 DEF IpRecord
    <2> QED  BY <2>1, <2>2
  <1>4. x.error_4xx = e /\ x.req_count = k.req_count + 1
    <2>1. k.req_count + 1 = k.req_count + 1 /\ k \in IpRecord
      BY Constants, <1>1, NewRecordTyped DEF Current, IpRecord
    <2> QED  BY <2>1 DEF Recorded, Counted, IpRecord
  <1>5. e <= k.req_count + 1
    <2> HIDE DEF k
    <2> QED  BY <1>3
  <1>6. x.error_4xx <= x.req_count
    <2> HIDE DEF x, e
    <2> QED  BY <1>4, <1>5
  <1>7. Updated(t, o).error_4xx = x.error_4xx /\ Updated(t, o).req_count = x.req_count
    <2> HIDE DEF x
    <2>1. x = Recorded(t, o)
      BY DEF x
    <2> QED  BY <2>1, <1>1 DEF Updated, IpRecord
  <1> QED  BY <1>6, <1>7

(* The shapes and the rates hold always.                                   *)
LEMMA RatedHolds == Spec => [](Shapes /\ \A c \in Clients : Rated(c))
  <1> DEFINE I == Shapes /\ \A c \in Clients : Rated(c)
  <1>1. Init => I
    BY InitShapes DEF Init, Rated
  <1>2. I /\ [Next]_vars => I'
    <2> SUFFICES ASSUME I, [Next]_vars PROVE I'
      OBVIOUS
    <2>0. Shapes'
      BY NextShapes
    <2>1. ASSUME NEW c \in Clients PROVE Rated(c)'
      <3>1. ASSUME NEW t \in Tasks, NEW o \in Outcomes, Record(t, o) PROVE Rated(c)'
        <4>1. \/ tracker' = tracker
              \/ tracker' = [tracker EXCEPT ![ClientOf[t]] = Updated(t, o)]
          BY <3>1, RecordParts
        <4>2. ClientOf[t] \in Clients
          BY RecordedTyped
        <4>3. Updated(t, o).error_4xx <= Updated(t, o).req_count
          BY <4>2, UpdatedRated
        <4>4. \/ tracker'[c] = tracker[c]
              \/ tracker'[c] = Updated(t, o)
          BY <4>1, <4>2 DEF Shapes
        <4> QED  BY <4>3, <4>4 DEF Rated
      <3>2. CASE Gc
        <4>1. tracker'[c] = tracker[c] \/ tracker'[c] = NoRecord
          BY <3>2 DEF Gc
        <4> QED  BY <4>1 DEF Rated
      <3>3. CASE Tick \/ UNCHANGED vars
                 \/ \E t \in Tasks : Gate(t) \/ ReturnEarly(t) \/ ReadNow(t)
        <4>1. tracker' = tracker
          BY <3>3 DEF Tick, vars, Gate, ReturnEarly, ReadNow
        <4> QED  BY <4>1 DEF Rated
      <3> QED  BY <3>1, <3>2, <3>3 DEF Next
    <2> QED  BY <2>0, <2>1
  <1>3. Spec => []I
    <2> HIDE DEF I
    <2> QED  BY <1>1, <1>2, PTL DEF Spec
  <1> QED  BY <1>3

(* The types: the error rate of a record is a rate, and no request has     *)
(* read a time ahead of the clock.                                         *)
THEOREM TypeOKHolds == Spec => []TypeOK
  <1>1. Shapes /\ (\A c \in Clients : Rated(c)) => TypeOK
    <2> SUFFICES ASSUME Shapes, \A c \in Clients : Rated(c) PROVE TypeOK
      OBVIOUS
    <2>1. now \in [Tasks -> 0..clock]
      BY Constants DEF Shapes
    <2> QED  BY <2>1 DEF Shapes, Rated, TypeOK
  <1> QED  BY <1>1, RatedHolds, PTL

-----------------------------------------------------------------------------
(* A block lasts                                                           *)

(* A step that finds c blocked leaves its record: a request under way has  *)
(* read a time before the end of the block, and the collector keeps it.    *)
LEMMA BlockedStays ==
  ASSUME Shapes, [Next]_vars, NEW c \in Clients, Blocked(c)
  PROVE  tracker'[c] = tracker[c]
  <1>0. /\ tracker[c] # NoRecord /\ tracker[c] \in IpRecord
        /\ clock < tracker[c].blocked_until
    BY DEF Shapes, Blocked
  <1>1. ASSUME NEW t \in Tasks, NEW o \in Outcomes, Record(t, o)
        PROVE  tracker'[c] = tracker[c]
    <2>1. ClientOf[t] \in Clients /\ now[t] \in Nat /\ now[t] <= clock /\ clock \in Nat
      BY RecordedTyped
    <2>2. CASE ClientOf[t] = c
      <3>1. Old(ClientOf[t]) = tracker[c]
        BY <1>0, <2>2 DEF Old
      <3>2. tracker[c].blocked_until \in Nat
        BY <1>0 DEF IpRecord
      <3>3. now[t] < tracker[c].blocked_until
        <4> DEFINE b == tracker[c].blocked_until
                   n == now[t]
        <4>1. n \in Nat /\ n <= clock /\ clock \in Nat /\ clock < b /\ b \in Nat
          BY <1>0, <2>1, <3>2
        <4> HIDE DEF b, n
        <4>2. n < b
          BY <4>1
        <4> QED  BY <4>2 DEF b, n
      <3> QED  BY <1>1, <3>1, <3>3, RecordParts
    <2>3. CASE ClientOf[t] # c
      <3>1. tracker' = tracker \/ tracker' = [tracker EXCEPT ![ClientOf[t]] = Updated(t, o)]
        BY <1>1, RecordParts
      <3> QED  BY <3>1, <2>3 DEF Shapes
    <2> QED  BY <2>2, <2>3
  <1>2. CASE Gc
    BY <1>0, <1>2 DEF Gc, Kept
  <1>3. CASE Tick \/ UNCHANGED vars \/ \E t \in Tasks : Gate(t) \/ ReturnEarly(t) \/ ReadNow(t)
    BY <1>3 DEF Tick, vars, Gate, ReturnEarly, ReadNow
  <1> QED  BY <1>1, <1>2, <1>3 DEF Next

(* A block holds for its whole time, whichever requests were under way     *)
(* when it was set and whenever the collector runs.                        *)
THEOREM BlockLastsHolds == Spec => BlockLasts
  <1>1. ASSUME Shapes, [Next]_vars
        PROVE  [\A c \in Clients :
                  Blocked(c) => /\ tracker'[c] # NoRecord
                                /\ tracker'[c].blocked_until = tracker[c].blocked_until]_vars
    <2>1. ASSUME NEW c \in Clients, Blocked(c)
          PROVE  tracker'[c] # NoRecord /\ tracker'[c].blocked_until = tracker[c].blocked_until
      BY <1>1, <2>1, BlockedStays DEF Blocked
    <2> QED  BY <2>1
  <1> QED  BY <1>1, ShapesHold, PTL DEF Spec, BlockLasts

-----------------------------------------------------------------------------
(* Reports keep their distance                                             *)

(* A client reported is blocked until the distance is over, or it is over: *)
(* the collector cannot drop a record in between.                          *)
Spaced(c) ==
  reported[c] # Never =>
    \/ clock >= reported[c] + BlockSecs
    \/ tracker[c] # NoRecord /\ tracker[c].blocked_until >= reported[c] + BlockSecs

IInv == Shapes /\ \A c \in Clients : Spaced(c)

(* A step that changes the report of c found the distance over and leaves  *)
(* c blocked for it.                                                       *)
LEMMA ReportStep ==
  ASSUME IInv, [Next]_vars, NEW c \in Clients, reported'[c] # reported[c]
  PROVE  /\ reported[c] # Never => clock >= reported[c] + BlockSecs
         /\ Spaced(c)'
  <1>0. PICK t \in Tasks, o \in Outcomes : Record(t, o)
    BY DEF Next, Gate, ReturnEarly, ReadNow, Gc, Tick, vars
  <1>1. Shapes /\ Spaced(c)
    BY DEF IInv
  <1>2. /\ ClientOf[t] \in Clients /\ now[t] \in Nat /\ now[t] <= clock /\ clock \in Nat
        /\ Old(ClientOf[t]) \in IpRecord
    BY <1>1, RecordedTyped
  <1>3. /\ ~(now[t] < Old(ClientOf[t]).blocked_until)
        /\ tracker' = [tracker EXCEPT ![ClientOf[t]] = Updated(t, o)]
        /\ reported' = [reported EXCEPT ![ClientOf[t]] = now[t]]
        /\ Blocks(t, o) /\ clock' = clock
    BY <1>0, RecordParts
  <1>4. ClientOf[t] = c /\ reported'[c] = now[t] /\ tracker'[c] = Updated(t, o)
    BY <1>1, <1>2, <1>3 DEF Shapes
  <1>5. reported[c] # Never => clock >= reported[c] + BlockSecs
    <2> SUFFICES ASSUME reported[c] # Never PROVE clock >= reported[c] + BlockSecs
      OBVIOUS
    <2>1. CASE clock >= reported[c] + BlockSecs
      BY <2>1
    <2>2. CASE tracker[c] # NoRecord /\ tracker[c].blocked_until >= reported[c] + BlockSecs
      <3> DEFINE b == tracker[c].blocked_until
                 n == now[t]
                 q == reported[c]
      <3>1. Old(c) = tracker[c]
        BY <2>2 DEF Old
      <3>2. /\ b \in Nat /\ n \in Nat /\ q \in Nat /\ clock \in Nat /\ BlockSecs \in Nat
            /\ ~(n < b) /\ n <= clock /\ b >= q + BlockSecs
        BY <1>1, <1>2, <1>3, <1>4, <2>2, <3>1, Constants DEF IpRecord, Shapes
      <3> HIDE DEF b, n, q
      <3>3. clock >= q + BlockSecs
        BY <3>2
      <3> QED  BY <3>3 DEF q
    <2> QED  BY <1>1, <2>1, <2>2 DEF Spaced
  <1>6. Spaced(c)'
    <2>1. /\ Updated(t, o) # NoRecord /\ Updated(t, o).blocked_until = Until(t)
          /\ Until(t) \in Nat /\ (Until(t) = now[t] + BlockSecs \/ BlockSecs = 0)
      BY <1>1, <1>3, UpdatedTyped
    <2>2. CASE BlockSecs = 0
      <3>1. clock' >= reported'[c] + BlockSecs
        BY <1>2, <1>3, <1>4, <2>2
      <3> QED  BY <3>1 DEF Spaced
    <2>3. CASE Until(t) = now[t] + BlockSecs
      <3>1. /\ tracker'[c] # NoRecord
            /\ tracker'[c].blocked_until = reported'[c] + BlockSecs
        BY <1>4, <2>1, <2>3
      <3>2. reported'[c] + BlockSecs \in Int
        BY <1>2, <1>4, Constants
      <3>3. tracker'[c].blocked_until >= reported'[c] + BlockSecs
        BY <3>1, <3>2
      <3> QED  BY <3>1, <3>3 DEF Spaced
    <2> QED  BY <2>1, <2>2, <2>3
  <1> QED  BY <1>5, <1>6

(* A step without a report of c: time only grows, and a block stays.       *)
LEMMA NoReportStep ==
  ASSUME IInv, [Next]_vars, NEW c \in Clients, reported'[c] = reported[c]
  PROVE  Spaced(c)'
  <1> SUFFICES ASSUME reported[c] # Never
               PROVE  \/ clock' >= reported[c] + BlockSecs
                      \/ /\ tracker'[c] # NoRecord
                         /\ tracker'[c].blocked_until >= reported[c] + BlockSecs
    BY DEF Spaced
  <1>0. Shapes /\ Spaced(c) /\ BlockSecs \in Nat
    BY Constants DEF IInv
  <1>1. reported[c] \in Nat /\ clock \in Nat /\ clock' \in Nat /\ clock' >= clock
    <2>1. Shapes'
      BY <1>0, NextShapes
    <2>2. clock' = clock \/ clock' = clock + 1
      BY DEF Next, Gate, ReturnEarly, ReadNow, Record, Gc, Tick, vars
    <2>3. clock \in Nat /\ clock' \in Nat
      BY <1>0, <2>1, Constants DEF Shapes
    <2>4. reported[c] \in Nat
      BY <1>0 DEF Shapes
    <2> QED  BY <2>2, <2>3, <2>4
  <1>2. CASE clock >= reported[c] + BlockSecs
    BY <1>0, <1>1, <1>2
  <1>3. CASE /\ tracker[c] # NoRecord /\ tracker[c].blocked_until >= reported[c] + BlockSecs
             /\ ~(clock >= reported[c] + BlockSecs)
    <2>1. tracker[c] \in IpRecord /\ tracker[c].blocked_until \in Nat
      BY <1>0, <1>3 DEF Shapes, IpRecord
    <2>2. clock < tracker[c].blocked_until
      <3> DEFINE b == tracker[c].blocked_until
                 q == reported[c]
      <3>1. b \in Nat /\ q \in Nat /\ clock \in Nat /\ BlockSecs \in Nat
            /\ b >= q + BlockSecs /\ ~(clock >= q + BlockSecs)
        BY <1>0, <1>1, <1>3, <2>1
      <3> HIDE DEF b, q
      <3>2. clock < b
        BY <3>1
      <3> QED  BY <3>2 DEF b
    <2>3. tracker'[c] = tracker[c]
      BY <1>0, <1>3, <2>2, BlockedStays DEF Blocked
    <2> QED  BY <1>3, <2>3
  <1> QED  BY <1>0, <1>2, <1>3 DEF Spaced

(* The distance of reports is inductive.                                   *)
LEMMA IInvHolds == Spec => []IInv
  <1>1. Init => IInv
    BY InitShapes DEF Init, IInv, Spaced
  <1>2. IInv /\ [Next]_vars => IInv'
    <2> SUFFICES ASSUME IInv, [Next]_vars PROVE IInv'
      OBVIOUS
    <2>1. Shapes'
      BY NextShapes DEF IInv
    <2>2. ASSUME NEW c \in Clients PROVE Spaced(c)'
      BY ReportStep, NoReportStep
    <2> QED  BY <2>1, <2>2 DEF IInv
  <1> QED  BY <1>1, <1>2, PTL DEF Spec

(* Reports of a client keep the distance of a block, although the          *)
(* collector drops the record that remembers the last one.                 *)
THEOREM ReportsSpacedHolds == Spec => ReportsSpaced
  <1>1. ASSUME IInv, [Next]_vars
        PROVE  [\A c \in Clients :
                  reported'[c] # reported[c] /\ reported[c] # Never =>
                    clock >= reported[c] + Least(BlockSecs, Day)]_vars
    <2>1. ASSUME NEW c \in Clients, reported'[c] # reported[c], reported[c] # Never
          PROVE  clock >= reported[c] + Least(BlockSecs, Day)
      <3>1. clock >= reported[c] + BlockSecs
        BY <1>1, <2>1, ReportStep
      <3>2. reported[c] \in Nat /\ clock \in Nat
        BY <1>1, <2>1, Constants DEF IInv, Shapes
      <3> QED  BY <3>1, <3>2, Constants DEF Least
    <2> QED  BY <2>1
  <1> QED  BY <1>1, IInvHolds, PTL DEF Spec, ReportsSpaced
=============================================================================
