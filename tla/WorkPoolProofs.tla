---------------------------- MODULE WorkPoolProofs ----------------------------
(* Proofs about WorkPool, for any number of tracks, permits and attempts: the  *)
(* types; attempts and leases; and, when no item outlives its lease, that a    *)
(* track is run once at a time and is dead only when its attempts are spent.   *)
EXTENDS WorkPool, TLAPS

LEMMA RowTypes ==
  /\ NewRow \in Row /\ ResetRow \in Row
  /\ \A r \in Row : DoneRow(r) \in Row
  /\ \A r \in Row : r.attempts < MaxAttempts =>
       [r EXCEPT !.attempts = @ + 1, !.lock = "live"] \in Row
<1>1. NewRow \in Row /\ ResetRow \in Row /\ \A r \in Row : DoneRow(r) \in Row
  BY AttemptAssumption DEF NewRow, ResetRow, DoneRow, Row
<1>2. ASSUME NEW r \in Row, r.attempts < MaxAttempts
      PROVE  [r EXCEPT !.attempts = @ + 1, !.lock = "live"] \in Row
  <2>1. r.attempts + 1 \in 0..MaxAttempts
    BY <1>2, AttemptAssumption DEF Row
  <2> QED
    BY <2>1 DEF Row
<1> QED
  BY <1>1, <1>2

\* An item that loses its lease is otherwise the same item.
LEMMA DisownedItem ==
  ASSUME NEW i \in Item, NEW T
  PROVE  /\ Disowned(i, T) \in Item
         /\ Disowned(i, T).track = i.track
         /\ i.track \notin T => Disowned(i, T) = i
BY DEF Disowned, Item

LEMMA DisownedTypes ==
  ASSUME WorkTypeOK, NEW T
  PROVE  /\ DisownedBuffer(T) \subseteq Item
         /\ DisownedSlots(T) \in [Slots -> Item \cup {NoItem}]
BY DisownedItem DEF WorkTypeOK, DisownedBuffer, DisownedSlots

LEMMA ClaimTypes ==
  ASSUME WorkTypeOK, NEW t \in Tracks, rows[t].attempts < MaxAttempts
  PROVE  ItemFor(t) \in Item
BY AttemptAssumption DEF WorkTypeOK, ItemFor, Item, Row

LEMMA TakenTypes ==
  ASSUME WorkTypeOK, NEW T, \A t \in Tracks : t \in T => rows[t].attempts < MaxAttempts
  PROVE  Taken(T) \in [Tracks -> Row]
BY RowTypes DEF WorkTypeOK, Taken

-----------------------------------------------------------------------------
(* Types.                                                                      *)

LEMMA LoopTypes == ASSUME WorkTypeOK, Loop PROVE WorkTypeOK'
<1>1. ASSUME NEW T \in SUBSET Tracks, Refill(T) PROVE WorkTypeOK'
  <2>1. \A t \in T : rows[t].attempts < MaxAttempts
    BY <1>1 DEF Refill, Claimable, Waiting
  <2>2. rows' \in [Tracks -> Row]
    BY <1>1, <2>1, TakenTypes DEF Refill
  <2>3. buffer' \subseteq Item
    BY <1>1, <2>1, ClaimTypes DEF Refill
  <2>4. slots' \in [Slots -> Item \cup {NoItem}]
    BY <1>1, DisownedTypes DEF Refill
  <2> QED
    BY <1>1, <2>2, <2>3, <2>4 DEF Refill, WorkTypeOK
<1>2. ASSUME NEW i \in buffer, NEW s \in Slots, Dispatch(i, s) PROVE WorkTypeOK'
  BY <1>2 DEF Dispatch, WorkTypeOK
<1>3. CASE Tick
  BY <1>3 DEF Tick, WorkTypeOK
<1>4. ASSUME NEW t \in Tracks, ReceiveKick(t) PROVE WorkTypeOK'
  <2>1. kicks' \subseteq Tracks /\ idle' \in BOOLEAN
    BY <1>4 DEF ReceiveKick, WorkTypeOK
  <2>2. CASE UNCHANGED <<rows, buffer, slots>>
    BY <2>1, <2>2 DEF WorkTypeOK
  <2>3. CASE /\ Kickable(t) /\ rows' = Taken({t})
             /\ buffer' = {ItemFor(t)} /\ slots' = DisownedSlots({t})
    <3>1. rows[t].attempts < MaxAttempts
      BY <2>3 DEF Kickable
    <3>2. rows' \in [Tracks -> Row]
      BY <2>3, <3>1, TakenTypes
    <3>3. buffer' \subseteq Item /\ slots' \in [Slots -> Item \cup {NoItem}]
      BY <2>3, <3>1, ClaimTypes, DisownedTypes
    <3> QED
      BY <2>1, <3>2, <3>3 DEF WorkTypeOK
  <2> QED
    BY <1>4, <2>2, <2>3 DEF ReceiveKick
<1> QED
  BY <1>1, <1>2, <1>3, <1>4 DEF Loop

LEMMA RunTypes ==
  ASSUME WorkTypeOK, NEW s \in Slots, RunFails(s) \/ Leaves(s)
  PROVE  WorkTypeOK'
<1>1. CASE RunFails(s)
  BY <1>1 DEF RunFails, Runs, WorkTypeOK, Item
<1>2. ASSUME NEW R \in SUBSET Tracks, Enriched(s, R) PROVE WorkTypeOK'
  <2>1. \A u \in Tracks : [rows[u] EXCEPT !.state = "pending"] \in Row
    BY DEF WorkTypeOK, Row
  <2>3. rows' \in [Tracks -> Row]
    BY <1>2, <2>1, RowTypes DEF Enriched, WorkTypeOK
  <2>2. buffer' \subseteq Item /\ slots' \in [Slots -> Item \cup {NoItem}]
    BY <1>2, DisownedTypes DEF Enriched
  <2> QED
    BY <1>2, <2>2, <2>3 DEF Enriched, WorkTypeOK
<1>3. CASE WriteFailure(s)
  <2> DEFINE t == slots[s].track
             ended(st) == [rows[t] EXCEPT !.state = st, !.lock = "none"]
  <2>3. t \in Tracks
    BY <1>3 DEF WriteFailure, WorkTypeOK, Item
  <2>4. \A r \in Row, st \in {"dead", "failed"} : [r EXCEPT !.state = st, !.lock = "none"] \in Row
    BY DEF Row
  <2>6. ended("dead") \in Row /\ ended("failed") \in Row
    BY <2>3, <2>4 DEF WorkTypeOK
  <2>5. rows' = [rows EXCEPT ![t] = ended(IF Spent(slots[s]) THEN "dead" ELSE "failed")]
    BY <1>3, <2>3 DEF WriteFailure, WorkTypeOK
  <2>1. rows' \in [Tracks -> Row]
    <3> HIDE DEF t, ended
    <3>1. ended(IF Spent(slots[s]) THEN "dead" ELSE "failed") \in Row
      BY <2>6
    <3> QED
      BY <2>3, <2>5, <3>1 DEF WorkTypeOK
  <2>2. buffer' \subseteq Item /\ slots' \in [Slots -> Item \cup {NoItem}]
    BY <1>3, DisownedTypes DEF WriteFailure
  <2> QED
    BY <1>3, <2>1, <2>2 DEF WriteFailure, WorkTypeOK
<1>4. CASE GivenUp(s)
  BY <1>4 DEF GivenUp, WorkTypeOK
<1> QED
  BY <1>1, <1>2, <1>3, <1>4 DEF Leaves

LEMMA WorkTypeNext == ASSUME WorkTypeOK, Next PROVE WorkTypeOK'
<1>1. ASSUME NEW t \in Tracks, Ingest(t) \/ LeaseExpires(t) PROVE WorkTypeOK'
  BY <1>1 DEF Ingest, LeaseExpires, WorkTypeOK, Row
<1>2. CASE Crash
  BY <1>2 DEF Crash, WorkTypeOK
<1>3. ASSUME NEW T \in SUBSET Tracks, Retry(T) PROVE WorkTypeOK'
  BY <1>3, RowTypes, DisownedTypes DEF Retry, WorkTypeOK
<1> QED
  BY <1>1, <1>2, <1>3, LoopTypes, RunTypes DEF Next

\* The table, the buffer, the permits and the channel keep their shapes; in
\* particular no claim takes a track past the cap.
THEOREM WorkTypeCorrect == Spec => []WorkTypeOK
<1>1. Init => WorkTypeOK
  BY RowTypes DEF Init, WorkTypeOK
<1>2. WorkTypeOK /\ [Next]_vars => WorkTypeOK'
  BY WorkTypeNext DEF vars, WorkTypeOK
<1> QED
  BY <1>1, <1>2, PTL DEF Spec

-----------------------------------------------------------------------------
(* Whatever resets the attempts clears the lease with them.                    *)

\* What a step may do to the row of a track.
RowMoves(t) ==
  \/ rows'[t] = rows[t]
  \/ rows'[t].attempts = rows[t].attempts + 1 /\ rows'[t].state = rows[t].state
  \/ rows'[t].lock = "none"
  \/ /\ rows'[t].attempts = rows[t].attempts
     /\ rows[t].lock = "none" => rows'[t].lock = "none"

LEMMA Moves == ASSUME WorkTypeOK, Next, NEW t \in Tracks PROVE RowMoves(t)
<1> USE DEF WorkTypeOK
<1>1. CASE UNCHANGED rows
  BY <1>1 DEF RowMoves
<1>2. ASSUME NEW T \in SUBSET Tracks, rows' = Taken(T) PROVE RowMoves(t)
  BY <1>2 DEF Taken, RowMoves, Row
<1>3. CASE Loop
  BY <1>1, <1>2, <1>3 DEF Loop, Refill, Dispatch, Tick, ReceiveKick
<1>4. ASSUME NEW u \in Tracks, Ingest(u) \/ LeaseExpires(u) PROVE RowMoves(t)
  BY <1>4 DEF Ingest, LeaseExpires, RowMoves, Row
<1>5. ASSUME NEW s \in Slots, NEW R \in SUBSET Tracks, Enriched(s, R) PROVE RowMoves(t)
  <2>1. CASE t = slots[s].track
    BY <1>5, <2>1 DEF Enriched, RowMoves, DoneRow
  <2>2. CASE t # slots[s].track /\ t \in R
    <3>1. rows'[t] = [rows[t] EXCEPT !.state = "pending"] /\ rows[t].lock = "none"
      BY <1>5, <2>2 DEF Enriched
    <3> QED
      BY <3>1 DEF RowMoves, Row
  <2>3. CASE t # slots[s].track /\ t \notin R
    BY <1>5, <2>3 DEF Enriched, RowMoves
  <2> QED
    BY <2>1, <2>2, <2>3
<1>6. ASSUME NEW s \in Slots, WriteFailure(s) PROVE RowMoves(t)
  <2>1. slots[s].track \in Tracks
    BY <1>6 DEF WriteFailure, Item
  <2> QED
    BY <1>6, <2>1 DEF WriteFailure, RowMoves, Row
<1>7. ASSUME NEW T \in SUBSET Tracks, Retry(T) PROVE RowMoves(t)
  BY <1>7 DEF Retry, RowMoves, ResetRow
<1>8. ASSUME NEW s \in Slots, RunFails(s) \/ GivenUp(s) PROVE RowMoves(t)
  BY <1>1, <1>8 DEF RunFails, GivenUp
<1> QED
  BY <1>1, <1>3, <1>4, <1>5, <1>6, <1>7, <1>8 DEF Next, Leaves, Crash

\* A leased row has been counted: the claim's counter and its lease are set by one
\* statement, and no statement resets the one without the other.
THEOREM LeaseCounted == Spec => []LockedIsCounted
<1>1. Init => LockedIsCounted
  BY DEF Init, NewRow, LockedIsCounted
<1>2. WorkTypeOK /\ LockedIsCounted /\ [Next]_vars => LockedIsCounted'
  <2> SUFFICES ASSUME WorkTypeOK, LockedIsCounted, [Next]_vars PROVE LockedIsCounted'
    OBVIOUS
  <2>1. ASSUME NEW t \in Tracks, Next, rows'[t].lock # "none" PROVE rows'[t].attempts >= 1
    <3>1. rows[t].attempts \in Nat
      BY AttemptAssumption DEF WorkTypeOK, Row
    <3> QED
      BY <2>1, <3>1, Moves DEF RowMoves, LockedIsCounted
  <2>2. CASE UNCHANGED vars
    BY <2>2 DEF vars, LockedIsCounted
  <2> QED
    BY <2>1, <2>2 DEF LockedIsCounted
<1> QED
  BY <1>1, <1>2, WorkTypeCorrect, PTL DEF Spec

-----------------------------------------------------------------------------
(* No item outlives its lease, and no admin takes one out of hand.             *)

Calm == "late" \notin Faults /\ "clobber" \notin Faults

\* Each item in hand has its lease, and the count its claim returned.
HandsHold ==
  \A i \in InHand :
    /\ i.holds
    /\ rows[i.track].lock = "live"
    /\ rows[i.track].attempts = i.attempts
    /\ rows[i.track].state \notin {"dead", "absent"}

HInv == OneRunPerTrack /\ HandsHold /\ DeadIsSpent

\* Nobody loses a lease when the tracks are not in hand.
LEMMA NobodyDisowned ==
  ASSUME WorkTypeOK, NEW T, \A i \in InHand : i.track \notin T
  PROVE  DisownedBuffer(T) = buffer /\ DisownedSlots(T) = slots
<1>1. \A i \in buffer : Disowned(i, T) = i
  BY DisownedItem DEF WorkTypeOK, InHand
<1>2. \A s \in Slots : slots[s] # NoItem => Disowned(slots[s], T) = slots[s]
  BY DisownedItem DEF WorkTypeOK, InHand, Running
<1> QED
  BY <1>1, <1>2 DEF DisownedBuffer, DisownedSlots, WorkTypeOK

\* A step that takes no item into hand and leaves the rows of those that stay.
LEMMA HandsShrink ==
  ASSUME WorkTypeOK, HInv,
         slots' \in [Slots -> Item \cup {NoItem}], buffer' \subseteq buffer,
         \A s \in Slots : slots'[s] # NoItem =>
           /\ slots[s] # NoItem
           /\ slots'[s].track = slots[s].track /\ slots'[s].holds = slots[s].holds
           /\ slots'[s].attempts = slots[s].attempts,
         \A i \in InHand' : rows'[i.track] = rows[i.track],
         \A t \in Tracks : rows'[t].state = "dead" => rows'[t].attempts = MaxAttempts
  PROVE  HInv'
<1>1. \A i \in InHand' : \E j \in InHand :
        i.track = j.track /\ i.holds = j.holds /\ i.attempts = j.attempts
  BY DEF InHand, Running
<1>2. HandsHold'
  BY <1>1 DEF HInv, HandsHold
<1>3. OneRunPerTrack'
  BY DEF HInv, OneRunPerTrack, Running
<1> QED
  BY <1>2, <1>3 DEF HInv, DeadIsSpent

\* A claim takes only tracks that are not in hand.
LEMMA TakesFree ==
  ASSUME WorkTypeOK, HInv, NEW T \in SUBSET Tracks, buffer = {},
         \A t \in T : /\ Free(t) /\ rows[t].attempts < MaxAttempts
                      /\ rows[t].state \notin {"dead", "absent"},
         rows' = Taken(T), buffer' = {ItemFor(t) : t \in T}, slots' = DisownedSlots(T)
  PROVE  HInv'
<1>1. \A i \in InHand : i.track \notin T
  BY DEF HInv, HandsHold, Free
<1>2. slots' = slots
  BY <1>1, NobodyDisowned
<1>3. Running' = Running
  BY <1>2 DEF Running
<1>4. \A i \in buffer' : /\ i.track \in T /\ i.holds
                         /\ i.attempts = rows[i.track].attempts + 1
  BY DEF ItemFor
<1>5. \A t \in T : rows'[t].lock = "live" /\ rows'[t].attempts = rows[t].attempts + 1
                   /\ rows'[t].state = rows[t].state
  BY DEF Taken, WorkTypeOK, Row
<1>6. \A t \in Tracks : t \notin T => rows'[t] = rows[t]
  BY DEF Taken
<1>7. \A s \in Running : slots[s].track \in Tracks \ T
  BY <1>1 DEF InHand, Running, WorkTypeOK, Item
<1>8. HandsHold'
  <2>1. \A i \in buffer' : /\ i.holds /\ rows'[i.track].lock = "live"
                           /\ rows'[i.track].attempts = i.attempts
                           /\ rows'[i.track].state \notin {"dead", "absent"}
    BY <1>4, <1>5
  <2>2. \A s \in Running : LET i == slots[s] IN
          /\ i.holds /\ rows'[i.track].lock = "live"
          /\ rows'[i.track].attempts = i.attempts /\ rows'[i.track].state \notin {"dead", "absent"}
    BY <1>6, <1>7 DEF HInv, HandsHold, InHand
  <2> QED
    BY <1>2, <1>3, <2>1, <2>2 DEF HandsHold, InHand
<1>9. OneRunPerTrack'
  <2>1. \A i \in buffer' : \A s \in Running : i.track # slots[s].track
    BY <1>4, <1>7
  <2>2. \A i, j \in buffer' : i.track = j.track => i = j
    <3>1. \A i \in buffer' : i = ItemFor(i.track)
      BY DEF ItemFor
    <3> QED
      BY <3>1
  <2> QED
    BY <1>2, <1>3, <2>1, <2>2 DEF HInv, OneRunPerTrack
<1>10. DeadIsSpent'
  BY <1>5, <1>6 DEF HInv, DeadIsSpent
<1> QED
  BY <1>8, <1>9, <1>10 DEF HInv

\* The loop waits only when it has nothing to hand out.
IdleIsEmpty == idle => buffer = {}

LEMMA IdleEmptyNext == ASSUME WorkTypeOK, IdleIsEmpty, Next PROVE IdleIsEmpty'
<1>1. ASSUME NEW T \in SUBSET Tracks, Refill(T) PROVE IdleIsEmpty'
  BY <1>1 DEF Refill, IdleIsEmpty, WorkTypeOK
<1>2. CASE Loop
  BY <1>1, <1>2 DEF Loop, Dispatch, Tick, ReceiveKick, IdleIsEmpty
<1>3. ASSUME NEW T, buffer' = buffer \/ buffer' = DisownedBuffer(T), idle' = idle
      PROVE  IdleIsEmpty'
  BY <1>3 DEF IdleIsEmpty, DisownedBuffer
<1>4. ASSUME NEW s \in Slots, RunFails(s) \/ Leaves(s) PROVE IdleIsEmpty'
  BY <1>3, <1>4 DEF RunFails, Leaves, Enriched, WriteFailure, GivenUp
<1>5. ASSUME NEW t \in Tracks, Ingest(t) \/ LeaseExpires(t) PROVE IdleIsEmpty'
  BY <1>3, <1>5 DEF Ingest, LeaseExpires
<1>6. ASSUME NEW T \in SUBSET Tracks, Retry(T) PROVE IdleIsEmpty'
  BY <1>3, <1>6 DEF Retry
<1>7. CASE Crash
  BY <1>7 DEF Crash, IdleIsEmpty
<1> QED
  BY <1>2, <1>4, <1>5, <1>6, <1>7 DEF Next

LEMMA LoopHolds == ASSUME WorkTypeOK, HInv, IdleIsEmpty, Loop PROVE HInv'
<1>1. ASSUME NEW T \in SUBSET Tracks, Refill(T) PROVE HInv'
  BY <1>1, TakesFree DEF Refill, Claimable, Waiting
<1>2. ASSUME NEW i \in buffer, NEW s \in Slots, Dispatch(i, s) PROVE HInv'
  <2>1. /\ slots[s] = NoItem /\ buffer' = buffer \ {i} /\ rows' = rows
        /\ slots' = [slots EXCEPT ![s] = i] /\ i # NoItem
    BY <1>2, ItemAssumption DEF Dispatch, WorkTypeOK
  <2>2. Running' = Running \cup {s} /\ s \notin Running
    BY <2>1 DEF Running, WorkTypeOK
  <2>3. slots'[s] = i /\ \A z \in Running : slots'[z] = slots[z]
    BY <2>1, <2>2 DEF WorkTypeOK
  <2>4. InHand' = InHand
    BY <2>1, <2>2, <2>3 DEF InHand
  <2>5. HandsHold'
    BY <2>1, <2>4 DEF HInv, HandsHold
  <2>6. OneRunPerTrack'
    BY <2>1, <2>2, <2>3 DEF HInv, OneRunPerTrack
  <2> QED
    BY <2>1, <2>5, <2>6 DEF HInv, DeadIsSpent
<1>3. CASE Tick
  BY <1>3 DEF Tick, HInv, OneRunPerTrack, HandsHold, DeadIsSpent, InHand, Running
<1>4. ASSUME NEW t \in Tracks, ReceiveKick(t) PROVE HInv'
  <2>1. CASE UNCHANGED <<rows, buffer, slots>>
    BY <2>1 DEF HInv, OneRunPerTrack, HandsHold, DeadIsSpent, InHand, Running
  <2>2. CASE Kickable(t) /\ rows' = Taken({t}) /\ buffer' = {ItemFor(t)}
             /\ slots' = DisownedSlots({t})
    <3>1. buffer' = {ItemFor(u) : u \in {t}}
      BY <2>2
    <3>2. buffer = {}
      BY <1>4 DEF ReceiveKick, IdleIsEmpty
    <3> QED
      BY <2>2, <3>1, <3>2, TakesFree DEF Kickable
  <2> QED
    BY <1>4, <2>1, <2>2 DEF ReceiveKick
<1> QED
  BY <1>1, <1>2, <1>3, <1>4 DEF Loop

\* The item of a permit is the only one of its track: the others keep their lease.
LEMMA OnlyItem ==
  ASSUME WorkTypeOK, HInv, NEW s \in Running
  PROVE  /\ DisownedBuffer({slots[s].track}) = buffer
         /\ \A z \in Slots : z # s => DisownedSlots({slots[s].track})[z] = slots[z]
<1> DEFINE t == slots[s].track
<1>1. \A i \in buffer : i.track # t /\ Disowned(i, {t}) = i
  BY DisownedItem DEF HInv, OneRunPerTrack, WorkTypeOK
<1>2. \A z \in Running : z # s => slots[z].track # t /\ Disowned(slots[z], {t}) = slots[z]
  BY DisownedItem DEF HInv, OneRunPerTrack, WorkTypeOK, Running
<1> HIDE DEF t
<1>3. DisownedBuffer({t}) = buffer
  BY <1>1 DEF DisownedBuffer
<1>4. \A z \in Slots : z # s => DisownedSlots({t})[z] = slots[z]
  BY <1>2 DEF DisownedSlots, Running
<1> QED
  BY <1>3, <1>4 DEF t

\* A run ends: its track's row changes, and no other that is in hand.
LEMMA RunEnds ==
  ASSUME WorkTypeOK, HInv, NEW s \in Running,
         buffer' = DisownedBuffer({slots[s].track}),
         slots' = [DisownedSlots({slots[s].track}) EXCEPT ![s] = NoItem],
         \A u \in Tracks : u # slots[s].track /\ rows[u].lock # "none" => rows'[u] = rows[u],
         \A u \in Tracks : rows'[u].state = "dead" => rows'[u].attempts = MaxAttempts
  PROVE  HInv'
<1>1. buffer' = buffer /\ s \in Slots
  BY OnlyItem DEF Running
<1>2. slots' = [slots EXCEPT ![s] = NoItem]
  BY <1>1, OnlyItem DEF WorkTypeOK, DisownedSlots
<1>3. \A i \in InHand' : i \in InHand /\ i.track # slots[s].track
  <2>1. \A z \in Running' : z \in Running /\ z # s /\ slots'[z] = slots[z]
    BY <1>1, <1>2 DEF Running, WorkTypeOK
  <2>2. \A z \in Running' : slots'[z] \in InHand /\ slots'[z].track # slots[s].track
    <3>1. \A z \in Running : slots[z] \in InHand
      BY DEF InHand
    <3>2. \A z \in Running : z # s => slots[z].track # slots[s].track
      BY DEF HInv, OneRunPerTrack
    <3> QED
      BY <2>1, <3>1, <3>2
  <2>3. \A i \in buffer' : i \in InHand /\ i.track # slots[s].track
    BY <1>1 DEF InHand, HInv, OneRunPerTrack
  <2> QED
    BY <2>2, <2>3 DEF InHand
<1>4. InHand \subseteq Item
  BY DEF InHand, Running, WorkTypeOK
<1>5. \A i \in InHand' : rows'[i.track] = rows[i.track]
  BY <1>3, <1>4 DEF HInv, HandsHold, Item
<1> QED
  BY <1>1, <1>2, <1>5, HandsShrink DEF WorkTypeOK

LEMMA RunHolds ==
  ASSUME WorkTypeOK, HInv, NEW s \in Slots, RunFails(s) \/ Leaves(s)
  PROVE  HInv'
<1>1. CASE RunFails(s)
  <2>1. /\ slots' = [slots EXCEPT ![s] = [slots[s] EXCEPT !.ended = TRUE]]
        /\ slots[s] \in Item /\ UNCHANGED <<rows, buffer>>
    BY <1>1 DEF RunFails, Runs, WorkTypeOK
  <2>2. slots' \in [Slots -> Item \cup {NoItem}]
    BY <2>1 DEF WorkTypeOK, Item
  <2>3. \A z \in Slots : slots'[z] # NoItem =>
          /\ slots[z] # NoItem
          /\ slots'[z].track = slots[z].track /\ slots'[z].holds = slots[z].holds
          /\ slots'[z].attempts = slots[z].attempts
    BY <1>1, <2>1 DEF RunFails, Runs, WorkTypeOK, Item
  <2> QED
    BY <2>1, <2>2, <2>3, HandsShrink DEF HInv, DeadIsSpent
<1>2. ASSUME NEW R \in SUBSET Tracks, Enriched(s, R) PROVE HInv'
  <2>1. s \in Running /\ slots[s].track \in Tracks
    BY <1>2 DEF Enriched, Runs, Running, WorkTypeOK, Item
  <2>2. \A u \in Tracks : u # slots[s].track /\ rows[u].lock # "none" => rows'[u] = rows[u]
    BY <1>2 DEF Enriched
  <2>3. \A u \in Tracks : rows'[u].state = "dead" => rows'[u].attempts = MaxAttempts
    <3>1. \A u \in R : [rows[u] EXCEPT !.state = "pending"].state = "pending"
      BY DEF WorkTypeOK, Row
    <3> QED
      BY <1>2, <3>1 DEF Enriched, HInv, DeadIsSpent, DoneRow
  <2> QED
    BY <1>2, <2>1, <2>2, <2>3, RunEnds DEF Enriched
<1>3. CASE WriteFailure(s)
  <2>1. s \in Running /\ slots[s] \in Item /\ slots[s] \in InHand
    BY <1>3 DEF WriteFailure, Running, WorkTypeOK, InHand
  <2>2. \A u \in Tracks : u # slots[s].track => rows'[u] = rows[u]
    BY <1>3 DEF WriteFailure, WorkTypeOK
  <2>3. rows'[slots[s].track].state = "dead" => rows'[slots[s].track].attempts = MaxAttempts
    <3>1. rows[slots[s].track].attempts = slots[s].attempts /\ slots[s].track \in Tracks
      BY <2>1 DEF HInv, HandsHold, Item
    <3>2. rows'[slots[s].track].attempts = slots[s].attempts
      BY <1>3, <3>1 DEF WriteFailure, WorkTypeOK, Row
    <3>3. rows'[slots[s].track].state = IF Spent(slots[s]) THEN "dead" ELSE "failed"
      BY <1>3, <3>1 DEF WriteFailure, WorkTypeOK, Row
    <3> QED
      BY <2>1, <3>2, <3>3, AttemptAssumption DEF Spent, Item
  <2>4. \A u \in Tracks : rows'[u].state = "dead" => rows'[u].attempts = MaxAttempts
    BY <2>2, <2>3 DEF HInv, DeadIsSpent
  <2> QED
    BY <1>3, <2>1, <2>2, <2>4, RunEnds DEF WriteFailure
<1>4. CASE GivenUp(s)
  <2>1. slots' = [slots EXCEPT ![s] = NoItem] /\ UNCHANGED <<rows, buffer>>
    BY <1>4 DEF GivenUp
  <2> QED
    BY <2>1, HandsShrink DEF WorkTypeOK, HInv, DeadIsSpent
<1> QED
  BY <1>1, <1>2, <1>3, <1>4 DEF Leaves

\* The hands stay as they are, and the rows of the tracks in them.
LEMMA HandsStay ==
  ASSUME WorkTypeOK, HInv, UNCHANGED <<buffer, slots>>, NEW T,
         \A i \in InHand : i.track \notin T,
         \A u \in Tracks : u \notin T => rows'[u] = rows[u],
         \A u \in Tracks : u \in T /\ rows'[u].state = "dead" =>
           rows[u].state = "dead" /\ rows'[u].attempts = rows[u].attempts
  PROVE  HInv'
<1>1. InHand' = InHand /\ InHand \subseteq Item
  BY DEF InHand, Running, WorkTypeOK
<1>2. \A i \in InHand' : rows'[i.track] = rows[i.track]
  BY <1>1 DEF Item
<1>3. \A t \in Tracks : rows'[t].state = "dead" => rows'[t].attempts = MaxAttempts
  BY DEF HInv, DeadIsSpent
<1> QED
  BY <1>2, <1>3, HandsShrink DEF WorkTypeOK

LEMMA HandsNext ==
  ASSUME Calm, WorkTypeOK, HInv, IdleIsEmpty, Next
  PROVE  HInv'
<1>1. ASSUME NEW t \in Tracks, Ingest(t) PROVE HInv'
  <2>1. \A i \in InHand : i.track \notin {t}
    BY <1>1 DEF Ingest, HInv, HandsHold
  <2>2. /\ UNCHANGED <<buffer, slots>>
        /\ \A u \in Tracks : u \notin {t} => rows'[u] = rows[u]
    BY <1>1 DEF Ingest, WorkTypeOK
  <2>3. rows'[t].state = "pending"
    BY <1>1 DEF Ingest, WorkTypeOK, Row
  <2> QED
    BY <2>1, <2>2, <2>3, HandsStay
<1>2. ASSUME NEW t \in Tracks, LeaseExpires(t) PROVE HInv'
  <2>1. \A i \in InHand : i.track \notin {t}
    BY <1>2 DEF LeaseExpires, Calm, HInv, HandsHold
  <2>2. /\ UNCHANGED <<buffer, slots>>
        /\ \A u \in Tracks : u \notin {t} => rows'[u] = rows[u]
    BY <1>2 DEF LeaseExpires, WorkTypeOK
  <2>3. rows'[t].state = rows[t].state /\ rows'[t].attempts = rows[t].attempts
    BY <1>2 DEF LeaseExpires, WorkTypeOK, Row
  <2> QED
    BY <2>1, <2>2, <2>3, HandsStay
<1>3. CASE Crash
  <2>1. buffer' = {} /\ slots' = [s \in Slots |-> NoItem] /\ rows' = rows
    BY <1>3 DEF Crash
  <2>2. InHand' = {}
    BY <2>1 DEF InHand, Running
  <2> QED
    BY <2>1, <2>2, HandsShrink DEF HInv, DeadIsSpent
<1>4. ASSUME NEW T \in SUBSET Tracks, Retry(T) PROVE HInv'
  <2>1. \A i \in InHand : i.track \notin T
    BY <1>4 DEF Retry, Calm
  <2>2. UNCHANGED <<buffer, slots>>
    BY <1>4, <2>1, NobodyDisowned DEF Retry
  <2>3. \A u \in Tracks : u \notin T => rows'[u] = rows[u]
    BY <1>4 DEF Retry
  <2>4. \A u \in T : rows'[u].state # "dead"
    BY <1>4 DEF Retry, ResetRow
  <2> QED
    BY <2>1, <2>2, <2>3, <2>4, HandsStay
<1> QED
  BY <1>1, <1>2, <1>3, <1>4, LoopHolds, RunHolds DEF Next

LEMMA HandsHeld == Calm => (Spec => [](WorkTypeOK /\ HInv /\ IdleIsEmpty))
<1>1. Init => HInv /\ IdleIsEmpty
  BY DEF Init, NewRow, HInv, OneRunPerTrack, HandsHold, DeadIsSpent, IdleIsEmpty,
         InHand, Running
<1>2. Calm /\ WorkTypeOK /\ HInv /\ IdleIsEmpty /\ [Next]_vars => HInv' /\ IdleIsEmpty'
  <2>1. CASE UNCHANGED vars
    BY <2>1 DEF vars, HInv, OneRunPerTrack, HandsHold, DeadIsSpent, IdleIsEmpty,
                InHand, Running
  <2> QED
    BY <2>1, HandsNext, IdleEmptyNext
<1> QED
  <2> SUFFICES ASSUME Calm PROVE Spec => [](WorkTypeOK /\ HInv /\ IdleIsEmpty)
    OBVIOUS
  <2>1. WorkTypeOK /\ HInv /\ IdleIsEmpty /\ [Next]_vars => HInv' /\ IdleIsEmpty'
    BY <1>2
  <2> QED
    BY <1>1, <2>1, WorkTypeCorrect, PTL DEF Spec

\* When no item outlives its lease and no admin takes one out of hand, a track has
\* one item in hand: two batches, or a batch and a kick, never run it together.
THEOREM OneRun == Calm => (Spec => []OneRunPerTrack)
<1> SUFFICES ASSUME Calm PROVE Spec => []OneRunPerTrack
  OBVIOUS
<1>1. Spec => [](WorkTypeOK /\ HInv /\ IdleIsEmpty)
  BY HandsHeld
<1>2. (WorkTypeOK /\ HInv /\ IdleIsEmpty) => OneRunPerTrack
  BY DEF HInv
<1> QED
  BY <1>1, <1>2, PTL

\* Under the same assumption a track is dead only when its attempts are spent: the
\* count on_failure decides by is still the row's.
THEOREM DeadSpent == Calm => (Spec => []DeadIsSpent)
<1> SUFFICES ASSUME Calm PROVE Spec => []DeadIsSpent
  OBVIOUS
<1>1. Spec => [](WorkTypeOK /\ HInv /\ IdleIsEmpty)
  BY HandsHeld
<1>2. (WorkTypeOK /\ HInv /\ IdleIsEmpty) => DeadIsSpent
  BY DEF HInv
<1> QED
  BY <1>1, <1>2, PTL

\* Only a terminal write of a failure takes a live lease off a row that failed.
LEMMA ReleasesLease ==
  ASSUME WorkTypeOK, Next, NEW t \in Tracks, rows[t].lock = "live",
         rows'[t].lock = "none", rows'[t].state \in {"failed", "dead"}
  PROVE  \E s \in Slots : WriteFailure(s) /\ slots[s].track = t
<1> USE DEF WorkTypeOK
<1>1. rows'[t] # rows[t]
  OBVIOUS
<1>2. ASSUME NEW T \in SUBSET Tracks, rows' = Taken(T) PROVE FALSE
  BY <1>2 DEF Taken, Row
<1>3. ~Loop
  BY <1>1, <1>2 DEF Loop, Refill, Dispatch, Tick, ReceiveKick
<1>4. ASSUME NEW u \in Tracks, Ingest(u) \/ LeaseExpires(u) PROVE FALSE
  BY <1>4 DEF Ingest, LeaseExpires, Row
<1>5. ASSUME NEW s \in Slots, NEW R \in SUBSET Tracks, Enriched(s, R) PROVE FALSE
  BY <1>5 DEF Enriched, DoneRow
<1>6. ASSUME NEW s \in Slots, WriteFailure(s) PROVE slots[s].track = t
  BY <1>1, <1>6 DEF WriteFailure
<1>7. ASSUME NEW T \in SUBSET Tracks, Retry(T) PROVE FALSE
  BY <1>1, <1>7 DEF Retry, ResetRow
<1>8. ASSUME NEW s \in Slots, RunFails(s) \/ GivenUp(s) PROVE FALSE
  BY <1>1, <1>8 DEF RunFails, GivenUp
<1> QED
  BY <1>1, <1>3, <1>4, <1>5, <1>6, <1>7, <1>8 DEF Next, Leaves, Crash

\* Under the same assumption mark_failed and mark_dead end no other run's lease: the
\* work_pool_late run shows that it fails without it.
THEOREM LeaseSafe == Calm => (Spec => FailureKeepsLease)
<1> SUFFICES ASSUME Calm PROVE Spec => FailureKeepsLease
  OBVIOUS
<1>1. Spec => [](WorkTypeOK /\ HInv /\ IdleIsEmpty)
  BY HandsHeld
<1>2. ASSUME WorkTypeOK, HInv, [Next]_vars PROVE LeaseStep
  <2>1. SUFFICES ASSUME NEW t \in Tracks, Next, rows[t].lock = "live",
                        rows'[t].lock = "none", rows'[t].state \in {"failed", "dead"}
                 PROVE  \E s \in Running : slots[s].track = t /\ slots[s].holds
                                           /\ slots'[s] = NoItem
    BY <1>2 DEF LeaseStep, vars, WorkTypeOK
  <2>2. PICK s \in Slots : WriteFailure(s) /\ slots[s].track = t
    BY <1>2, <2>1, ReleasesLease
  <2> QED
    BY <1>2, <2>2 DEF WriteFailure, Running, InHand, HInv, HandsHold, WorkTypeOK, DisownedSlots
<1> QED
  BY <1>1, <1>2, PTL DEF Spec, FailureKeepsLease
=============================================================================
