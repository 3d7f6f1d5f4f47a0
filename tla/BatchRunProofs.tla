--------------------------- MODULE BatchRunProofs ---------------------------
(***************************************************************************)
(* BatchRun for every number of texts, chunk size and thread count: the    *)
(* invariants of the TLC run, and the refinement of BatchMap's safety      *)
(* part.  All of it rests on one inductive invariant, IInv.                *)
(***************************************************************************)
EXTENDS BatchRun, TLAPS

\* The caller's phase says which workers can be at work.
PhaseInv ==
    /\ phase = "serial" => n = 1 /\ Size > 0
    /\ phase \in {"spawn", "work", "join"} => n > 1
    /\ phase = "start" => n = 0
    /\ phase \in {"serial", "spawn"} \/ n <= 1 => \A w \in Workers : w > spawned \/ w = Caller => pc[w] = "unborn"
    /\ n <= 1 => spawned = 0
    /\ \A w \in Workers : w > spawned => pc[w] = "unborn"
    /\ phase \in {"join", "returned", "rethrown"} /\ n > 1 => pc[Caller] = "done"
    /\ \A w \in Workers : 1 <= w /\ w <= joined => pc[w] = "done"
    /\ phase \in {"returned", "rethrown"} => joined = spawned

\* A worker holds an exception from the throw on, and once it is done the
\* exception (or another one) is recorded.
CaughtInv ==
    /\ \A w \in Workers : caught[w] # Empty => pc[w] \in {"stop", "record", "done"}
    /\ \A w \in Workers : pc[w] \in {"stop", "record"} => caught[w] # Empty
    /\ \A w \in Workers : caught[w] # Empty /\ pc[w] = "done" => failure # Empty
    /\ phase = "rethrown" => failure # Empty
    /\ phase \in {"start", "serial"} => failure = Empty
    /\ phase = "returned" => failure = Empty

\* A worker leaves its loop only when the cursor is past the texts; a chunk
\* in hand lies below the cursor and nothing above it has been written.
CursorInv ==
    /\ \A w \in Workers : pc[w] \in {"record", "done"} => cursor >= Size
    /\ \A w \in Workers : pc[w] = "chunk" => lo[w] < hi[w] /\ hi[w] <= cursor
    /\ n > 1 => \A i \in Slots : i >= cursor => out[i] = Empty

\* A slot holds nothing or its own result; the serial loop fills in order.
OutInv ==
    /\ \A i \in Slots : out[i] # Empty => out[i] = i /\ i \notin throws
    /\ phase = "start" => /\ \A w \in Workers : lo[w] = 0
                          /\ \A i \in Slots : out[i] = Empty
    /\ phase = "serial" => \A i \in Slots : i < lo[Caller] => out[i] = i
    /\ n <= 1 /\ phase = "returned" => \A i \in Slots : out[i] = i

IInv ==
    /\ TypeOK
    /\ PhaseInv
    /\ CaughtInv
    /\ CursorInv
    /\ OutInv
    /\ DisjointSlots
    /\ NothingLost

-----------------------------------------------------------------------------
(* The thread count is between one and the number of texts. *)
LEMMA ThreadCountBound ==
    ASSUME NEW requested \in Requests
    PROVE  /\ ThreadCount(requested) \in 0 .. Size
           /\ Size > 0 => ThreadCount(requested) > 0
BY BatchAssumption DEF ThreadCount

LEMMA InitIInv == Init => IInv
<1> SUFFICES ASSUME Init PROVE IInv
    OBVIOUS
<1> USE BatchAssumption
<1>2. TypeOK
    BY DEF Init, TypeOK, Maybe, Workers, Slots
<1>3. PhaseInv
    BY DEF Init, PhaseInv, Workers, Slots, Caller
<1>4. CaughtInv /\ CursorInv /\ OutInv
    BY DEF Init, CaughtInv, CursorInv, OutInv, Workers, Slots, Caller
<1>5. DisjointSlots /\ NothingLost
    BY DEF Init, DisjointSlots, NothingLost, Owns, Workers, Slots
<1> QED
    BY <1>2, <1>3, <1>4, <1>5 DEF IInv

-----------------------------------------------------------------------------
(* The caller's steps. *)

LEMMA StartStep == IInv /\ Start => IInv'
<1> SUFFICES ASSUME IInv, NEW requested \in Requests, Start, n' = ThreadCount(requested) PROVE IInv'
    BY DEF Start
<1> USE BatchAssumption DEF IInv
<1>1. n' \in 0 .. Size /\ (Size > 0 => n' > 0)
    BY ThreadCountBound
<1>2. n = 0 /\ spawned = 0 /\ failure = Empty /\ \A w \in Workers : pc[w] = "unborn" /\ caught[w] = Empty
  <2>1. n = 0 /\ spawned = 0 /\ failure = Empty
      BY DEF Start, PhaseInv, CaughtInv
  <2>2. \A w \in Workers : pc[w] = "unborn"
      BY <2>1 DEF PhaseInv, Workers, Slots, Caller
  <2> QED
      BY <2>1, <2>2 DEF CaughtInv
<1>3. TypeOK'
    BY <1>1, <1>2 DEF Start, TypeOK, workerVars
<1>4. PhaseInv'
    BY <1>1, <1>2 DEF Start, TypeOK, PhaseInv, workerVars
<1>5. CaughtInv' /\ CursorInv'
    BY <1>1, <1>2 DEF Start, TypeOK, CaughtInv, CursorInv, OutInv, workerVars
<1>6. OutInv'
    BY <1>1, <1>2 DEF Start, OutInv, workerVars, Workers, Slots, Caller
<1>7. DisjointSlots' /\ NothingLost'
    BY DEF Start, DisjointSlots, NothingLost, Owns, workerVars
<1> QED
    BY <1>3, <1>4, <1>5, <1>6, <1>7

LEMMA SerialStep == IInv /\ (SerialItem \/ SerialReturn) => IInv'
<1> SUFFICES ASSUME IInv, SerialItem \/ SerialReturn PROVE IInv'
    OBVIOUS
<1> USE BatchAssumption DEF IInv
<1>1. phase = "serial" /\ n = 1 /\ Size > 0 /\ spawned = 0 /\ Caller \in Workers
    BY DEF SerialItem, SerialReturn, PhaseInv, Caller, Workers, Slots
<1>2. \A w \in Workers : pc[w] = "unborn"
    BY <1>1 DEF TypeOK, PhaseInv, Workers, Slots, Caller
<1>3. CASE SerialItem
  <2>0. lo[Caller] \in Slots
      BY <1>1, <1>3 DEF SerialItem, TypeOK, Slots
  <2>1. TypeOK'
    <3>1. UNCHANGED <<throws, n, spawned, joined, cursor, pc, hi, caught>>
        BY <1>3 DEF SerialItem
    <3>2. CASE lo[Caller] \in throws
        BY <1>3, <3>1, <3>2 DEF SerialItem, TypeOK, Maybe
    <3>3. CASE lo[Caller] \notin throws
      <4>1. lo' \in [Workers -> 0 .. Size]
          BY <1>1, <1>3, <2>0, <3>3 DEF SerialItem, TypeOK, Slots
      <4>2. out' \in [Slots -> Maybe(Slots)]
          BY <1>3, <2>0, <3>3 DEF SerialItem, TypeOK, Maybe
      <4> QED
          BY <1>3, <3>1, <3>3, <4>1, <4>2 DEF SerialItem, TypeOK
    <3> QED
        BY <3>2, <3>3
  <2>2. PhaseInv' /\ CaughtInv'
      BY <1>1, <1>2, <1>3 DEF SerialItem, TypeOK, Maybe, PhaseInv, CaughtInv, Caller, Slots, Workers
  <2>3. CursorInv'
      BY <1>1, <1>2, <1>3 DEF SerialItem, CursorInv
  <2>4. OutInv'
    <3>1. CASE lo[Caller] \in throws
        BY <1>1, <1>3, <3>1 DEF SerialItem, OutInv
    <3>2. CASE lo[Caller] \notin throws
      <4>1. out' = [out EXCEPT ![lo[Caller]] = lo[Caller]] /\ lo'[Caller] = lo[Caller] + 1
                 /\ throws' = throws /\ phase' = phase
          BY <1>1, <1>3, <3>2 DEF SerialItem, TypeOK
      <4>2. \A i \in Slots : out'[i] = IF i = lo[Caller] THEN i ELSE out[i]
          BY <4>1 DEF TypeOK
      <4>3. \A i \in Slots : i < lo'[Caller] => i < lo[Caller] \/ i = lo[Caller]
          BY <2>0, <4>1 DEF Slots
      <4> QED
          BY <1>1, <3>2, <4>1, <4>2, <4>3 DEF OutInv
    <3> QED
        BY <3>1, <3>2
  <2>5. DisjointSlots'
      BY <1>2, <1>3 DEF SerialItem, DisjointSlots, Owns
  <2>6. NothingLost'
      BY <1>1, <1>2, <1>3 DEF SerialItem, TypeOK, NothingLost, Owns, Slots, OutInv
  <2> QED
      BY <2>1, <2>2, <2>3, <2>4, <2>5, <2>6
<1>4. CASE SerialReturn
  <2> USE <1>4 DEF SerialReturn, workerVars
  <2>1. TypeOK' /\ PhaseInv'
      BY <1>1, <1>2 DEF TypeOK, PhaseInv
  <2>2. CaughtInv' /\ CursorInv' /\ OutInv'
      BY <1>1, <1>2 DEF TypeOK, CaughtInv, CursorInv, OutInv, Slots
  <2>3. DisjointSlots' /\ NothingLost'
      BY DEF DisjointSlots, NothingLost, Owns
  <2> QED
      BY <2>1, <2>2, <2>3
<1> QED
    BY <1>3, <1>4

LEMMA SpawnStep == IInv /\ (Spawn \/ StopSpawning) => IInv'
<1> SUFFICES ASSUME IInv, NEW s \in Workers, pc[s] = "unborn",
                    (Spawn /\ s = spawned + 1) \/ (StopSpawning /\ s = Caller)
             PROVE IInv'
  <2> SUFFICES ASSUME IInv, Spawn \/ StopSpawning
               PROVE \E s \in Workers : pc[s] = "unborn" /\
                        ((Spawn /\ s = spawned + 1) \/ (StopSpawning /\ s = Caller))
      OBVIOUS
  <2>1. n > 1 /\ phase = "spawn" /\ Caller \in Workers
      BY BatchAssumption DEF IInv, TypeOK, PhaseInv, Spawn, StopSpawning, Workers, Slots, Caller
  <2>2. CASE Spawn
    <3>1. spawned + 1 \in Workers /\ spawned + 1 > spawned
        BY <2>2, BatchAssumption DEF IInv, TypeOK, Spawn, Workers, Slots
    <3>2. pc[spawned + 1] = "unborn"
        BY <3>1 DEF IInv, PhaseInv
    <3> QED
        BY <2>2, <3>1, <3>2
  <2>3. CASE StopSpawning
      BY <2>1, <2>3 DEF IInv, PhaseInv
  <2> QED
      BY <2>2, <2>3
<1> USE BatchAssumption DEF IInv
<1>1. pc' = [pc EXCEPT ![s] = "claim"] /\ phase = "spawn" /\ n > 1
    BY DEF Spawn, StopSpawning, PhaseInv
<1>2. UNCHANGED <<throws, n, joined, cursor, lo, hi, caught, failure, out>>
    BY DEF Spawn, StopSpawning
<1>3. TypeOK'
    BY <1>1, <1>2 DEF Spawn, StopSpawning, TypeOK
<1>4. PhaseInv'
    BY <1>1, <1>2 DEF Spawn, StopSpawning, TypeOK, PhaseInv, Workers, Slots, Caller
<1>5. CaughtInv' /\ CursorInv'
    BY <1>1, <1>2 DEF Spawn, StopSpawning, TypeOK, CaughtInv, CursorInv
<1>6. OutInv'
    BY <1>1, <1>2 DEF Spawn, StopSpawning, TypeOK, OutInv
<1>7. \A w \in Workers, i \in Slots : Owns(w, i)' <=> Owns(w, i)
    BY <1>1, <1>2 DEF TypeOK, Owns
<1>8. DisjointSlots' /\ NothingLost'
    BY <1>2, <1>7 DEF DisjointSlots, NothingLost
<1> QED
    BY <1>3, <1>4, <1>5, <1>6, <1>8

\* When the caller leaves, nothing is recorded exactly if nothing was caught.
LEMMA JoinStep == IInv /\ (StartJoining \/ Join \/ Leave) => IInv'
<1> SUFFICES ASSUME IInv, StartJoining \/ Join \/ Leave PROVE IInv'
    OBVIOUS
<1> USE BatchAssumption DEF IInv
<1>1. UNCHANGED <<throws, n, spawned, workerVars>> /\ n > 1
    BY DEF StartJoining, Join, Leave, PhaseInv
<1>2. TypeOK'
    BY <1>1 DEF StartJoining, Join, Leave, TypeOK, workerVars
<1>3. PhaseInv'
  <2> USE <1>1 DEF workerVars
  <2>1. CASE StartJoining
      BY <2>1 DEF StartJoining, PhaseInv
  <2>2. CASE Join
    <3>1. joined + 1 \in Nat /\ \A w \in Workers : 1 <= w /\ w <= joined + 1 => w <= joined \/ w = joined + 1
        BY DEF TypeOK, Workers, Slots
    <3> QED
        BY <2>2, <3>1 DEF Join, PhaseInv
  <2>3. CASE Leave
      BY <2>3 DEF Leave, PhaseInv
  <2> QED
      BY <2>1, <2>2, <2>3
<1>4. CaughtInv' /\ CursorInv'
    BY <1>1 DEF StartJoining, Join, Leave, TypeOK, CaughtInv, CursorInv, workerVars
<1>5. OutInv'
    BY <1>1 DEF StartJoining, Join, Leave, TypeOK, OutInv, workerVars
<1>6. DisjointSlots' /\ NothingLost'
    BY <1>1 DEF DisjointSlots, NothingLost, Owns, workerVars
<1> QED
    BY <1>2, <1>3, <1>4, <1>5, <1>6

-----------------------------------------------------------------------------
(***************************************************************************)
(* The workers' steps.  A worker at work means a parallel call: n > 1, so  *)
(* the caller is in phase "spawn", "work" or "join" and has not left.      *)
(***************************************************************************)
LEMMA AtWork ==
    ASSUME IInv, NEW w \in Workers, pc[w] \notin {"unborn", "done"}
    PROVE  /\ n > 1
           /\ phase \in {"spawn", "work", "join"}
           /\ w <= spawned
           /\ ~(1 <= w /\ w <= joined)
           /\ phase \in {"join"} => w # Caller
           /\ phase = "spawn" => w # Caller
<1> USE BatchAssumption DEF IInv
<1>1. n > 1 /\ w <= spawned /\ ~(1 <= w /\ w <= joined) /\ phase # "serial" /\ (phase = "spawn" => w # Caller)
    BY DEF TypeOK, PhaseInv, Workers, Slots, Caller
<1>2. phase \in {"join", "returned", "rethrown"} => w # Caller
    BY <1>1 DEF PhaseInv
<1>3. phase \notin {"start", "returned", "rethrown"}
    BY <1>1, <1>2 DEF TypeOK, PhaseInv, Workers, Slots, Caller
<1> QED
    BY <1>1, <1>2, <1>3 DEF TypeOK

\* A worker's step moves only its own pc, and never back to "unborn".
LEMMA PhaseStep ==
    ASSUME IInv, NEW w \in Workers, Work(w)
    PROVE  PhaseInv'
<1> USE BatchAssumption DEF IInv
<1>1. UNCHANGED callerVars /\ pc[w] \notin {"unborn", "done"} /\ \E c \in {"claim", "chunk", "stop", "record", "done"} : pc' = [pc EXCEPT ![w] = c]
    BY DEF Work, Claim, Item, ItemThrows, StopOthers, RecordFailure, callerVars
<1>2. \A v \in Workers : v # w => pc'[v] = pc[v]
    BY <1>1 DEF TypeOK
<1> QED
    BY <1>1, <1>2, AtWork DEF TypeOK, PhaseInv, callerVars

LEMMA ClaimStep ==
    ASSUME IInv, NEW w \in Workers, Claim(w)
    PROVE  IInv'
<1> USE BatchAssumption DEF IInv
<1>1. PhaseInv'
    BY PhaseStep DEF Work
<1>2. n > 1 /\ phase \in {"spawn", "work", "join"} /\ caught[w] = Empty
    BY AtWork DEF Claim, CaughtInv, TypeOK
<1>3. UNCHANGED <<throws, n, phase, spawned, joined, caught, failure, out>> /\ cursor' = cursor + Chunk
    BY DEF Claim, callerVars
<1>4. CASE cursor >= Size
  <2>1. pc' = [pc EXCEPT ![w] = "done"] /\ UNCHANGED <<lo, hi>>
      BY <1>4 DEF Claim
  <2>2. TypeOK'
      BY <1>3, <2>1 DEF TypeOK
  <2>3. CaughtInv' /\ OutInv'
      BY <1>2, <1>3, <2>1 DEF TypeOK, CaughtInv, OutInv
  <2>4. CursorInv'
      BY <1>3, <1>4, <2>1 DEF TypeOK, CursorInv, Workers, Slots
  <2>5. \A v \in Workers, i \in Slots : Owns(v, i)' <=> Owns(v, i)
      BY <2>1 DEF TypeOK, Owns, Claim
  <2>6. DisjointSlots' /\ NothingLost'
      BY <1>3, <1>4, <2>5 DEF TypeOK, DisjointSlots, NothingLost, Slots
  <2> QED
      BY <1>1, <2>2, <2>3, <2>4, <2>6
<1>5. CASE ~(cursor >= Size)
  <2>1. /\ pc' = [pc EXCEPT ![w] = "chunk"]
        /\ lo' = [lo EXCEPT ![w] = cursor]
        /\ hi' = [hi EXCEPT ![w] = ChunkEnd(cursor)]
      BY <1>5 DEF Claim
  <2>2. cursor \in Slots /\ ChunkEnd(cursor) \in 0 .. Size
        /\ cursor < ChunkEnd(cursor) /\ ChunkEnd(cursor) <= cursor + Chunk
        /\ (ChunkEnd(cursor) = cursor + Chunk \/ ChunkEnd(cursor) = Size)
      BY <1>5 DEF TypeOK, ChunkEnd, Slots
  <2>3. TypeOK'
      BY <1>3, <2>1, <2>2 DEF TypeOK, Slots
  <2>4. CaughtInv' /\ OutInv'
      BY <1>2, <1>3, <2>1 DEF TypeOK, CaughtInv, OutInv
  <2>5. CursorInv'
      BY <1>3, <1>5, <2>1, <2>2 DEF TypeOK, CursorInv, Workers, Slots
  <2>6. \A v \in Workers, i \in Slots : v # w => (Owns(v, i)' <=> Owns(v, i))
      BY <2>1 DEF TypeOK, Owns
  <2>7. \A i \in Slots : Owns(w, i)' <=> cursor <= i /\ i < ChunkEnd(cursor)
      BY <2>1 DEF TypeOK, Owns
  <2>8. \A v \in Workers, i \in Slots : Owns(v, i) => i < cursor
      BY DEF TypeOK, CursorInv, Owns, Workers, Slots
  <2>9. \A i \in Slots : cursor <= i => out[i] = Empty
      BY <1>2 DEF TypeOK, CursorInv, Slots
  <2>10. DisjointSlots'
      BY <1>3, <2>2, <2>6, <2>7, <2>8, <2>9 DEF TypeOK, DisjointSlots, Slots
  <2>11. \A i \in Slots : i < cursor' => i < cursor \/ Owns(w, i)'
      BY <1>3, <2>2, <2>7 DEF TypeOK, Slots
  <2>12. ~Owns(w, 0) /\ \A i \in Slots : ~Owns(w, i)
      BY DEF Owns, Claim
  <2>13. NothingLost'
      BY <1>3, <2>6, <2>11, <2>12 DEF NothingLost
  <2> QED
      BY <1>1, <2>3, <2>4, <2>5, <2>10, <2>13
<1> QED
    BY <1>4, <1>5

LEMMA ItemStep ==
    ASSUME IInv, NEW w \in Workers, Item(w)
    PROVE  IInv'
<1> USE BatchAssumption DEF IInv
<1>1. PhaseInv'
    BY PhaseStep DEF Work
<1>2. n > 1 /\ phase \in {"spawn", "work", "join"} /\ caught[w] = Empty
    BY AtWork DEF Item, CaughtInv, TypeOK
<1>3. /\ UNCHANGED <<throws, n, phase, spawned, joined, cursor, hi, caught, failure>>
      /\ pc[w] = "chunk" /\ lo[w] \notin throws
      /\ out' = [out EXCEPT ![lo[w]] = lo[w]]
      /\ lo' = [lo EXCEPT ![w] = lo[w] + 1]
      /\ pc' = [pc EXCEPT ![w] = IF lo[w] + 1 = hi[w] THEN "claim" ELSE "chunk"]
    BY DEF Item, callerVars
<1>4. lo[w] \in Slots /\ lo[w] < hi[w] /\ hi[w] <= cursor /\ lo[w] + 1 \in 0 .. Size
    BY <1>3 DEF TypeOK, CursorInv, Slots
<1>5. \A i \in Slots : out'[i] = IF i = lo[w] THEN i ELSE out[i]
    BY <1>3 DEF TypeOK
<1>6. TypeOK'
  <2>1. lo' \in [Workers -> 0 .. Size] /\ out' \in [Slots -> Maybe(Slots)]
      BY <1>3, <1>4 DEF TypeOK, Maybe
  <2> QED
      BY <1>3, <2>1 DEF TypeOK
<1>7. CaughtInv'
    BY <1>2, <1>3 DEF TypeOK, CaughtInv
<1>8. CursorInv'
  <2>1. \A i \in Slots : i >= cursor => i # lo[w]
      BY <1>4 DEF TypeOK, Slots
  <2>2. n > 1 => \A i \in Slots : i >= cursor => out'[i] = Empty
      BY <1>5, <2>1 DEF CursorInv
  <2>3. \A v \in Workers : pc'[v] = "chunk" => lo'[v] < hi'[v] /\ hi'[v] <= cursor
      BY <1>3, <1>4 DEF TypeOK, CursorInv, Slots
  <2>4. \A v \in Workers : pc'[v] \in {"record", "done"} => pc[v] \in {"record", "done"}
      BY <1>3 DEF TypeOK
  <2> QED
      BY <1>3, <2>2, <2>3, <2>4 DEF CursorInv
<1>9. OutInv'
    BY <1>2, <1>3, <1>5 DEF OutInv
<1>10. \A v \in Workers, i \in Slots : v # w => (Owns(v, i)' <=> Owns(v, i))
    BY <1>3 DEF TypeOK, Owns
<1>11. \A i \in Slots : Owns(w, i)' <=> Owns(w, i) /\ i # lo[w]
    BY <1>3, <1>4 DEF TypeOK, Owns, Slots
<1>12. Owns(w, lo[w])
    BY <1>3, <1>4 DEF Owns, Slots
<1>13. DisjointSlots'
    BY <1>4, <1>5, <1>10, <1>11, <1>12 DEF DisjointSlots
<1>14. NothingLost'
    BY <1>3, <1>5, <1>10, <1>11 DEF NothingLost
<1> QED
    BY <1>1, <1>6, <1>7, <1>8, <1>9, <1>13, <1>14

\* The three steps of a worker whose fn has thrown.
LEMMA ThrowStep ==
    ASSUME IInv, NEW w \in Workers, ItemThrows(w) \/ StopOthers(w) \/ RecordFailure(w)
    PROVE  IInv'
<1> USE BatchAssumption DEF IInv
<1>1. PhaseInv'
    BY PhaseStep DEF Work
<1>2. n > 1 /\ phase \in {"spawn", "work", "join"} /\ pc[w] \in {"chunk", "stop", "record"}
    BY AtWork DEF ItemThrows, StopOthers, RecordFailure
<1>3. UNCHANGED <<throws, n, phase, spawned, joined, hi, out>>
    BY DEF ItemThrows, StopOthers, RecordFailure, callerVars
<1>4. TypeOK'
    BY <1>3 DEF ItemThrows, StopOthers, RecordFailure, callerVars, TypeOK, Maybe, Slots
<1>5. CaughtInv'
  <2>1. CASE ItemThrows(w)
    <3>1. lo[w] # Empty /\ caught' = [caught EXCEPT ![w] = lo[w]]
          /\ pc' = [pc EXCEPT ![w] = "stop"] /\ UNCHANGED failure
        BY <2>1 DEF ItemThrows, TypeOK
    <3> QED
        BY <1>2, <1>3, <3>1 DEF TypeOK, CaughtInv
  <2>2. CASE StopOthers(w)
      BY <1>2, <1>3, <2>2 DEF StopOthers, callerVars, TypeOK, CaughtInv
  <2>3. CASE RecordFailure(w)
    <3>1. caught[w] # Empty /\ failure' # Empty
        BY <2>3 DEF RecordFailure, CaughtInv
    <3> QED
        BY <1>2, <1>3, <2>3, <3>1 DEF RecordFailure, TypeOK, CaughtInv
  <2> QED
      BY <2>1, <2>2, <2>3
<1>6. CursorInv' /\ OutInv'
  <2>1. cursor <= cursor' \/ (cursor' = Size /\ \A v \in Workers : hi[v] <= Size)
      BY DEF ItemThrows, StopOthers, RecordFailure, TypeOK
  <2>2. \A v \in Workers : pc'[v] \in {"record", "done"} => cursor' >= Size
      BY <1>2 DEF ItemThrows, StopOthers, RecordFailure, TypeOK, CursorInv
  <2>3. \A v \in Workers : pc'[v] = "chunk" => lo'[v] = lo[v] /\ pc[v] = "chunk"
      BY DEF ItemThrows, StopOthers, RecordFailure, TypeOK
  <2>4. \A v \in Workers : pc'[v] = "chunk" => lo'[v] < hi'[v] /\ hi'[v] <= cursor'
      BY <1>3, <1>4, <2>1, <2>3 DEF TypeOK, CursorInv
  <2>5. \A i \in Slots : i >= cursor' => i >= cursor
      BY <1>4, <2>1 DEF TypeOK, Slots
  <2> QED
      BY <1>2, <1>3, <2>2, <2>4, <2>5 DEF CursorInv, OutInv
<1>7. \A v \in Workers, i \in Slots : v # w => (Owns(v, i)' <=> Owns(v, i))
    BY DEF ItemThrows, StopOthers, RecordFailure, TypeOK, Owns
<1>8. \A i \in Slots : ~Owns(w, i)'
    BY DEF ItemThrows, StopOthers, RecordFailure, TypeOK, Owns
<1>9. DisjointSlots'
    BY <1>3, <1>7, <1>8 DEF DisjointSlots
<1>10. caught'[w] # Empty
    BY <1>4 DEF ItemThrows, StopOthers, RecordFailure, TypeOK, CaughtInv, Slots
<1>11. NothingLost'
    BY <1>10 DEF NothingLost
<1> QED
    BY <1>1, <1>4, <1>5, <1>6, <1>9, <1>11

-----------------------------------------------------------------------------
(* The results. *)

\* IInv is an invariant of run_batch.
THEOREM Invariance == Spec => []IInv
<1>1. Init => IInv
    BY InitIInv
<1>2. IInv /\ [Next]_vars => IInv'
  <2> SUFFICES ASSUME IInv, [Next]_vars PROVE IInv'
      OBVIOUS
  <2>1. CASE CallerStep
      BY <2>1, StartStep, SerialStep, SpawnStep, JoinStep DEF CallerStep
  <2>2. CASE \E w \in Workers : Work(w)
      BY <2>2, ClaimStep, ItemStep, ThrowStep DEF Work
  <2>3. CASE UNCHANGED vars
      BY <2>3 DEF vars, workerVars, IInv, TypeOK, PhaseInv, CaughtInv, CursorInv, OutInv, DisjointSlots, NothingLost, Owns
  <2> QED
      BY <2>1, <2>2, <2>3 DEF Next
<1> QED
    BY <1>1, <1>2, PTL DEF Spec

\* Every variable keeps its type, for any number of texts and threads.
THEOREM TypeCorrect == Spec => []TypeOK
BY Invariance, PTL DEF IInv

\* "Each thread writes disjoint result slots."
THEOREM SlotsDisjoint == Spec => []DisjointSlots
BY Invariance, PTL DEF IInv

\* As long as fn has not thrown, no claimed slot is forgotten.
THEOREM NoSlotLost == Spec => []NothingLost
BY Invariance, PTL DEF IInv

\* Every thread has been joined when run_batch returns or rethrows.
THEOREM CallEndsLast == Spec => []NoWorkerOutlivesCall
<1>1. IInv => NoWorkerOutlivesCall
  <2> SUFFICES ASSUME IInv, phase \in {"returned", "rethrown"}, NEW w \in Workers
               PROVE  pc[w] \in {"unborn", "done"}
      BY DEF NoWorkerOutlivesCall
  <2> QED
      BY AtWork
<1> QED
    BY Invariance, <1>1, PTL

\* Once a worker has stored texts.size(), no worker claims another chunk.
THEOREM StopIsPermanent == Spec => []StoppedForGood
<1>1. IInv => StoppedForGood
    BY DEF IInv, CursorInv, StoppedForGood, Stopped
<1> QED
    BY Invariance, <1>1, PTL

-----------------------------------------------------------------------------
(***************************************************************************)
(* run_batch implements BatchMap: it starts pending, and the only step the *)
(* outcome can take is to all the results when fn threw nowhere, or to an  *)
(* exception of fn.                                                        *)
(***************************************************************************)
Complete == phase = "returned" => throws = {} /\ out = Abstract!AllResults

LEMMA CompleteOnReturn == IInv => Complete
<1> SUFFICES ASSUME IInv, phase = "returned"
             PROVE  throws = {} /\ out = Abstract!AllResults
    BY DEF Complete
<1> USE BatchAssumption DEF IInv
<1>1. \A i \in Slots : out[i] = i
  <2>1. CASE n <= 1
      BY <2>1 DEF OutInv
  <2>2. CASE n > 1
    <3>1. failure = Empty /\ \A w \in Workers : pc[w] \in {"unborn", "done"}
        BY AtWork DEF CaughtInv
    <3>2. \A w \in Workers : caught[w] = Empty
        BY <3>1 DEF CaughtInv
    <3>3. cursor >= Size
        BY <2>2 DEF TypeOK, PhaseInv, CursorInv, Workers, Slots, Caller
    <3> QED
        BY <3>1, <3>2, <3>3 DEF NothingLost, Owns, TypeOK, Slots
  <2> QED
      BY <2>1, <2>2 DEF TypeOK
<1>2. throws = {}
    BY <1>1 DEF TypeOK, OutInv, Slots
<1>3. out = [i \in Slots |-> i]
    BY <1>1 DEF TypeOK
<1> QED
    BY <1>2, <1>3 DEF Abstract!AllResults, Abstract!Slots, Slots

THEOREM Refinement == Spec => Abstract!Init /\ [][Abstract!Next]_(Abstract!vars)
<1> USE BatchAssumption
<1>1. Init => Abstract!Init
  <2> SUFFICES ASSUME Init PROVE Abstract!Init
      OBVIOUS
  <2> QED
      BY DEF Init, outcome, Abstract!Init, Abstract!Pending, Abstract!Slots, Slots
<1>2. IInv /\ IInv' /\ Complete' /\ [Next]_vars => [Abstract!Next]_(Abstract!vars)
  <2> SUFFICES ASSUME IInv, IInv', Complete', [Next]_vars, outcome' # outcome
               PROVE  Abstract!Next
    <3>1. ASSUME [Next]_vars PROVE throws' = throws
      <4>1. CallerStep => throws' = throws
          BY DEF CallerStep, Start, SerialItem, SerialReturn, Spawn, StopSpawning, StartJoining, Join, Leave
      <4>2. ASSUME NEW w \in Workers, Work(w) PROVE throws' = throws
          BY <4>2 DEF Work, Claim, Item, ItemThrows, StopOthers, RecordFailure, callerVars
      <4> QED
          BY <3>1, <4>1, <4>2 DEF Next, vars
    <3> QED
        BY <3>1 DEF Abstract!vars
  <2>1. phase \notin {"returned", "rethrown"} /\ UNCHANGED throws
    <3>1. CASE CallerStep
        BY <3>1 DEF CallerStep, Start, SerialItem, SerialReturn, Spawn, StopSpawning, StartJoining, Join, Leave
    <3>2. ASSUME NEW w \in Workers, Work(w)
          PROVE  phase \notin {"returned", "rethrown"} /\ UNCHANGED throws
        BY <3>2, AtWork DEF Work, Claim, Item, ItemThrows, StopOthers, RecordFailure, callerVars
    <3>3. CASE UNCHANGED vars
        BY <3>3 DEF vars, workerVars, outcome
    <3> QED
        BY <3>1, <3>2, <3>3 DEF Next
  <2>2. outcome = Abstract!Pending
      BY <2>1 DEF outcome, Abstract!Pending
  <2>3. CASE phase' = "returned"
    <3>1. throws' = {} /\ out' = Abstract!AllResults
        BY <2>3 DEF Complete
    <3>2. outcome' = Abstract!Value(Abstract!AllResults)
        BY <2>3, <3>1 DEF outcome, Abstract!Value
    <3> QED
        BY <2>1, <2>2, <3>1, <3>2 DEF Abstract!Next, Abstract!Return
  <2>4. CASE phase' = "rethrown"
    <3>1. failure' \in throws
        BY <2>1, <2>4 DEF IInv, TypeOK, CaughtInv, Maybe
    <3>2. outcome' = Abstract!Exception(failure')
        BY <2>4 DEF outcome, Abstract!Exception
    <3> QED
        BY <2>1, <2>2, <3>1, <3>2 DEF Abstract!Next, Abstract!Throw
  <2>5. CASE phase' \notin {"returned", "rethrown"}
      BY <2>2, <2>5 DEF outcome, Abstract!Pending
  <2> QED
      BY <2>3, <2>4, <2>5
<1> QED
    BY Invariance, CompleteOnReturn, <1>1, <1>2, PTL DEF Spec
=============================================================================
