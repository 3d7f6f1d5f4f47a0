------------------------------ MODULE BatchRun ------------------------------
(***************************************************************************)
(* detail::run_batch (include/segmentlib/segmenter.h): applies fn to every *)
(* text on up to n threads.  Workers claim chunks of consecutive slots     *)
(* from a shared atomic cursor, write the results into disjoint slots of   *)
(* out, and on an exception store texts.size() into the cursor so that the *)
(* others stop claiming; the calling thread spawns the pool, works too,    *)
(* joins the pool and returns out or rethrows the recorded exception.      *)
(*                                                                         *)
(* One action is one access to shared state (cursor, out, failure, a       *)
(* thread's start or end), so every interleaving of the code is a          *)
(* behaviour.  Text i stands for fn(texts[i]); "throws" is the set of      *)
(* texts on which fn throws, fixed for the call.                           *)
(***************************************************************************)
EXTENDS Integers

CONSTANTS
    Size,            \* texts.size()
    Chunk,           \* kChunk
    Requests,        \* values of the threads argument; 0 asks for the hardware's
    Hardware,        \* std::thread::hardware_concurrency(), which may be 0
    Empty            \* a default-constructed result; also "no exception"

ASSUME BatchAssumption ==
    /\ Size \in Nat
    /\ Chunk \in Nat \ {0}
    /\ Requests \subseteq Nat
    /\ Hardware \in Nat
    /\ Empty \notin Nat

Slots == 0 .. Size - 1

\* unsigned n: the threads wanted, at least one, never more than the texts.
ThreadCount(requested) ==
    LET asked  == IF requested # 0 THEN requested ELSE Hardware
        wanted == IF asked = 0 THEN 1 ELSE asked
    IN  IF wanted < Size THEN wanted ELSE Size

\* One past the last slot of the chunk that starts at start.
ChunkEnd_OneLong(start) == IF start + Chunk + 1 < Size THEN start + Chunk + 1 ELSE Size
ChunkEnd_OneShort(start) == IF start + Chunk < Size THEN start + Chunk ELSE Size - 1
ChunkEnd(start) == IF start + Chunk < Size THEN start + Chunk ELSE Size

Caller == 0
Workers == Slots         \* worker 0 is the caller; n <= Size

VARIABLES
    throws,      \* the texts on which fn throws
    n,           \* threads to use, the calling one included
    phase,       \* where the calling thread is in run_batch
    spawned,     \* threads started so far: workers 1 .. spawned
    joined,      \* threads joined so far, in the order of the pool
    cursor,      \* the shared atomic: the next slot nobody has claimed
    pc,          \* where each worker is in its lambda
    lo, hi,      \* the slots of a worker's chunk still to do: lo .. hi - 1
    caught,      \* the exception a worker is handling
    failure,     \* the exception recorded under failure_mutex
    out          \* the result slots

workerVars == <<cursor, pc, lo, hi, caught, failure, out>>
vars == <<throws, n, phase, spawned, joined, workerVars>>

Init ==
    /\ throws \in SUBSET Slots
    /\ n = 0
    /\ phase = "start"
    /\ spawned = 0
    /\ joined = 0
    /\ cursor = 0
    /\ pc = [w \in Workers |-> "unborn"]
    /\ lo = [w \in Workers |-> 0]
    /\ hi = [w \in Workers |-> 0]
    /\ caught = [w \in Workers |-> Empty]
    /\ failure = Empty
    /\ out = [i \in Slots |-> Empty]

-----------------------------------------------------------------------------
\* An empty batch returns at once, one thread works without a pool.
Start ==
    /\ phase = "start"
    /\ \E requested \in Requests : n' = ThreadCount(requested)
    /\ phase' = IF Size = 0 THEN "returned" ELSE IF n' = 1 THEN "serial" ELSE "spawn"
    /\ UNCHANGED <<throws, spawned, joined, workerVars>>

(***************************************************************************)
(* n == 1: no thread, no cursor; an exception of fn leaves at once.  The   *)
(* loop counter is lo[Caller], and an exception that leaves run_batch is   *)
(* kept in failure.                                                        *)
(***************************************************************************)
SerialItem ==
    /\ phase = "serial"
    /\ lo[Caller] < Size
    /\ IF lo[Caller] \in throws
       THEN /\ phase' = "rethrown"
            /\ failure' = lo[Caller]
            /\ UNCHANGED <<out, lo>>
       ELSE /\ out' = [out EXCEPT ![lo[Caller]] = lo[Caller]]
            /\ lo' = [lo EXCEPT ![Caller] = @ + 1]
            /\ UNCHANGED <<phase, failure>>
    /\ UNCHANGED <<throws, n, spawned, joined, cursor, pc, hi, caught>>

SerialReturn ==
    /\ phase = "serial"
    /\ lo[Caller] = Size
    /\ phase' = "returned"
    /\ UNCHANGED <<throws, n, spawned, joined, workerVars>>

-----------------------------------------------------------------------------
(* The calling thread.  Leave_Unjoined rethrows before the joins. *)

\* pool.emplace_back(worker): the new thread may run before the next starts.
Spawn ==
    /\ phase = "spawn"
    /\ spawned + 1 < n
    /\ spawned' = spawned + 1
    /\ pc' = [pc EXCEPT ![spawned + 1] = "claim"]
    /\ UNCHANGED <<throws, n, phase, joined, cursor, lo, hi, caught, failure, out>>

\* The loop ends, or reserve or a thread's constructor throws and the handler
\* goes on with the threads started: either way the caller becomes a worker.
StopSpawning ==
    /\ phase = "spawn"
    /\ phase' = "work"
    /\ pc' = [pc EXCEPT ![Caller] = "claim"]
    /\ UNCHANGED <<throws, n, spawned, joined, cursor, lo, hi, caught, failure, out>>

\* worker() returned in the calling thread.
StartJoining ==
    /\ phase = "work"
    /\ pc[Caller] = "done"
    /\ phase' = "join"
    /\ UNCHANGED <<throws, n, spawned, joined, workerVars>>

Join ==
    /\ phase = "join"
    /\ joined < spawned
    /\ pc[joined + 1] = "done"
    /\ joined' = joined + 1
    /\ UNCHANGED <<throws, n, phase, spawned, workerVars>>

Leave_Unjoined ==
    /\ phase = "join"
    /\ joined = spawned \/ failure # Empty
    /\ phase' = IF failure # Empty THEN "rethrown" ELSE "returned"
    /\ UNCHANGED <<throws, n, spawned, joined, workerVars>>

Leave ==
    /\ phase = "join"
    /\ joined = spawned
    /\ phase' = IF failure # Empty THEN "rethrown" ELSE "returned"
    /\ UNCHANGED <<throws, n, spawned, joined, workerVars>>

-----------------------------------------------------------------------------
(* The worker lambda, run by the calling thread and by every pool thread. *)

callerVars == <<throws, n, phase, spawned, joined>>

\* fetch_add, then the test against texts.size() on the value it returned.
Claim(w) ==
    /\ pc[w] = "claim"
    /\ cursor' = cursor + Chunk
    /\ IF cursor >= Size
       THEN /\ pc' = [pc EXCEPT ![w] = "done"]
            /\ UNCHANGED <<lo, hi>>
       ELSE /\ pc' = [pc EXCEPT ![w] = "chunk"]
            /\ lo' = [lo EXCEPT ![w] = cursor]
            /\ hi' = [hi EXCEPT ![w] = ChunkEnd(cursor)]
    /\ UNCHANGED <<callerVars, caught, failure, out>>

\* out[i] = fn(texts[i]) and the next i; after the last, back to claiming.
Item(w) ==
    /\ pc[w] = "chunk"
    /\ lo[w] \notin throws
    /\ out' = [out EXCEPT ![lo[w]] = lo[w]]
    /\ lo' = [lo EXCEPT ![w] = @ + 1]
    /\ pc' = [pc EXCEPT ![w] = IF lo[w] + 1 = hi[w] THEN "claim" ELSE "chunk"]
    /\ UNCHANGED <<callerVars, cursor, hi, caught, failure>>

\* fn throws: the rest of the chunk is abandoned.
ItemThrows(w) ==
    /\ pc[w] = "chunk"
    /\ lo[w] \in throws
    /\ caught' = [caught EXCEPT ![w] = lo[w]]
    /\ lo' = [lo EXCEPT ![w] = hi[w]]
    /\ pc' = [pc EXCEPT ![w] = "stop"]
    /\ UNCHANGED <<callerVars, cursor, hi, failure, out>>

StopOthers_LateStore(w) ==
    /\ pc[w] = "stop"
    /\ pc' = [pc EXCEPT ![w] = "record"]
    /\ UNCHANGED <<callerVars, cursor, lo, hi, caught, failure, out>>

\* cursor.store(texts.size()): it may also take back an overshot cursor.
StopOthers(w) ==
    /\ pc[w] = "stop"
    /\ cursor' = Size
    /\ pc' = [pc EXCEPT ![w] = "record"]
    /\ UNCHANGED <<callerVars, lo, hi, caught, failure, out>>

RecordFailure_Dropped(w) ==
    /\ pc[w] = "record"
    /\ pc' = [pc EXCEPT ![w] = "done"]
    /\ UNCHANGED <<callerVars, cursor, lo, hi, caught, failure, out>>

\* The critical section of failure_mutex: the first to enter wins.
RecordFailure(w) ==
    /\ pc[w] = "record"
    /\ failure' = IF failure = Empty THEN caught[w] ELSE failure
    /\ pc' = [pc EXCEPT ![w] = "done"]
    /\ UNCHANGED <<callerVars, cursor, lo, hi, caught, out>>

Work(w) == Claim(w) \/ Item(w) \/ ItemThrows(w) \/ StopOthers(w) \/ RecordFailure(w)

CallerStep ==
    \/ Start \/ SerialItem \/ SerialReturn
    \/ Spawn \/ StopSpawning \/ StartJoining \/ Join \/ Leave

Next == CallerStep \/ \E w \in Workers : Work(w)

Spec == Init /\ [][Next]_vars

\* The OS schedules every started thread, and fn terminates; nothing is
\* assumed of the order.
FairSpec == Spec /\ WF_vars(CallerStep) /\ \A w \in Workers : WF_vars(Work(w))

-----------------------------------------------------------------------------
Maybe(S) == S \cup {Empty}

TypeOK ==
    /\ throws \in SUBSET Slots
    /\ phase \in {"start", "serial", "spawn", "work", "join", "returned", "rethrown"}
    /\ n \in 0 .. Size
    /\ spawned \in Nat /\ (spawned > 0 => spawned < n)
    /\ joined \in 0 .. spawned
    /\ cursor \in Nat
    /\ pc \in [Workers -> {"unborn", "claim", "chunk", "stop", "record", "done"}]
    /\ lo \in [Workers -> 0 .. Size]
    /\ hi \in [Workers -> 0 .. Size]
    /\ caught \in [Workers -> Maybe(throws)]
    /\ failure \in Maybe(throws)
    /\ out \in [Slots -> Maybe(Slots)]

\* Slot i is in the part of its chunk that worker w has still to write.
Owns(w, i) == pc[w] = "chunk" /\ lo[w] <= i /\ i < hi[w]

(***************************************************************************)
(* "Each thread writes disjoint result slots": no slot is about to be      *)
(* written by two workers, or by one after another has already filled it - *)
(* also after the stop store has moved the cursor back.                    *)
(***************************************************************************)
DisjointSlots ==
    \A w \in Workers, i \in Slots : Owns(w, i) =>
        /\ out[i] = Empty
        /\ \A v \in Workers \ {w} : ~Owns(v, i)

(***************************************************************************)
(* out, the cursor and the lambda's captures live in run_batch's frame: no *)
(* thread may still be running when the frame is left, normally or not.    *)
(***************************************************************************)
NoWorkerOutlivesCall ==
    phase \in {"returned", "rethrown"} => \A w \in Workers : pc[w] \in {"unborn", "done"}

\* Some worker has stopped the batch.
Stopped == \E w \in Workers : caught[w] # Empty /\ pc[w] \in {"record", "done"}

(***************************************************************************)
(* "stop the others": once a worker has stored texts.size() the cursor     *)
(* never again hands out a slot, whatever the others add to it.            *)
(***************************************************************************)
StoppedForGood == Stopped => cursor >= Size

(***************************************************************************)
(* No chunk is lost between two claims: as long as nothing threw, a slot   *)
(* below the cursor is filled or in the hands of a running worker.         *)
(***************************************************************************)
NothingLost ==
    (\A w \in Workers : caught[w] = Empty) =>
        \A i \in Slots : i < cursor => out[i] = i \/ \E w \in Workers : Owns(w, i)

\* run_batch implements "map in input order, or throw one of the exceptions".
outcome ==
    CASE phase = "returned" -> [kind |-> "value", results |-> out]
      [] phase = "rethrown" -> [kind |-> "exception", text |-> failure]
      [] OTHER              -> [kind |-> "pending"]

Abstract == INSTANCE BatchMap WITH Size <- Size, throws <- throws, outcome <- outcome

(***************************************************************************)
(* The parallel call returns what a sequential map would: every result in  *)
(* its place, never normally when fn threw, and the call ends.             *)
(***************************************************************************)
ImplementsMap == Abstract!Spec
=============================================================================
