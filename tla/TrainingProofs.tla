--------------------------- MODULE TrainingProofs ----------------------------
(***************************************************************************)
(* Proofs about Training, for every size of the network, gradient, dev     *)
(* score, number of epochs and patience.  The loop invariant ties what is  *)
(* captured to the epoch it was captured at, the first of the best so far. *)
(***************************************************************************)
EXTENDS Training, SequenceTheorems, TLAPS

Parameters == [steps : Nat, w2 : [Units -> Int]]

Types ==
    /\ options \in Options
    /\ params \in Parameters
    /\ feedback \in [Units -> Int] /\ scale \in Nat
    /\ epoch \in 0 .. options.epochs
    /\ best_f1 \in Int /\ since_best \in Nat
    /\ result = [params |-> result.params, f1 |-> result.f1, pinned |-> result.pinned,
                 epochs_run |-> result.epochs_run]
    /\ returned \in BOOLEAN
    /\ ends \in Seq(Parameters) /\ Len(ends) = epoch
    /\ scores \in Seq(Nat)
    /\ options.dev => Len(scores) = epoch

\* The result is of epoch e, and the counter says how long ago that was.
CapturedAt(e) ==
    /\ IsBest(e)
    /\ result.params = ends[e] /\ result.f1 = scores[e] /\ result.pinned = Pinned(ends[e])
    /\ best_f1 = scores[e]
    /\ since_best = IF options.patience > 0 THEN epoch - e ELSE 0

LoopInv ==
    /\ options.dev /\ epoch > 0 => \E e \in 1 .. epoch : CapturedAt(e)
    /\ epoch = 0 \/ ~options.dev => best_f1 = -1 /\ since_best = 0
    /\ ~returned /\ options.dev /\ options.patience > 0 => since_best < options.patience

IInv == Types /\ LoopInv /\ ReturnsTheBest /\ StopsOnPatience /\ DalesLaw

-----------------------------------------------------------------------------
LEMMA Distribute ==
    ASSUME NEW f \in Int, NEW m \in Int, NEW w \in Int, NEW k \in Int
    PROVE  (f + (m - w)) * k - m * k = k * (f - w)
OBVIOUS

LEMMA KeepsSign ==
    ASSUME NEW m \in Int, NEW k \in Nat, NEW p \in {1, -1}, m * p >= 0
    PROVE  (m * k) * p >= 0
<1>1. CASE p = 1
  <2>1. m >= 0
    BY <1>1
  <2>2. m * k >= 0
    BY <2>1
  <2> QED
    BY <1>1, <2>2
<1>2. CASE p = -1
  <2>1. m <= 0
    BY <1>2
  <2>2. m * k <= 0
    BY <2>1
  <2> QED
    BY <1>2, <2>2
<1> QED
  BY <1>1, <1>2

\* What a batch does to the weights.
LEMMA BatchMoves ==
    ASSUME Types, TrainBatch
    PROVE  \E moved \in [Units -> Int], keep \in Nat :
              /\ keep = IF options.learn THEN KeepNum ELSE 1
              /\ options.rule = "edla" => \A j \in Units : moved[j] * Polarity(j) >= 0
              /\ params' = [steps |-> params.steps + 1, w2 |-> [j \in Units |-> moved[j] * keep]]
              /\ feedback' = IF options.learn
                             THEN [j \in Units |-> (feedback[j] + (moved[j] - params.w2[j])) * keep]
                             ELSE feedback
<1> DEFINE keep == IF options.learn THEN KeepNum ELSE 1
<1>1. KeepNum \in Nat /\ keep \in Nat
  BY TrainingAssumption
<1>2. PICK delta \in [Units -> Deltas] :
          LET stepped == Stepped(params.w2, delta)
              moved   == IF options.rule = "edla" THEN ProjectDale(stepped) ELSE stepped
          IN  /\ params' = [steps |-> params.steps + 1, w2 |-> [j \in Units |-> moved[j] * keep]]
              /\ feedback' = IF options.learn
                             THEN [j \in Units |-> (feedback[j] + (moved[j] - params.w2[j])) * keep]
                             ELSE feedback
  BY DEF TrainBatch
<1> DEFINE stepped == Stepped(params.w2, delta)
           moved   == IF options.rule = "edla" THEN ProjectDale(stepped) ELSE stepped
<1>3. delta \in [Units -> Int] /\ params.w2 \in [Units -> Int] /\ scale \in Int
  BY TrainingAssumption DEF Types, Parameters
<1>4. stepped \in [Units -> Int]
  <2>1. ASSUME NEW j \in Units PROVE params.w2[j] + delta[j] * scale \in Int
    BY <1>3
  <2> QED
    BY <2>1 DEF Stepped
<1>5. /\ ProjectDale(stepped) \in [Units -> Int]
      /\ \A j \in Units : ProjectDale(stepped)[j] * Polarity(j) >= 0
  <2> HIDE DEF stepped
  <2>1. ASSUME NEW j \in Units
        PROVE  /\ ProjectDale(stepped)[j] \in Int
               /\ ProjectDale(stepped)[j] * Polarity(j) >= 0
    <3>1. stepped[j] \in Int /\ Polarity(j) \in {1, -1}
      BY <1>4 DEF Polarity
    <3>2. ProjectDale(stepped)[j] = IF stepped[j] * Polarity(j) < 0 THEN 0 ELSE stepped[j]
      BY DEF ProjectDale
    <3>3. CASE stepped[j] * Polarity(j) < 0
      BY <3>1, <3>2, <3>3
    <3>4. CASE ~(stepped[j] * Polarity(j) < 0)
      BY <3>1, <3>2, <3>4
    <3> QED
      BY <3>3, <3>4
  <2> QED
    BY <2>1 DEF ProjectDale
<1>6. /\ moved \in [Units -> Int]
      /\ options.rule = "edla" => \A j \in Units : moved[j] * Polarity(j) >= 0
  BY <1>4, <1>5
<1>7. /\ params' = [steps |-> params.steps + 1, w2 |-> [j \in Units |-> moved[j] * keep]]
      /\ feedback' = IF options.learn
                     THEN [j \in Units |-> (feedback[j] + (moved[j] - params.w2[j])) * keep]
                     ELSE feedback
  BY <1>2
<1> HIDE DEF moved, stepped, keep
<1>8. keep = IF options.learn THEN KeepNum ELSE 1
  BY DEF keep
<1> USE <1>1, <1>6
<1> WITNESS moved \in [Units -> Int], keep \in Nat
<1> QED
  BY <1>6, <1>7, <1>8

\* The projection, and the decay that keeps its result's sign.
LEMMA BatchKeepsDale ==
    ASSUME Types, TrainBatch
    PROVE  /\ DalesLaw'
           /\ params' \in Parameters /\ feedback' \in [Units -> Int]
           /\ options.learn =>
                 \A j \in Units : feedback'[j] - params'.w2[j] = KeepNum * (feedback[j] - params.w2[j])
<1>1. PICK moved \in [Units -> Int], keep \in Nat :
          /\ keep = IF options.learn THEN KeepNum ELSE 1
          /\ options.rule = "edla" => \A j \in Units : moved[j] * Polarity(j) >= 0
          /\ params' = [steps |-> params.steps + 1, w2 |-> [j \in Units |-> moved[j] * keep]]
          /\ feedback' = IF options.learn
                         THEN [j \in Units |-> (feedback[j] + (moved[j] - params.w2[j])) * keep]
                         ELSE feedback
  BY BatchMoves
<1>2. /\ options' = options /\ feedback \in [Units -> Int] /\ params.w2 \in [Units -> Int]
      /\ params.steps \in Nat
  BY DEF TrainBatch, Types, Parameters
<1>3. \A j \in Units : moved[j] * keep \in Int /\ params'.w2[j] = moved[j] * keep
  BY <1>1
<1>4. params' \in Parameters
  BY <1>1, <1>2, <1>3 DEF Parameters
<1>5. ASSUME options.rule = "edla", NEW j \in Units
      PROVE  params'.w2[j] * Polarity(j) >= 0
  <2>1. Polarity(j) \in {1, -1} /\ moved[j] \in Int /\ moved[j] * Polarity(j) >= 0
    BY <1>1, <1>5 DEF Polarity
  <2> QED
    BY <1>3, <2>1, KeepsSign
<1>6. ASSUME NEW j \in Units
      PROVE  (feedback[j] + (moved[j] - params.w2[j])) * keep \in Int
  BY <1>2
<1>7. feedback' \in [Units -> Int]
  BY <1>1, <1>2, <1>6
<1>8. ASSUME options.learn, NEW j \in Units
      PROVE  feedback'[j] - params'.w2[j] = KeepNum * (feedback[j] - params.w2[j])
  <2>1. /\ feedback'[j] = (feedback[j] + (moved[j] - params.w2[j])) * keep
        /\ keep = KeepNum
    BY <1>1, <1>8
  <2>2. feedback[j] \in Int /\ moved[j] \in Int /\ params.w2[j] \in Int /\ keep \in Int
    BY <1>2
  <2>3. (feedback[j] + (moved[j] - params.w2[j])) * keep - moved[j] * keep = keep * (feedback[j] - params.w2[j])
    BY <2>2, Distribute
  <2> QED
    BY <1>3, <2>1, <2>3
<1> QED
  BY <1>2, <1>4, <1>5, <1>7, <1>8 DEF DalesLaw

-----------------------------------------------------------------------------
LEMMA InitInvariant == Init => IInv
<1> SUFFICES ASSUME Init PROVE IInv
  OBVIOUS
<1> USE DEF Init
<1>1. /\ options \in Options /\ epoch = 0 /\ ~returned /\ best_f1 = -1 /\ since_best = 0
      /\ ends = <<>> /\ scores = <<>>
  OBVIOUS
<1>2. \A j \in Units : Polarity(j) \in {1, -1}
  BY DEF Polarity
<1>3. PICK draw \in [Units -> Draws] :
          params.w2 = IF options.rule = "edla" THEN [j \in Units |-> draw[j] * Polarity(j)]
                      ELSE [j \in Units |-> draw[j]]
  BY DEF InitialWeights
<1>4. \A j \in Units : draw[j] \in Nat
  BY <1>3, TrainingAssumption
<1>5. params.w2 \in [Units -> Int] /\ params \in Parameters
  <2>1. \A j \in Units : draw[j] * Polarity(j) \in Int /\ draw[j] \in Int
    BY <1>2, <1>4
  <2>2. params.w2 \in [Units -> Int]
    BY <1>3, <2>1
  <2> QED
    BY <2>2 DEF Parameters
<1>6. Types
  <2>1. epoch \in 0 .. options.epochs
    BY <1>1, TrainingAssumption DEF Options
  <2>2. feedback \in [Units -> Int] /\ scale \in Nat
    BY <1>2
  <2>3. ends \in Seq(Parameters) /\ scores \in Seq(Nat) /\ Len(ends) = 0 /\ Len(scores) = 0
    BY <1>1, EmptySeq
  <2>4. result = [params |-> result.params, f1 |-> result.f1, pinned |-> result.pinned,
                  epochs_run |-> result.epochs_run]
    OBVIOUS
  <2>5. returned \in BOOLEAN
    OBVIOUS
  <2> HIDE DEF Init
  <2> QED
    BY <1>1, <1>5, <2>1, <2>2, <2>3, <2>4, <2>5 DEF Types
<1>7. LoopInv
  BY <1>1, TrainingAssumption DEF LoopInv, Options
<1>8. DalesLaw
  <2>1. ASSUME options.rule = "edla", NEW j \in Units
        PROVE  params.w2[j] * Polarity(j) >= 0
    <3>1. params.w2[j] = draw[j] * Polarity(j) /\ draw[j] \in Nat /\ Polarity(j) \in {1, -1}
      BY <1>2, <1>3, <1>4, <2>1
    <3> QED
      BY <3>1
  <2> QED
    BY <2>1 DEF DalesLaw
<1> QED
  BY <1>1, <1>6, <1>7, <1>8 DEF IInv, ReturnsTheBest, StopsOnPatience

LEMMA TrainBatchKeeps ==
    ASSUME IInv, TrainBatch
    PROVE  IInv'
<1>1. /\ Types /\ LoopInv /\ ~returned /\ ~returned'
      /\ options' = options /\ epoch' = epoch /\ best_f1' = best_f1 /\ since_best' = since_best
      /\ result' = result /\ returned' = returned /\ ends' = ends /\ scores' = scores
  BY DEF IInv, TrainBatch, loopVars
<1>2. scale' \in Nat
  BY <1>1, TrainingAssumption DEF TrainBatch, Types
<1>3. Types'
  BY <1>1, <1>2, BatchKeepsDale DEF Types
<1>4. LoopInv'
  BY <1>1 DEF LoopInv, CapturedAt, IsBest
<1> QED
  BY <1>1, <1>3, <1>4, BatchKeepsDale DEF IInv, ReturnsTheBest, StopsOnPatience

\* What EndEpoch adds to the history leaves its past alone.
LEMMA HistoryGrows ==
    ASSUME Types, NEW f1 \in Scores, EndEpoch(f1)
    PROVE  /\ epoch' = epoch + 1 /\ epoch < options.epochs /\ epoch \in Nat
           /\ ends' \in Seq(Parameters) /\ Len(ends') = epoch + 1 /\ ends'[epoch + 1] = params
           /\ \A k \in 1 .. epoch : ends'[k] = ends[k]
           /\ options.dev =>
                 /\ scores' \in Seq(Nat) /\ Len(scores') = epoch + 1 /\ scores'[epoch + 1] = f1
                 /\ \A k \in 1 .. epoch : scores'[k] = scores[k] /\ scores[k] \in Nat
           /\ ~options.dev => scores' = scores
<1>1. /\ epoch' = epoch + 1 /\ epoch < options.epochs /\ ends' = Append(ends, params)
      /\ options.dev => scores' = Append(scores, f1)
      /\ ~options.dev => scores' = scores
  BY DEF EndEpoch
<1>2. /\ params \in Parameters /\ ends \in Seq(Parameters) /\ Len(ends) = epoch
      /\ scores \in Seq(Nat)
      /\ options.dev => Len(scores) = epoch
      /\ epoch \in Nat /\ f1 \in Nat
  BY TrainingAssumption DEF Types
<1>3. /\ ends' \in Seq(Parameters) /\ Len(ends') = epoch + 1 /\ ends'[epoch + 1] = params
      /\ \A k \in 1 .. epoch : ends'[k] = ends[k]
  BY <1>1, <1>2, AppendProperties
<1>4. ASSUME options.dev
      PROVE  /\ scores' \in Seq(Nat) /\ Len(scores') = epoch + 1 /\ scores'[epoch + 1] = f1
             /\ \A k \in 1 .. epoch : scores'[k] = scores[k] /\ scores[k] \in Nat
  <2>1. scores' = Append(scores, f1) /\ Len(scores) = epoch /\ scores \in Seq(Nat) /\ f1 \in Nat
    BY <1>1, <1>2, <1>4
  <2>2. \A k \in 1 .. epoch : scores[k] \in Nat
    BY <2>1, LenProperties
  <2> QED
    BY <1>2, <2>1, <2>2, AppendProperties
<1> QED
  BY <1>1, <1>2, <1>3, <1>4

LEMMA EndEpochTypes ==
    ASSUME Types, NEW f1 \in Scores, EndEpoch(f1)
    PROVE  Types'
<1>1. /\ options' = options /\ params' = params /\ feedback' = feedback /\ scale' = scale
  BY DEF EndEpoch
<1>2. options \in Options /\ options.epochs \in Nat
  BY TrainingAssumption DEF Types, Options
<1>3. epoch' \in 0 .. options.epochs
  BY <1>2, HistoryGrows
<1>4. f1 \in Nat
  BY TrainingAssumption
<1>5. best_f1' \in Int /\ since_best' \in Nat
  BY <1>4 DEF EndEpoch, Types
<1>6. result' = [params |-> result'.params, f1 |-> result'.f1, pinned |-> result'.pinned,
                 epochs_run |-> result'.epochs_run]
  BY DEF EndEpoch, Types, Captured
<1>7. returned' \in BOOLEAN
  <2>1. returned' = returned \/ returned' = OutOfPatience(since_best')
    BY DEF EndEpoch
  <2>2. OutOfPatience(since_best') \in BOOLEAN
    BY DEF OutOfPatience
  <2> QED
    BY <2>1, <2>2 DEF Types
<1>8. /\ ends' \in Seq(Parameters) /\ Len(ends') = epoch'
      /\ scores' \in Seq(Nat)
      /\ options.dev => Len(scores') = epoch'
  BY HistoryGrows DEF Types
<1> QED
  BY <1>1, <1>3, <1>5, <1>6, <1>7, <1>8 DEF Types

LEMMA EndEpochKeeps ==
    ASSUME IInv, NEW f1 \in Scores, EndEpoch(f1)
    PROVE  IInv'
<1>1. Types /\ LoopInv /\ Types' /\ ~returned
  BY EndEpochTypes DEF IInv, EndEpoch
<1>2. /\ options' = options /\ params' = params /\ epoch' = epoch + 1 /\ epoch \in Nat
      /\ options.patience \in Nat /\ options.epochs \in Nat /\ f1 \in Nat
      /\ best_f1 \in Int /\ since_best \in Nat
      /\ epoch < options.epochs
  BY <1>1, HistoryGrows, TrainingAssumption DEF EndEpoch, Types, Options
<1>3. DalesLaw'
  BY <1>2 DEF IInv, DalesLaw
<1>4. CASE ~options.dev
  <2>1. /\ best_f1' = best_f1 /\ since_best' = since_best /\ returned' = returned
    BY <1>4 DEF EndEpoch
  <2>2. LoopInv'
    BY <1>1, <1>2, <1>4, <2>1 DEF LoopInv
  <2>3. ReturnsTheBest' /\ StopsOnPatience'
    BY <1>1, <2>1 DEF ReturnsTheBest, StopsOnPatience
  <2> QED
    BY <1>1, <1>3, <2>2, <2>3 DEF IInv
<1>5. CASE options.dev
  <2>1. /\ scores'[epoch + 1] = f1 /\ Len(scores') = epoch + 1 /\ Len(scores) = epoch
        /\ \A k \in 1 .. epoch : scores'[k] = scores[k] /\ scores[k] \in Nat
        /\ ends'[epoch + 1] = params /\ \A k \in 1 .. epoch : ends'[k] = ends[k]
    BY <1>1, <1>5, HistoryGrows DEF Types
  <2>2. PICK n \in Nat : n = epoch + 1
    BY <1>2
  <2>3. /\ epoch' = n /\ scores'[n] = f1 /\ Len(scores') = n /\ ends'[n] = params
    BY <1>2, <2>1, <2>2
  \* A new best: the epoch that has just ended.
  <2>4. CASE f1 > best_f1
    <3>1. /\ best_f1' = f1 /\ since_best' = 0 /\ returned' = returned
          /\ result' = [Captured(params, f1) EXCEPT !.epochs_run = epoch + 1]
      BY <1>5, <2>4 DEF EndEpoch
    <3>2. result'.params = params /\ result'.f1 = f1 /\ result'.pinned = Pinned(params)
      BY <1>1, <3>1 DEF Captured, Types
    <3>3. ASSUME NEW k \in 1 .. epoch
          PROVE  scores[k] < f1
      <4>1. PICK e \in 1 .. epoch : CapturedAt(e)
        BY <1>1, <1>2, <1>5 DEF LoopInv
      <4>2. scores[k] <= scores[e]
        <5>1. CASE k = e
          BY <2>1, <5>1
        <5>2. CASE k < e
          BY <2>1, <4>1, <5>2 DEF CapturedAt, IsBest
        <5>3. CASE k > e
          BY <1>2, <2>1, <4>1, <5>3 DEF CapturedAt, IsBest
        <5> QED
          BY <1>2, <5>1, <5>2, <5>3
      <4> QED
        BY <1>2, <2>1, <2>4, <4>1, <4>2 DEF CapturedAt
    <3>4. IsBest(n)'
      BY <1>2, <2>1, <2>2, <2>3, <3>3 DEF IsBest
    <3>5. Pinned(ends[n])' = Pinned(params)
      BY <2>3 DEF Pinned
    <3>6. CapturedAt(n)'
      BY <1>2, <2>3, <3>1, <3>2, <3>4, <3>5 DEF CapturedAt
    <3>7. LoopInv'
      BY <1>1, <1>2, <1>5, <2>2, <2>3, <3>1, <3>6 DEF LoopInv
    <3>8. ReturnsTheBest' /\ StopsOnPatience'
      BY <1>1, <3>1 DEF ReturnsTheBest, StopsOnPatience
    <3> QED
      BY <1>1, <1>3, <3>7, <3>8 DEF IInv
  \* The best stays, one epoch further back.
  <2>5. CASE ~(f1 > best_f1)
    <3>1. /\ best_f1' = best_f1
          /\ since_best' = IF options.patience > 0 THEN since_best + 1 ELSE since_best
          /\ result' = [result EXCEPT !.epochs_run = epoch + 1]
          /\ returned' = OutOfPatience(since_best')
      BY <1>5, <2>5 DEF EndEpoch
    <3>2. epoch > 0
      BY <1>1, <1>2, <2>5 DEF LoopInv
    <3>3. PICK e \in 1 .. epoch : CapturedAt(e)
      BY <1>1, <3>2, <1>5 DEF LoopInv
    <3>4. e \in 1 .. n /\ scores'[e] = scores[e] /\ ends'[e] = ends[e]
      BY <1>2, <2>1, <2>2
    <3>5. IsBest(e)'
      <4>1. \A k \in 1 .. e - 1 : scores'[k] < scores'[e]
        BY <1>2, <2>1, <3>3, <3>4 DEF CapturedAt, IsBest
      <4>2. ASSUME NEW k \in e + 1 .. n PROVE scores'[k] <= scores'[e]
        <5>1. CASE k = n
          BY <1>2, <2>1, <2>3, <2>5, <3>3, <3>4, <5>1 DEF CapturedAt
        <5>2. CASE k # n
          BY <1>2, <2>1, <2>2, <3>3, <3>4, <5>2 DEF CapturedAt, IsBest
        <5> QED
          BY <5>1, <5>2
      <4> QED
        BY <2>3, <4>1, <4>2 DEF IsBest
    <3>6. Pinned(ends[e])' = Pinned(ends[e])
      BY <3>4 DEF Pinned
    <3>7. result'.params = result.params /\ result'.f1 = result.f1 /\ result'.pinned = result.pinned
      BY <1>1, <3>1 DEF Types
    <3>8. since_best' = IF options.patience > 0 THEN n - e ELSE 0
      BY <1>2, <2>2, <3>1, <3>3 DEF CapturedAt
    <3>9. CapturedAt(e)'
      BY <1>2, <2>3, <3>1, <3>3, <3>4, <3>5, <3>6, <3>7, <3>8 DEF CapturedAt
    <3>10. LoopInv'
      <4>1. (\E d \in 1 .. epoch : CapturedAt(d))'
        BY <2>3, <3>4, <3>9
      <4>2. ASSUME ~returned', options.patience > 0 PROVE since_best' < options.patience
        <5>1. ~OutOfPatience(since_best')
          BY <3>1, <4>2
        <5>2. ~(since_best' >= options.patience) /\ since_best' \in Nat
          BY <1>2, <3>1, <4>2, <5>1 DEF OutOfPatience
        <5> QED
          BY <1>2, <5>2
      <4>3. epoch' # 0 /\ options'.dev /\ options'.patience = options.patience
        BY <1>2, <1>5, <2>2, <2>3
      <4> QED
        BY <1>2, <4>1, <4>2, <4>3 DEF LoopInv
    <3>11. ReturnsTheBest'
      BY <1>2, <1>5, <2>3, <3>4, <3>9 DEF ReturnsTheBest, CapturedAt
    <3>12. StopsOnPatience'
      <4>1. ASSUME returned' PROVE options.patience > 0 /\ n - e = options.patience
        <5>1. options.patience > 0 /\ since_best' >= options.patience
          BY <3>1, <4>1 DEF OutOfPatience
        <5>2. since_best < options.patience
          BY <1>1, <1>5, <5>1 DEF LoopInv
        <5> QED
          BY <1>2, <3>1, <3>8, <5>1, <5>2
      <4>2. CASE ~returned'
        BY <4>2 DEF StopsOnPatience
      <4>3. CASE returned'
        <5>1. options'.dev /\ options'.patience = options.patience /\ options.patience > 0
              /\ epoch' - e = options.patience
          BY <1>2, <1>5, <2>3, <4>1, <4>3
        <5>2. e \in 1 .. epoch' /\ IsBest(e)'
          BY <2>3, <3>4, <3>5
        <5>3. epoch' - e <= options'.patience /\ epoch' - e = options'.patience
          BY <1>2, <5>1
        <5> QED
          BY <5>1, <5>2, <5>3 DEF StopsOnPatience
      <4> QED
        BY <4>2, <4>3
    <3> QED
      BY <1>1, <1>3, <3>10, <3>11, <3>12 DEF IInv
  <2> QED
    BY <2>4, <2>5
<1> QED
  BY <1>4, <1>5

LEMMA FinishKeeps ==
    ASSUME IInv, Finish
    PROVE  IInv'
<1>1. /\ Types /\ LoopInv /\ DalesLaw /\ ~returned /\ returned' /\ returned' = TRUE
      /\ options' = options /\ params' = params /\ feedback' = feedback /\ scale' = scale
      /\ epoch' = epoch /\ best_f1' = best_f1 /\ since_best' = since_best
      /\ ends' = ends /\ scores' = scores /\ epoch = options.epochs
  BY DEF IInv, Finish
<1>2. result' = IF ~options.dev \/ best_f1 < 0
                THEN [result EXCEPT !.params = params, !.pinned = Pinned(params)]
                ELSE result
  BY DEF Finish
<1>3. epoch \in Nat /\ options.patience \in Nat /\ since_best \in Nat /\ best_f1 \in Int
  BY <1>1, TrainingAssumption DEF Types, Options
<1>4. Types'
  BY <1>1, <1>2 DEF Types
<1>5. DalesLaw'
  BY <1>1 DEF DalesLaw
<1>6. CASE options.dev /\ epoch > 0
  <2>1. PICK e \in 1 .. epoch : CapturedAt(e)
    BY <1>1, <1>6 DEF LoopInv
  <2>2. scores[e] \in Nat
    BY <1>1, <1>6, LenProperties DEF Types
  <2>3. result' = result
    BY <1>2, <1>6, <2>1, <2>2 DEF CapturedAt
  <2>4. CapturedAt(e)' /\ IsBest(e)'
    BY <1>1, <2>1, <2>3 DEF CapturedAt, IsBest, Pinned
  <2>5. LoopInv'
    BY <1>1, <1>3, <1>6, <2>4 DEF LoopInv
  <2>6. ReturnsTheBest'
    BY <1>1, <1>6, <2>4 DEF ReturnsTheBest, CapturedAt
  <2>7. StopsOnPatience'
    <3>1. options.patience > 0 => epoch - e <= options.patience
      BY <1>1, <1>3, <1>6, <2>1 DEF LoopInv, CapturedAt
    <3> QED
      BY <1>1, <1>3, <2>4, <3>1 DEF StopsOnPatience
  <2> QED
    BY <1>4, <1>5, <2>5, <2>6, <2>7 DEF IInv
<1>7. CASE ~(options.dev /\ epoch > 0)
  <2>1. best_f1 = -1 /\ since_best = 0
    BY <1>1, <1>3, <1>7 DEF LoopInv
  <2>2. result'.params = params /\ result'.pinned = Pinned(params)
    BY <1>1, <1>2, <2>1 DEF Types
  <2>3. Pinned(params)' = Pinned(params)
    BY <1>1 DEF Pinned
  <2>4. LoopInv'
    BY <1>1, <1>3, <1>7, <2>1 DEF LoopInv
  <2>5. ReturnsTheBest' /\ StopsOnPatience'
    BY <1>1, <1>3, <1>7, <2>2, <2>3 DEF ReturnsTheBest, StopsOnPatience
  <2> QED
    BY <1>4, <1>5, <2>4, <2>5 DEF IInv
<1> QED
  BY <1>6, <1>7

LEMMA StepInvariant == IInv /\ [Next]_vars => IInv'
<1> SUFFICES ASSUME IInv, [Next]_vars PROVE IInv'
  OBVIOUS
<1>1. CASE TrainBatch
  BY <1>1, TrainBatchKeeps
<1>2. ASSUME NEW f1 \in Scores, EndEpoch(f1) PROVE IInv'
  BY <1>2, EndEpochKeeps
<1>3. CASE Finish
  BY <1>3, FinishKeeps
<1>4. CASE UNCHANGED vars
  BY <1>4 DEF IInv, Types, LoopInv, CapturedAt, IsBest, Pinned, ReturnsTheBest,
              StopsOnPatience, DalesLaw, vars, loopVars
<1> QED
  BY <1>1, <1>2, <1>3, <1>4 DEF Next

-----------------------------------------------------------------------------
\* Every reachable state of either training loop satisfies the loop invariant.
THEOREM Invariance == Spec => []IInv
<1>1. Init => IInv
  BY InitInvariant
<1>2. IInv /\ [Next]_vars => IInv'
  BY StepInvariant
<1> QED
  BY <1>1, <1>2, PTL DEF Spec

LEMMA TypeStep ==
    ASSUME IInv, TypeOK, [Next]_vars
    PROVE  TypeOK'
<1> DEFINE Rest ==
        /\ scale # 0 /\ batch \in 0 .. options.batches
        /\ best_f1 \in Scores \cup {-1} /\ since_best \in 0 .. options.patience
        /\ result.epochs_run = epoch /\ scores \in Seq(Scores)
<1>1. IInv' /\ Types' /\ Types /\ LoopInv
  BY StepInvariant DEF IInv
<1>2. /\ options' \in Options /\ params'.steps \in Nat /\ params'.w2 \in [Units -> Int]
      /\ feedback' \in [Units -> Int] /\ scale' \in Nat
      /\ epoch' \in 0 .. options'.epochs /\ returned' \in BOOLEAN /\ Len(ends') = epoch'
  BY <1>1 DEF Types, Parameters
<1>3. /\ options.batches \in Nat /\ options.patience \in Nat /\ epoch \in Nat
      /\ since_best \in Nat /\ scale \in Nat /\ Rest
  BY <1>1, TrainingAssumption DEF Types, Options, TypeOK
<1>4. CASE TrainBatch
  <2>1. /\ batch' \in 0 .. options.batches /\ options' = options
        /\ UNCHANGED <<epoch, best_f1, since_best, result, scores>>
    BY <1>3, <1>4 DEF TrainBatch, loopVars
  <2>2. scale' # 0
    <3>1. KeepDen \in Nat \ {0} /\ scale * KeepDen # 0
      BY <1>3, TrainingAssumption
    <3> QED
      BY <1>3, <1>4, <3>1 DEF TrainBatch
  <2> QED
    BY <1>2, <1>3, <2>1, <2>2 DEF TypeOK
<1>5. ASSUME NEW f1 \in Scores, EndEpoch(f1) PROVE TypeOK'
  <2>1. /\ batch' = 0 /\ options' = options /\ scale' = scale /\ epoch' = epoch + 1 /\ ~returned
        /\ best_f1' \in {best_f1, f1}
    BY <1>5 DEF EndEpoch
  <2>2. result'.epochs_run = epoch + 1
    BY <1>1, <1>5 DEF EndEpoch, Captured, Types
  <2>3. scores' \in Seq(Scores)
    <3>1. scores' = scores \/ scores' = Append(scores, f1)
      BY <1>5 DEF EndEpoch
    <3>2. scores \in Seq(Scores)
      BY <1>3
    <3>3. Append(scores, f1) \in Seq(Scores)
      BY <1>5, <3>2, AppendProperties
    <3> QED
      BY <3>1, <3>2, <3>3
  <2>4. since_best' \in 0 .. options.patience
    <3>1. CASE since_best' = since_best \/ since_best' = 0
      BY <1>3, <3>1
    <3>2. CASE options.dev /\ options.patience > 0 /\ since_best' = since_best + 1
      <4>1. since_best < options.patience
        BY <1>1, <2>1, <3>2 DEF LoopInv
      <4> QED
        BY <1>3, <3>2, <4>1
    <3> QED
      BY <1>5, <3>1, <3>2 DEF EndEpoch
  <2>5. batch' \in 0 .. options'.batches /\ best_f1' \in Scores \cup {-1} /\ scale' # 0
    BY <1>3, <1>5, <2>1
  <2> QED
    BY <1>2, <2>1, <2>2, <2>3, <2>4, <2>5 DEF TypeOK
<1>6. CASE Finish
  <2>1. UNCHANGED <<options, scale, epoch, batch, best_f1, since_best, scores>>
    BY <1>6 DEF Finish
  <2>2. result'.epochs_run = result.epochs_run
    BY <1>1, <1>6 DEF Finish, Types
  <2> QED
    BY <1>2, <1>3, <2>1, <2>2 DEF TypeOK
<1>7. CASE UNCHANGED vars
  BY <1>2, <1>3, <1>7 DEF TypeOK, vars, loopVars
<1> QED
  BY <1>4, <1>5, <1>6, <1>7 DEF Next

\* The types of the loop's variables; the counter never exceeds the patience.
THEOREM TypeCorrect == Spec => []TypeOK
<1>1. Init => TypeOK
  <2> SUFFICES ASSUME Init PROVE TypeOK
    OBVIOUS
  <2>1. Types
    BY InitInvariant DEF IInv
  <2>2. /\ batch = 0 /\ scale = 1 /\ best_f1 = -1 /\ since_best = 0 /\ epoch = 0
        /\ result.epochs_run = 0 /\ scores = <<>>
    BY DEF Init
  <2>3. options.batches \in Nat /\ options.patience \in Nat
    BY <2>1, TrainingAssumption DEF Types, Options
  <2> QED
    BY <2>1, <2>2, <2>3, EmptySeq DEF Types, Parameters, TypeOK
<1>2. IInv /\ TypeOK /\ [Next]_vars => TypeOK'
  BY TypeStep
<1> QED
  BY <1>1, <1>2, Invariance, PTL DEF Spec

\* What train() returns is one epoch's: the first with the best dev score, or
\* the last parameters without a dev set or an epoch.
THEOREM ReturnsBest == Spec => []ReturnsTheBest
<1>1. IInv => ReturnsTheBest
  BY DEF IInv
<1> QED
  BY <1>1, Invariance, PTL

\* Training stops exactly patience epochs after the best, or runs them all.
THEOREM StopsExactly == Spec => []StopsOnPatience
<1>1. IInv => StopsOnPatience
  BY DEF IInv
<1> QED
  BY <1>1, Invariance, PTL

\* Under EDLA the output weights keep the sign of their unit's polarity.
THEOREM DaleHolds == Spec => []DalesLaw
<1>1. IInv => DalesLaw
  BY DEF IInv
<1> QED
  BY <1>1, Invariance, PTL

\* Each step of EDLA with learn_feedback shrinks the difference of feedback
\* and forward weight by the decay, and by nothing else.
THEOREM FeedbackFollows == Spec => FeedbackConverges
<1> DEFINE Shrinks ==
        options.learn /\ params' # params =>
            \A j \in Units : feedback'[j] - params'.w2[j] = KeepNum * (feedback[j] - params.w2[j])
<1>1. IInv /\ [Next]_vars => [Shrinks]_vars
  <2> SUFFICES ASSUME IInv, Next PROVE Shrinks
    OBVIOUS
  <2>1. CASE TrainBatch
    BY <2>1, BatchKeepsDale DEF IInv
  <2>2. ASSUME NEW f1 \in Scores, EndEpoch(f1) PROVE Shrinks
    BY <2>2 DEF EndEpoch
  <2>3. CASE Finish
    BY <2>3 DEF Finish
  <2> QED
    BY <2>1, <2>2, <2>3 DEF Next
<1> QED
  BY <1>1, Invariance, PTL DEF Spec, FeedbackConverges
=============================================================================
