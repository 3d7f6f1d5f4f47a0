# cpp-segmentlib: a formal model

TLA+ modules, TLC runs and TLAPS proofs for
[cpp-segmentlib](https://github.com/yhirose/cpp-segmentlib), a word segmenter
for Japanese with three backends behind one `Segmenter` (a KyTea reader, an
MLP and an EDLA-trained network), a `predict` filter and a `train` command.
Paths below are relative to the repository; every definition's lines of code
are in `PROJECT.json` under `map`.

Run a check with `tlc -config X.cfg M` and the proofs with `tlapm M.tla`.

## 1. The system

### Parts, their state and operations

| Part | Code | State it keeps | Operations |
|---|---|---|---|
| Batch runner | `include/segmentlib/segmenter.h` | per call: atomic cursor, result slots, recorded exception, thread pool | `run_batch`, `tokenize_all` |
| Loading | `segmenter.h`, `support/file.h` | the immutable model behind the `Segmenter` | `load`: sniff the signature, read the file, parse |
| Model export | `src/mlp/train/exporter.cpp` | a file on disk and its `.tmp` | `export_model`: write beside, rename over |
| Grapheme breaker | `include/segmentlib/unicode/egc.h` | five members, a few bytes | `next`, `reset`, `egc_split` |
| KyTea automaton | `kytea/automaton.h` | double array, failure links, outputs, root table (built once) | `read`, `build_canonical`, `match` |
| KyTea scorer, backend | `kytea/scorer.h`, `kytea/kytea_backend.h` | the thread's scratch (`seen`, `touched`, buffers) | `tokenize`, `score_boundaries_into` |
| KyTea file, char table | `kytea/model.h`, `kytea/char_table.h` | immutable after load | field-by-field parsing and checks, interning of characters |
| MLP file, vocabulary | `mlp/model.h`, `mlp/vocab.h` | immutable after load | sections in order, their checks, the bias range |
| MLP scorer, kernels, matcher | `mlp/{scorer,kernels,precompute,dictionary}.h` | immutable model, per-thread workspace | window encoding, table and fallback blocks, fused kernels, dictionary features |
| EDLA backend | `ed/*.h` | as MLP | delegates to the MLP backend |
| Corpus formats | `output.h`, `src/mlp/train/corpus.cpp` | parser state of a line | `append_full_line`, `parse_full_line`, `parse_partial_line` |
| Examples | `src/mlp/train/example.cpp` | flattened `ExampleSet` with running offsets | `build_examples` |
| Trainers, EDLA rule | `src/mlp/train/trainer.cpp`, `src/ed/train/*` | parameters, best epoch, patience counter, feedback weights | epochs, `project_dale`, `track_feedback` |
| Optimizers, nets, batches | `src/mlp/train/{adam,sgd,net,dataset,quantize,cpu_blas}.cpp` | moments, buffers | floating-point steps |
| `predict` | `src/cli/predict_command.cpp` | block of lines, line counter, stdio buffers | `run_predict` |
| `train`, `main` | `src/cli/train_command.cpp`, `main.cpp` | options | corpora, examples, training, export in a row |
| Bytes, UTF-8, support | `bytes/`, `unicode/utf8.h`, `support/` | none | total functions |

### How they interact

* `predict` loads a model once, then hands blocks of lines to `tokenize_all`,
  which is `run_batch` over the backend's `tokenize`. The backends are shared by
  all threads and immutable; what a call leaves behind lives in `thread_local`
  scratch. So threads meet in `run_batch`'s frame only, and a thread's calls meet
  each other in its scratch only. The two are modelled apart for that reason.
* `train` parses corpora (which `predict` may have written), aligns the marks
  with grapheme clusters, trains, and exports; `load` may read the target at any
  moment, from another process.
* What a loader checks is what the scorer's unchecked indexing relies on: the
  runs of both scorers start from a file, which they load or refuse, and score
  with what came out. The automaton's layout is a module of its own (`Automaton`).
* The trainer evaluates the quantized model by its own integer reference before
  it exports; the exported file, loaded, must score as the reference did.

### What is hard

1. *Interleavings*: chunk claims, the stop store that moves the cursor back,
   several exceptions at once, joins before the frame is left.
2. *Partial failure*: a refused thread, an allocation failure in the middle of a
   mark, a write whose flush fails, a device that takes half of the buffer, an
   exception nobody catches.
3. *Crash and concurrency on disk*: a killed export, a load that opens the path
   twice around a rename.
4. *State that outlives a call*: the scratch shared by sentences and models, a
   breaker reused, the best parameters captured while the loop goes on.
5. *Indices in two spaces*: code points, clusters and bytes; file order and slot
   order; a sentence's rows and the flattened arrays.
6. *Narrow words*: 16-bit ids that wrap, kernels that wrap or saturate, options
   that are cast to the fields of a header.
7. *Ends*: termination of `match`, of `run_predict`, of the batch.

`PROJECT.json` lists each under `hazards` at its line, with the properties that
catch it.

## 2. Modules

| Module | Models | State and actions |
|---|---|---|
| `BatchMap` | what `run_batch` promises: the sequential map, or one of the exceptions | `outcome`; `Return`, `Throw` |
| `BatchRun` | `detail::run_batch` | one action per access to shared state: `Claim` is the `fetch_add` with its test, `Item`/`ItemThrows` one `fn` call, `StopOthers` the store, `RecordFailure` the critical section; `Spawn`, `StopSpawning`, `Join`, `Leave` are the calling thread |
| `BatchRunProofs` | proofs about `BatchRun` | |
| `GraphemeRules` | UAX #29 as `egc.h` cites it, over the whole text | operators only |
| `GraphemeBreaker` | `GraphemeBreaker::next`, `reset` | the code's members; `Feed(c)`, `Reset`; `fed` is history |
| `PredictStream` | `run_predict` after the load | stream, block, counters, stdio's buffer and the device; one action per `getline`, per line written, per end |
| `PredictCommand` | all of `run_predict`: arguments, load, then `PredictStream` | `Parse`, `Load`, `Segment` |
| `PredictStreamProofs` | proofs about both | |
| `ModelFile` | `export_model` against `Segmenter::load` | names to files, files to parts, the models a parser accepts; one action per system call, each with its failure, and `Crash` |
| `TrainCommand` | `main` and `run_train` around `ModelFile`: commands one after another, loads by others meanwhile | `cmd`; one action per file read, `BuildExamples`, `Train` (with `Quantize`), the export's steps, `Uncaught`, `Kill`; `Accepts` is what the loader checks of an exported network |
| `TrainCommandProofs` | proofs about `ModelFile` and `TrainCommand` | |
| `Automaton` | `kytea::Automaton` | `ReadState`, `PlaceChildren`, `Remap`, `FollowFailure`, `Consume`, ... and the rejections |
| `AutomatonProofs` | proofs about `Automaton` | |
| `Unicode` | UTF-8 and the normalization, over real bytes | operators only |
| `KyteaModel` | the KyTea file, section by section, and the character table | operators on a file, a sequence of fields |
| `KyteaScorer` | a load, then `KyteaBackend::tokenize` and the scorer, call after call on one thread | model, scores, scratch; one action per match and per mark, allocation failures |
| `MlpKernels` | words that wrap and words that saturate, the three kernels, the cell table | operators only |
| `MlpDictionary` | the dictionary matcher: words over clusters, sides, lengths, sets | operators only |
| `MlpModel` | the MLP and EDLA file: sections, checks, vocabulary | operators only |
| `MlpQuantize` | `Int16Reference`, the trainer's evaluation of a quantized model | operators only |
| `MlpTokenizer` | a load, then `MlpBackend::tokenize` and `EdBackend`, text after text | model, clusters, blocks, scratch, accumulators; one action per block encoded and per boundary |
| `MlpTokenizerProofs` | proofs about `GraphemeBreaker` and, on the clusters it finds, about `MlpTokenizer`'s words and indices | |
| `Corpus` | `append_full_line`, the line splitter, both parsers | one action per item of a line |
| `Examples` | `build_examples` | one action per gap, `Store`, the skips |
| `TrainingData` | `Corpus` then `Examples`, as `train_command.cpp` composes them | |
| `Training` | `mlp::train::train` and `ed::train::train` with the EDLA rule | `TrainBatch`, `EndEpoch`, `Finish` |
| `TrainingProofs` | proofs about `Training` | |
| `KyteaScorerProofs` | proofs about the scratch, the indices, the scores, the words and the ids of `KyteaScorer` | |
| `TrainingDataProofs` | proofs about the corpus parsers, what they read of `predict`'s lines, what `build_examples` is given and what it makes of it | |
| `MC*` | the constants of the runs | |

`BatchRun` implements `BatchMap` under a refinement mapping
(`Abstract == INSTANCE BatchMap WITH ... outcome <- outcome`, `ImplementsMap`).
`TrainCommand` extends `ModelFile` and implements its `Spec`: a train command moves
the files by `ModelFile`'s steps only. `PredictCommand` extends `PredictStream` in
the same way. `TrainingData` composes `Corpus` and `Examples`, which share only the
sentences. `PredictStream` uses `tokenize_all` as `BatchRun` shows it to be: a
result per line, in order, or an exception. `MlpTokenizer` finds its clusters by
`GraphemeRules`, which `GraphemeBreaker` is proved to implement. `KyteaScorer`
matches by the goto graphs that `Automaton` shows the double array to represent.

### Abstractions worth knowing

* **Data.** A text in `BatchRun` and a line in `PredictStream` is its index; a
  result is the index of its text, so a result in the wrong slot is visible.
  In `GraphemeBreaker` a code point is its record of properties, in `Automaton` a
  `CharId`, in `Corpus` a character that means something to the formats or "x".
* **stdio** (`PredictStream`). `fwrite` buffers or hands on; a flush that fails
  delivers a prefix and may keep the rest for `exit`. This part stands for the
  C library and is marked external.
* **What an optimizer adds** (`Training`) is any value of `Deltas`. The weights
  are integers over the common denominator `scale`, so that the decay
  `KeepNum / KeepDen` is exact; rounding is out of the model. `evaluate()` is any
  sequence of F1 values.
* **The free list** (`Automaton`) is always in ascending order, so it is a set, and
  abandoning its head is abandoning its least elements.
* **Features** (`Examples`) found at a boundary are copies of the pair of the
  sentence and the boundary, so a feature at the wrong example is visible.
* **Files to parse** (`KyteaModel`, `MlpModel`) are sequences of fields or units, one
  for each number; a reader that runs off the end is the error it is. What the
  writers write (KyTea's layout, `serialize_model`) is an operator of its own, so
  that a load is checked against what was written. A double is an exact fraction.
* **Words of reduced width.** An `int16_t` of the kernels has `Bits` bits and an
  `int32_t` twice as many; character ids have `IdBits`; the fields of an exported
  header end at `MaxByte` and `MaxWord`. Everything that wraps, saturates or is cast
  in the code does so there, at values a small instance reaches.
* **The FST** (`MlpDictionary`) that holds the words is a function from words to set
  ids; it is third-party code. What it may hold in a damaged file is any set id.
* **Texts** in `KyteaScorer` are real UTF-8 bytes; in `MlpTokenizer` they are code
  points of a small alphabet with encodings of one to three bytes.
* **An argument** (`TrainCommand`, `PredictCommand`) is a token, and constants say
  what `from_chars` makes of it.
* **Trained parameters** (`TrainCommand`) are the four magnitudes that decide whether a
  loader takes the file: the largest of `b1`, `b2` and `w2`, and the percentile of the
  activations, a number, an infinity or a NaN (`TrainedMagnitudes`). `Quantize` makes
  `acc_scale` and `w2_scale` of them; `IsScale` and `BiasesInRange` are `read_scale` and
  `check_biases`, in integers. The other scales are those of finite tensors and pass.
* **`KyteaScorer`** scores integers without width. `MarkThrows` is the one
  allocation whose failure leaves the scratch dirty; the others, whose containers
  are as they were afterwards, are `EncodeFails` and `AllocationThrows`.
* **A crash** in `ModelFile` is the end of the process between two steps; what it
  wrote stays. Power loss, where the data may not have reached the disk when the
  rename did, is not modelled (the code does not sync).

## 3. Runs

`CHECK_DEADLOCK FALSE` is set where the modelled program ends (a call returns, a
process exits) or where a bound ends the behaviour; `GraphemeBreaker`, which can
always be reset, is checked for deadlock.

| Run | Bounds | What it shows |
|---|---|---|
| `BatchRun` | 5 texts, chunks of 2, 1 to 3 threads requested or the hardware's (which reports 0), every set of throwing texts | slots disjoint, nothing lost, stop permanent, no thread outlives the call, the call is the map and ends |
| `GraphemeBreaker` | the 19 property records that occur in the generated table, texts of up to 4 code points, counter modulo 2 | the incremental breaker agrees with UAX #29 |
| `PredictStream` (of `PredictCommand`) | blocks of 2, streams of up to 5 lines, any invalid lines; all argument lists of up to 3 of 8 tokens and some of 4 and 6; at most 4 threads | output, line number and status tell the truth; every command does what it was told, and ends |
| `Training` | 2 units (one of each polarity), up to 4 epochs, patience up to 2, 0 or 1 batches, 3 scores, steps -2 and 1, decay one half | best epoch, early stopping, Dale's law, Kolen-Pollack |
| `ModelFile` (of `TrainCommand`) | 2 commands of 41 (5 accepted at the limits of every option, the rest refused, each for another reason), 2 loads, models of 2 parts; header fields of at most 3 and 7; 6 trained networks (all zero, biases at and past their limits, activations that overflow) | target whole and never lost, loads consistent, exit status true |
| `Automaton` | free list of 2 slots; dictionaries compiled from 2 or 3 words over a sparse alphabet, all of two states with anything in range or just out of it, many of three | exactly the well formed are accepted, the double array is the graph, matching exact and finite |
| `KyteaScorer` | 2 refused loads or calls; three good files (dictionaries and tag sections of every kind, a repeating character map, a map longer than the ids), an odd one, 13 damaged ones, every truncation of the first; 14 texts of up to 3 characters, malformed ones included; ids of 4 bits | a load is exact or refused, ids by first appearance, no index out of bounds, scores exact, words partition the text |
| `MlpTokenizer` | 2 refused loads or calls; an MLP file with two dictionaries, an EDLA file with a window of 2 and a bias near the limit, a small EDLA file with 13 variants and every truncation; 6 texts; words of 5 and 10 bits; scalar, NEON and AVX2 | a load is what was exported or refused, no index out of bounds, features exact, scores are the trainer's, fused is sequential, precisions agree, words partition the text |
| `TrainingData` | every full line of up to 4 and partial line of up to 5 characters, all ways to cut texts of up to 3 characters into words, every clustering | parsers, round trip and examples |
| `TrainingPinned`, `KyteaScorerDirty`, `TrainUnloadable` (of `ModelFile`) | as the run they belong to | the findings of section 6 |

Why these bounds are enough to meet the interesting cases:

* *BatchRun*: 5 texts in chunks of 2 give two whole chunks and a clipped one, and
  with 3 threads a thread may claim a second chunk, overshoot the cursor, or start
  after the batch is over. Chunks of 2 let a throw abandon a slot. The proofs of
  section 5 remove the bounds.
* *GraphemeBreaker*: the longest left context of a rule that the state summarises
  is three code points (Pictographic Extend ZWJ, or three regional indicators);
  modulus 2 wraps the counter inside the text. The proof removes the bounds.
* *PredictStream*: 5 lines in blocks of 2 give the empty stream, full, short and
  exactly full last blocks, and an invalid line at every place of the second.
* *Training*: 4 epochs with a patience of 2 let patience run out before the end,
  exactly at it, or not at all, after any best epoch; one unit of each polarity is
  all that the rule distinguishes; the steps -2 and 1 cross zero and meet it.
* *ModelFile*: the second export meets what the first left (a half written or a
  whole `.tmp`, a missing target); two parts make a file that is truncated. Each
  option has a value at its limit and one just past it, and the casts wrap there.
  The proofs of section 5 remove the bounds and the widths.
* *Automaton*: the compiled dictionaries have nested suffixes (failure chains of
  two, several outputs at a state) and characters apart enough that states
  interleave in the table and the free list overflows its two slots.
* *KyteaScorer*: windows of 1 and 2 exceed the sentence at both ends; words as
  long as the sentence and longer than `dict_n`; the second call has another
  length, another stride or another model than the first. The longest character
  map passes the last id and meets the reserved 0.
* *MlpTokenizer*: five hidden units fill one register of four lanes and leave a
  scalar tail of one; five-bit words saturate and ten-bit ones wrap; the texts have
  clusters in the table, clusters that need a fallback block, unknown characters,
  an astral one and a malformed one, and are shorter and longer than the window.
* *TrainingData*: five characters hold a mark run, a tag and an escape together.

### Fairness

* `BatchRun!FairSpec`: weak fairness of the calling thread and of every worker.
  The operating system schedules every started thread, and `fn` terminates; the
  code takes one lock, around two statements, so weak fairness is enough. No
  order among threads is assumed. A thread that was refused never exists, and
  nothing is assumed of it.
* `PredictCommand!CommandFairSpec` and `Automaton!FairSpec`: weak fairness of the
  one sequential process. Streams are finite and a device answers, well or badly.
* `BatchMap!Spec` has the fairness that its implementation is shown to provide.

Other modules state no liveness: `Training`, `TrainingData` and both scorers are
loops over counters, and a train command may be killed at any step.

## 4. Properties, by the question they answer

* *Is the parallel call a map?* `DisjointSlots`, `NothingLost`, `StoppedForGood`,
  `NoWorkerOutlivesCall`, and all of it together `ImplementsMap`.
* *Does a few bytes of state suffice?* `BreaksByTheRules`, `StateMatchesText`.
* *Can the caller of `predict` trust it?* `OutputInOrder` (what is out is a prefix of
  what a line-by-line filter would write), `ReportsTheFirstInvalid`,
  `SuccessMeansComplete`, `EndsAsTold`.
* *Is a model file always usable?* `TargetIsWhole`, `TargetStays`,
  `FailureLeavesTarget`, `LoadIsConsistent`. The last says how far it goes: a backend
  refuses what it read when a model of another format was renamed in between the two
  opens, or when a whole model holds what its parser refuses; never for being half
  written. Memory that runs out is an outcome of its own.
* *Does the exit status of `train` tell what happened?* `ExitTellsTheTruth`: 0 means a
  whole model of the backend, window, dimensions and dictionaries asked for, which the
  loader refuses, if it does, for a scale or a bias out of range and for nothing else; 1
  and 2 that the target is as before. That the loader takes every model written with
  status 0 is `OwnLoaderAccepts`, which does not hold (section 6).
* *Does a malformed dictionary get past the checks?* `AcceptsTheWellFormed`,
  `StepIsGoto`, `MatchIsExact`, `Terminates`.
* *Is a model file read for what it is?* `LoadIsExact`, `IdsByFirstAppearance` (KyTea),
  `LoadIsFaithful` (MLP and EDLA: an exported file is never taken for a damaged one; it
  loads, or memory runs out for its table and the message says so, with the error code
  of a malformed model).
* *Do sentences disturb each other?* `ScoresExact`, `FeaturesExact`, `IndicesInBounds`,
  `WordsPartition`, each over several texts and models on one scratch.
* *Does narrow, fused, vectorized arithmetic decide as the trainer did?*
  `AgreesWithTrainer`, `FusedIsSequential`, `PrecisionsAgree`.
* *Does training see what the corpus says?* `TagPerGap`, `ReadsBackPredictions`
  (except that a carriage return at the end of a line is stripped on the way back),
  `ExamplesCarryTheMarks`, `OffsetsFindTheirOwn`.
* *Does training return what it promises?* `ReturnsTheBest`, `StopsOnPatience`,
  `DalesLaw`, `FeedbackConverges`.

Every property has a mutant in `PROJECT.json`: a plausible slip in the modelled
code (the operators with an underscore in their names) under which it fails.

## 5. Proofs

The proofs have the same shape: an invariant `IInv` that implies the property is
shown to hold initially and to be kept by every step, one lemma per action (or
per group that touches the same state), and `PTL` closes the temporal step.

### `BatchRunProofs` - for every number of texts, chunk size, request and hardware

Assumes `BatchAssumption`: `Size`, `Hardware` natural, `Chunk` a positive natural,
`Requests` naturals, `Empty` not a natural.

`DisjointSlots` alone is not inductive: that two chunks do not overlap follows
only from where the cursor has been. `IInv` adds

* `PhaseInv` - which workers exist in which phase of the calling thread, and that
  those joined are done;
* `CaughtInv` - an exception is held from the throw on, and is recorded before its
  worker is done;
* `CursorInv` - every chunk in hand ends below the cursor, slots at or above the
  cursor are untouched, and whoever is past the stop store (or done) leaves a
  cursor beyond the last text: this is what survives the store that moves the
  cursor *back*, since it never moves below `Size` and no chunk ends above it;
* `OutInv` - a slot is empty or holds its own result.

Theorems: `Invariance`, `TypeCorrect`, `SlotsDisjoint`, `NoSlotLost`,
`CallEndsLast`, `StopIsPermanent`, and `Refinement`: the initial states and every
step of `BatchRun` map to `BatchMap`'s (its safety part; that the call ends is
model-checked).

### `PredictStreamProofs` - for every stream, block size and behaviour of the device

Assumes `PredictAssumption` (a positive block size) and `PredictCommandAssumption`.

What is on the device says nothing by itself of what is still in stdio's buffer.
`IInv` ties together the three places a line can be: `BlockInv` (the block in hand is
what was taken since `line_no`), `OutputInv` (device and buffer hold consecutive
lines, all valid, and exactly those handed over unless the device failed),
`VerdictInv` (what the run has reported). `FlushOkOrder` and `FlushFailsOrder` say
what a flush, or a failed one, does to that order.

Theorems: `Invariance`, `TypeCorrect`, `OutputIsInOrder`, `ReportIsFirstInvalid`,
`SuccessIsComplete`, and `CommandImplementsStream`: `CommandSpec => Spec`, so all of
them hold of the command.

### `TrainCommandProofs` - for every number of parts, exports and loads, command line and width

Of the files alone (`ModelFile`), under `ModelFileAssumption`: `TargetIsWhole` needs to know what will be renamed, and
`LoadIsConsistent` what the target was when the load began. The argument is that a
file has one of three roles - what the target names, what a load has open, what the
exporter writes - and that the last is never one of the others: `NamesInv`, `ExportInv`
(the file at `.tmp` is a prefix of the model, and all of it at the rename),
`TargetInv`, `LoadInv` (a load knows every model the target has named since it began).

Theorems: `Invariance`, `TypeCorrect`, `TargetAlwaysWhole`, `FailureIsHarmless`,
`LoadsAreConsistent`, `TargetNeverVanishes`.

Of the commands, under `TrainCommandAssumption` as well: limits that are naturals and
`MaxEmbedDim <= MaxWord`. `CastIsExact` shows that no option that `InRange` lets
through loses anything in its cast; `CmdInv` carries the shape asked for through the
steps of the command, and `FormatInv` the format of the model being exported and whether
the loader accepts it. So `StatusIsTrue` rules out a refusal for the shape; it does not
rule out one for the scales and biases, which the code does not prevent.

Theorems: `CommandInvariance`, `StatusIsTrue`, and `CommandsImplementModelFile`:
`CommandSpec => Spec`, so the theorems about the files hold of the commands.

### `AutomatonProofs` - for every dictionary, well formed or not, text and cap of the free list

Assumes `AutomatonAssumption`: a dictionary is what `read` can decode, with numbers where
numbers are; nothing is assumed of what they say. `MatchIsExact` is about the dictionaries
that a writer made of words, and `WriterAssumption` says what they are: the states spell
the prefixes of the words, each once, a failure link leads to the longest shorter string
that the state's own ends with, and a state outputs the words its string ends with, longest
first. That is the Aho-Corasick automaton `docs/design.ja.md` (line 154) describes; it is
compiled by KyTea, outside this repository. TLC evaluates the assumption on the run's
dictionaries, which are compiled from their words. Of a dictionary without words nothing
more is assumed, and the other theorems do not use it.

`StepIsGoto` speaks of the built array, the argument of how it is built. `LayoutInv` holds
while states are placed: a state that is placed has a cell of its own (`CellsInv`), the
children of an expanded one are where its base and their characters put them
(`ChildrenInv`), and - the converse, which is what a wrong transition would break - a
cell whose check is a state's belongs to one of that state's children (`OwnersInv`).
`DepthInv` bounds a depth by the states placed, which is how `TablesInv` knows that
failure links that pass the check shorten. That abandoning the free list's oldest
cells never gives one out twice is in `CellsInv`: a closed cell stays closed.

`MatchIsExact` speaks of all the text read, at every step. `HeldInv` is what a failure link
must not lose: the string of the state held is an end of the text, and no longer end of it
is spelled by a state that the next character could leave (`Reaches`). A link that is
followed keeps it (`LinkReaches`, from the failure links' being longest), so the state
entered is the longest that the text with that character ends with (`LongestReaches`), and
its outputs are all the words that end there (`LongestOutputs`). `OneEndMore` adds them to
what was reported, `StepIsGoto` stands between the cells and the strings, and `OutInv` says
that the outputs have followed their state into its cell.

`AcceptsTheWellFormed` compares checks made one by one with a definition by paths, all of
them, so the proof goes through a third form of the same: a dictionary is well formed
exactly if it is in range and its states have depths under which it is a tree (`Tree`) with
links and entries that fit (`Linked`). `TreesAreWellFormed` counts the paths of a tree, one
per state; `WellFormedAreTrees` takes the depths from the paths, which end because there are
no more of them than states (`PathsEnd`). `GrowInv` says that what is placed grows as a
tree, with the depths that the code counts; `RefusedIsMalformed` that each refusal
contradicts any tree.

Theorems: `TypeCorrect` (with the cap of the free list and the bound of the stack),
`StepIsGotoHolds`, `ChecksAreExact`, `MatchesAreExact`, `MatchesInsideHolds` (`match` reads no cell, failure link or output
outside their arrays), `FailureShortensHolds`, the safety half of `Terminates`: every failure
link followed lowers the depth.

### `TrainingProofs` - for every network size, gradient, score, length and patience

Assumes `TrainingAssumption`. `ReturnsTheBest` and `StopsOnPatience` speak of the end;
`LoopInv` says on the way there that there is an epoch `e`, the first of the best so
far, whose parameters, score and pinned count are in the result, and that the
patience counter is the distance to it. `DalesLaw` and `FeedbackConverges` follow from
`BatchKeepsDale`: the projection puts a weight on its polarity's side, the decay
keeps it there, and the difference of feedback and forward weight loses what both
moved by.

Theorems: `Invariance`, `TypeCorrect`, `ReturnsBest`, `StopsExactly`, `DaleHolds`,
`FeedbackFollows`.

### `KyteaScorerProofs` - for every set of files and texts and every number of calls

`SeenClear` is not an invariant of the code (section 6). `ScratchInv` says what is:
as long as no mark has thrown, the flags set are among those remembered while the
words are gone through, and none is set at any other point - so neither a text that
does not decode, nor `bad_alloc` in `prepare` or at the cuts, nor another model in
between can leave one behind. No fact about the model or the text is used.

`IndicesInBounds` is where the loader and the hot path meet, and its invariant `BInv` says
what passes between them. `SoundModel` is what `Load` has checked of a model that it
returns (`LoadIsSound`: whatever the file holds): vectors as long as their windows,
word lengths within the strings they are reported at, features for every dictionary.
`SoundSentence` is what a text makes of it (`SentenceIsSound`): matches that end inside the
text and begin inside it. A mark then lies in a row and a column of its dictionary
(`MarksAreInSet`, `RowMajor`), and the flags cover all rows from `prepare` to the end of
the words, however much longer they have grown for other sentences (`SeenInv`).
Assumes `ScorerAssumption` (files are sequences of integers, those of the header's unsigned
fields natural; texts are bytes), `GraphsAssumption` (every goto graph has its root) and
`MapsAssumption` (character maps are bytes).
That the products fit the code's `int` is not part of it.

`WordsPartition` says that the words are the text. It stands on four facts, none of
which knows the state machine: bytes that `decode` accepts are what `encode` makes of
the code point (`DecodedIsEncoding`, length by length: the least code point of each length
is what rules the longer forms out); a character's bytes end where the next one's begin,
and the last one's at the end of the text (`OffsetsGrow`, from `CharactersChained`); the
words between the cuts follow on each other in the same way (`NthIs`, `BeforeNth`); and pieces
that do so join up to the text (`PiecesCover`). The invariant is then short: `TextInv`
says that a call keeps the sentence of its text until it is cut, and one step, `CutWords`,
has to be looked at.

The proof needs what recursive helpers return for every input. Induction is available in
one form: `WFMin` of the library with the order of the naturals gives `LeastNat`, from which
come `Induct` and the existence of the functions that `FlattenSeq` and `Characters` recur
by (`FlattensExists`, `CharsFromExists`).

`ScoresExact` compares what a call adds up with sums over sets, in whatever order. `Sums`
is the function that `MapThenSumSet` recurs by: it exists for every finite set
(`SumsExist`), and a sum grows by the term of an element that is added (`SumOfMore`,
because a sum can be taken apart at any of its elements, `SumsTakeApart`).

* For the n-grams, a match adds its term to every boundary: those its window was clipped
  to are those of the sentence that the window covers (`ClippedIsWindow`, `MatchAdds`).
* For the dictionaries, the marks of a word are the features it has at the boundaries
  (`MarksAreFeatures`), and no two features, of any two boundaries, share a flag
  (`SlotUnique`: a slot is read as its place in a row of a dictionary's rows). A feature
  that is flagged has been added and one that is not has not, so a second word that has it
  adds nothing.

`XInv` then says what a score is made of at each step; of the features, those flagged are in
the score, and those flagged or about to be marked are those of the words gone through.
`Prepare` starts with none flagged by `ScratchInv`: here is where a scratch that a thrown mark
left dirty would be felt, and why the property stops there.

`IdsByFirstAppearance` is an induction over the characters of a map: the table of the first
k gives each its rank, and the next id is one more than the number of different ones, as
long as that is an id at all (`RankedTo`, `NextIsRanked`). When the last id is given out
the counter wraps to 0 and the table is still right: that is the edge the bound of the
property is exact about. `LoadedInv` says that the model at hand is what its file loads as.

Theorems: `ScratchIsRestored`, `IndicesAreInBounds`, `WordsPartitionTheText`,
`ScoresAreExact`, `IdsAreRanks`.

### `MlpTokenizerProofs`, the breaker - for every text, property table and even modulus

Assumes `BreakerAssumption`: the records are property records, the modulus is a
positive even number (2^32 is), and no pictographic code point is itself a ZWJ
(true of Unicode's data; without it `NextGb11` and GB11 differ).

`BreaksByTheRules` speaks of the step just taken and needs what the state said of
the text before it: `StateMatchesText`. That in turn needs `RunInv`: there is a
maximal run of regional indicators at the end of the text whose length has the
counter's parity. The lemmas `LinkedAppend`, `PictographicAppend`, `RunUnique`,
`RunAppend`, `RunParity` say how each of the rules' left contexts changes when a
code point is appended; `ParityOfNext` is where the even modulus is used.

Theorems: `Invariance`, `TypeCorrect`, `ImplementsUAX29`, `StateIsSummary`.

### `MlpTokenizerProofs`, the backend - for every set of files and texts and every number of calls

Assumes `DictionaryAssumption` (a code point has bytes, `normalize` gives a code point that
has some, mask words and buckets have a size), `TokenizerAssumption` (a text is a sequence of
code points and of what does not decode) and `FilesAssumption` (a file is a sequence of units, the
fields the parser reads as unsigned are naturals). Nothing is assumed of what a file
says; the kernels and their widths are not used.

`WordsPartition` has the invariant `WordsInv`: while a call is at work its text decodes, the offsets in
`enc` are where the clusters of that text begin (`OffsetsOf`), and there is a score for
every boundary gone through. The rest is about one step, `Cut`, and is a lemma without
states, `CutsPartition`: the cuts partition the text for any scores. It uses that
offsets ascend strictly, because a code point has bytes (`ByteLengthGrows`, `OffsetsGrow`),
so that a boundary's place among the offsets is its index; and that `Ascending` lists a
finite set by rank (`AscendingIs`).

`IndicesInBounds` is the contract between the loader and three layers of unchecked
indexing. `BoundsInv` says what each hands to the next:

* `ModelSound`, of the loader: each field is read where the previous one ended and every
  check of the parser holds of it (`ParseIs`, `ChecksAre`, `GotIs`), so the table and the
  dictionary columns have room for every row, slot and column, the matcher's sets lie one
  behind the other in the array of channels, and channels are dictionaries (`ModelIsSound`).
* `EncodingSound`, of the encoder: the rows are rows of the embedding and no cluster is
  empty (`EncodingIsSound`).
* `SearchSound`, of the matcher's re-encoding: the byte starts of the clusters ascend in the
  normalized text and the reverse map from bytes agrees with them (`ReencodedIsSound`). So a
  hit is of one cluster at least, ends at one, and has a set id that exists (`HitsAreSound`),
  which is what the one check made while matching is for; its marks are boundaries
  of the text and features of the model (`MarksAreInBounds`).
* `FeaturesSound`: a bit set in a mask is a feature of its boundary, and no
  other: the place of a word in the flattened mask tells the boundary and the word
  (`RowOfElement`, `MarkedIsSound`). What is read off the masks again is then within
  `FeatureCount`, in one range for each boundary (`EmittedIsSound`).
* `Gathered`, of the scorer: every block is whole inside the table, the dictionary columns
  or the fallback scratch, resized (`GatheredFit`).

The scratch, which another text and another model may have left at any size, appears
in `BoundsInv` by its type alone.

Theorems: `WordsPartitionTheText`, `IndicesStayInBounds`.

### `TrainingDataProofs` - for every corpus, prediction and clustering

Assumes `CorpusAssumption`. `TagPerGap` speaks of sentences that are finished;
`LineInv` ties the tags to the text inside a line, one way per format: with full
annotation they are one behind the characters, with partial annotation one behind
when a mark is due and level when a character is. `BuiltFromTagPerGap` is the
assertion of `build_examples`, stated of its argument whenever that was parsed.

For `build_examples` itself the proof also assumes `OtherAssumption`: a sentence that a
caller brings and the encoder decodes has its clusters at its code points, the first at the
first, and the tags that the code asserts (`Encodable`); sentences that come from a
corpus have all this because of `TagPerGap`. Its invariant is `EInv`, in parts:

* `GapInv`: at gap g the next cluster is the number of clusters that start up to g, the
  labels so far are those of the supervised starts up to g, one each, and no `Bound` lay
  inside a cluster. `EgcBoundary` is the code's comment, that gap g is a boundary iff code
  point g + 1 starts a cluster: it rests on a cluster's number being its rank (`RankNext`,
  `StartOfRank`).
* `StoredInv`, `DoneInv`: who is stored deserves it, and of the sentences behind, whoever
  deserves it is stored.
* `ExampleInv`, `LayoutInv`, `FeatureInv`: the examples of a stored sentence, where its
  rows and cluster starts lie, and the features between two offsets. They survive an
  append because everything they speak of ends before the end of its array, which is why
  the bounds in `Laid` and in `FeatureInv` are part of them. The features of a new example
  are found by `JoinedParts`: a flattened sequence keeps each part where it was put.

`EInv` was model-checked before it was proved, in the states of the run `TrainingData`.

`ReadsBackPredictions` relates two functions that were written apart, and speaks of the
end only. How a line that `append_full_line` wrote lies is `Written`: where each
character of the text is, with an escape before it or not, and that a space follows the
ends of words and nothing else comes between. `LineIsWritten` shows it of every prediction, by
induction over the words and over the characters of a word. `ReadInv` then says of the
parser that it stands at one of these places and has read exactly the characters
before it, with a cut where a word ended (`ReadTo`). At such a place nothing in the line can be
refused or begin a tag (`NothingWrong`), and each action takes it to the next one. Of the
predictions `CorpusAssumption` says that they are words that decode; the property itself
leaves out lines whose last character is a carriage return, which the line splitter strips.

Theorems: `TagsFitTheText`, `BuildFindsItsTags`, `ExamplesAreTheMarks`, `OffsetsAreRight`,
`PredictionsAreReadBack`.

### Model-checked only

* Liveness (`ImplementsMap`'s progress, `EndsAsTold`, `Terminates`): fairness and `ENABLED`
  are out of the provers' reach. Of `Terminates`, `FailureShortensHolds` proves what can go
  wrong.
* What a file is read as (`LoadIsExact`, `LoadIsFaithful`): the files, and the models expected
  of them, are constants of the runs. That a parser reads back what a writer wrote of any
  model would be a round trip by induction over the sections and their recursive contents.
* What `MlpTokenizer` computes: `FeaturesExact`, `AgreesWithTrainer`, `FusedIsSequential`,
  `PrecisionsAgree`. They compare folds over words of a fixed width; the provers have no
  facts about `2 ^ n`, and the library's about `MapThenSumSet` and the folds take operators as
  parameters, which the provers cannot instantiate. Each such sum has to be proved
  about from its definition, as `KyteaScorerProofs` does for its integers without width.
* That the parsers of arguments agree with their usage.

The type invariants of `BatchRun`, `GraphemeBreaker`, `PredictStream`, `ModelFile`, `Automaton`
and `Training` are proved, and no run checks them again; those of the other modules are
stated as documentation or implied by the properties their runs check.

## 6. Findings

* `TrainingPinned` - comments in `edla.cpp` (14-15) and `edla.h` (99-100) say that a
  unit pinned at zero never leaves and gets no output-layer gradient; the gradient
  of `w2` does not read `w2`, and a step can move it off zero.
* `KyteaScorerDirty` - `mark` sets a flag before `touched.push_back`, which may
  throw: the scratch that the comment calls all-zero between calls is not, and the
  thread's next sentences lose those features without a sign.
* `TrainUnloadable` - `finish` checks that the parameters are finite and not that their
  activations are: after one batch with `--lr 1e25`, say, `quantize` (176-181) may write an
  infinite or NaN `acc_scale`, and `train` exits with 0. Its own loader refuses the file
  (`read_scale`; `check_biases` where a scale is small and a bias is not), which
  `train_exporter_test.cpp` (181-182) counts as an error and the check that `quantize.h`
  (35-36) asks of callers is there to prevent.

Noticed on the way, without a run: a comment in `predict_command.cpp` (27-29) says that
`run_batch` does not catch what a refused thread throws, but it does (`segmenter.h`,
86-93; `StopSpawning`) and completes the batch with fewer threads; the index that `predict_command.cpp` (122)
calls 1-based starts at 0 and counts the lines *before* the block, the reported
number being right; `exporter.h` describes raw word lists in the model file where
the code writes the compiled dictionary; `build_examples` counts unknown
boundaries of sentences it then skips.

## 7. Not modelled

* *Floating point* (nets, optimizers, batches, BLAS): its hazards are rounding and
  performance, which TLC does not evaluate. `MlpQuantize` computes with exact fractions.
  Adam's lazy rows and `fill_batch` have little control apart from it.
* *Statistics of quantization* (`check_sign_flips`) and of the corpora in messages.
* *The vendored FST library* (a function from words to ids here), the property and
  normalization tables (constants here), generators, benchmarks, tests.
* *Byte readers and writers*: fields are read whole; `int32` overflow of an automaton's
  `base`, which needs hundreds of millions of states, is not modelled.
* *Memory that runs out of a load elsewhere* than in `mlp::Model::load_format`: while
  `read_model_file` makes its buffer, or in the KyTea parser, which catches a parse error
  only. The exception leaves the load and there is no model.
* *Two exporters to one path*: the code has one `.tmp` per target and claims nothing
  about two processes; listed as a hazard.
* *Messages*: wording and layout of what is printed.

## 8. Plan

Done, in this order: `BatchMap`, `BatchRun` and its proofs; `GraphemeRules`,
`GraphemeBreaker` and its proofs; `PredictStream`; `Training`; `ModelFile`;
`Automaton`; `KyteaScorer`; `Corpus`, `Examples`, `TrainingData`; the MLP and EDLA
backends (`MlpKernels` to `MlpTokenizer`); `Unicode` and `KyteaModel`; `TrainCommand` and
`PredictCommand`; the proofs of `PredictStream`, `ModelFile`, `TrainCommand`, `Training`, `KyteaScorer`,
`TrainingData`, `Automaton` and `MlpTokenizer`.

Next:

1. A proof of `FeaturesExact`, on the invariant of `IndicesInBounds`: what is marked is what
   occurs.
2. A proof that `FusedIsSequential` for the vector sweeps, once the sums are written
   as recursive functions over a fixed register.
3. `check_sign_flips`, `Dataset::fill_batch` and Adam's lazy per-row step counts.
