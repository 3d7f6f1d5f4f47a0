-------------------------- MODULE TrainCommandProofs --------------------------
(***************************************************************************)
(* Proofs about ModelFile and TrainCommand.                                *)
(*                                                                         *)
(* A file has one of three roles: what the target leads to, what a load    *)
(* has open, and what the exporter writes, and the last is never one of    *)
(* the other two.  So what was whole stays whole.  The commands drive      *)
(* ModelFile by ModelFile's own steps, so the same holds of them, and the  *)
(* status they exit with tells what is at the target.                      *)
(***************************************************************************)
EXTENDS TrainCommand, SequenceTheorems, TLAPS

-----------------------------------------------------------------------------
(* ModelFile *)


\* The first n parts of model m.
Prefix(m, n) == [k \in 1 .. n |-> <<m, k>>]

\* Files are numbered by the exports that created them.
NamesInv ==
    /\ \A n \in Names : names[n] # None => names[n] <= export.model
    /\ names["target"] # None => names["target"] # names["tmp"]

\* An export under way is alone on the tmp name.
ExportInv ==
    export.step # "idle" =>
        /\ export.outcome = "none"
        /\ export.file \in Files /\ names["tmp"] = export.file
        /\ content[export.file] = Prefix(export.model, Len(content[export.file]))
        /\ Len(content[export.file]) <= Parts
        /\ export.step = "rename" => content[export.file] = Complete(export.model)

TargetInv ==
    names["target"] # None =>
        \E m \in Models : m <= export.model /\ content[names["target"]] = Complete(m)

\* A load under way knows every model the target has named since it began.
LoadInv ==
    /\ \A m \in current : m <= export.model
    /\ load.step # "idle" =>
          /\ names["target"] # None
          /\ \A m \in Models : content[names["target"]] = Complete(m) => m \in current
          /\ \E m \in current : format[m] = load.backend
    /\ load.step = "read" =>
          /\ load.file \in Files /\ load.file <= export.model /\ load.file # names["tmp"]
          /\ load.size = Parts
          /\ \E m \in current : content[load.file] = Complete(m)

IInv ==
    /\ TypeOK /\ NamesInv /\ ExportInv /\ TargetInv /\ FailureLeavesTarget
    /\ LoadInv /\ LoadIsConsistent

-----------------------------------------------------------------------------
LEMMA CompleteIsSeq ==
    ASSUME NEW m \in Models
    PROVE  /\ Complete(m) \in Seq(Models \X (1 .. Parts))
           /\ Len(Complete(m)) = Parts
           /\ Complete(m) # <<>>
           /\ Complete(m)[1][1] = m
           /\ SubSeq(Complete(m), 1, Parts) = Complete(m)
<1>1. Parts \in Nat /\ Parts >= 1
  BY ModelFileAssumption
<1>2. Complete(m) \in [1 .. Parts -> Models \X (1 .. Parts)]
  BY DEF Complete
<1>3. Complete(m) \in Seq(Models \X (1 .. Parts)) /\ Len(Complete(m)) = Parts
  BY <1>1, <1>2, LenProperties
<1>4. Complete(m)[1] = <<m, 1>>
  BY <1>1 DEF Complete
<1>5. Complete(m) # <<>>
  BY <1>1, <1>3, EmptySeq
<1>6. SubSeq(Complete(m), 1, Parts) = Complete(m)
  BY <1>1, <1>3, SubSeqProperties
<1> QED
  BY <1>3, <1>4, <1>5, <1>6

LEMMA CompleteIsInjective ==
    ASSUME NEW m \in Models, NEW n \in Models, Complete(m) = Complete(n)
    PROVE  m = n
BY CompleteIsSeq

\* The next part, after the first n.
LEMMA PrefixGrows ==
    ASSUME NEW m \in Models, NEW n \in Nat, n < Parts
    PROVE  /\ Append(Prefix(m, n), <<m, n + 1>>) = Prefix(m, n + 1)
           /\ Prefix(m, n + 1) \in Seq(Models \X (1 .. Parts))
           /\ Len(Prefix(m, n + 1)) = n + 1
<1> DEFINE S == Models \X (1 .. Parts)
<1>1. Parts \in Nat
  BY ModelFileAssumption
<1>2. Prefix(m, n) \in [1 .. n -> S] /\ Prefix(m, n + 1) \in [1 .. n + 1 -> S]
  BY <1>1 DEF Prefix
<1>3. Prefix(m, n) \in Seq(S) /\ Len(Prefix(m, n)) = n
  BY <1>2, LenProperties
<1>4. Prefix(m, n + 1) \in Seq(S) /\ Len(Prefix(m, n + 1)) = n + 1
  BY <1>2, LenProperties
<1>5. <<m, n + 1>> \in S
  BY <1>1
<1>6. /\ Append(Prefix(m, n), <<m, n + 1>>) \in Seq(S)
      /\ Len(Append(Prefix(m, n), <<m, n + 1>>)) = n + 1
      /\ \A i \in 1 .. n : Append(Prefix(m, n), <<m, n + 1>>)[i] = Prefix(m, n)[i]
      /\ Append(Prefix(m, n), <<m, n + 1>>)[n + 1] = <<m, n + 1>>
  BY <1>3, <1>5, AppendProperties
<1>7. ASSUME NEW i \in 1 .. n + 1
      PROVE  Append(Prefix(m, n), <<m, n + 1>>)[i] = Prefix(m, n + 1)[i]
  BY <1>6 DEF Prefix
<1>8. Append(Prefix(m, n), <<m, n + 1>>) = Prefix(m, n + 1)
  BY <1>4, <1>6, <1>7, SeqEqual
<1> QED
  BY <1>4, <1>8

LEMMA PrefixIsComplete ==
    ASSUME NEW m \in Models
    PROVE  Prefix(m, Parts) = Complete(m) /\ Prefix(m, 0) = <<>>
BY EmptySeq DEF Prefix, Complete

-----------------------------------------------------------------------------
Exports ==
    [step : {"idle", "write", "rename"}, model : Models, file : FilesOrNone,
     before : FilesOrNone, outcome : {"none", "ok", "failed", "threw"}]

Loads ==
    [step : {"idle", "open", "read"}, backend : Formats \cup {"none"}, file : FilesOrNone,
     size : 0 .. Parts, outcome : {"none", "missing", "unreadable", "too large", "error", "ok"},
     model : Models \cup {None}]

\* What TypeOK says of each variable, without the ranges of the numbers.
LEMMA Types ==
    ASSUME TypeOK
    PROVE  /\ format \in [Models -> Formats \cup {"none"}] /\ loadable \subseteq Models
           /\ names \in [Names -> FilesOrNone] /\ "target" \in Names /\ "tmp" \in Names
           /\ content \in [Files -> Seq(Models \X (1 .. Parts))]
           /\ export \in Exports /\ export.model \in Models
           /\ load \in Loads /\ loads \in 0 .. MaxLoads
           /\ current \subseteq Models
BY DEF TypeOK, Exports, Loads, Names

LEMMA ModelsAreNumbers ==
    ASSUME NEW m \in Models
    PROVE  m \in Nat /\ m <= MaxExports
BY ModelFileAssumption DEF Models

LEMMA NoneIsNoFile == None \notin Files /\ None \notin Models
BY ModelFileAssumption DEF Files, Models

LEMMA InitInvariant == Init => IInv
<1> SUFFICES ASSUME Init PROVE IInv
  OBVIOUS
<1> USE DEF Init
<1>1. 0 \in Models /\ 0 \in Files /\ Parts \in Nat
  BY ModelFileAssumption DEF Models, Files
<1>2. content[0] = Complete(0) /\ Complete(0) \in Seq(Models \X (1 .. Parts))
  BY <1>1, CompleteIsSeq
<1>3. names["target"] \in {0, None} /\ names["tmp"] = None
  OBVIOUS
<1>4. TypeOK
  <2>1. format \in [Models -> Formats \cup {"none"}] /\ loadable \subseteq Models
    BY <1>1
  <2>2. names \in [Names -> FilesOrNone]
    BY <1>1 DEF Names, FilesOrNone
  <2>3. content \in [Files -> Seq(Models \X (1 .. Parts))]
    BY <1>2, EmptySeq
  <2>4. export \in [step : {"idle", "write", "rename"}, model : Models, file : FilesOrNone,
                    before : FilesOrNone, outcome : {"none", "ok", "failed", "threw"}]
    BY <1>1, <1>3 DEF FilesOrNone
  <2>5. load \in [step : {"idle", "open", "read"}, backend : Formats \cup {"none"},
                  file : FilesOrNone, size : 0 .. Parts,
                  outcome : {"none", "missing", "unreadable", "too large", "error", "ok"},
                  model : Models \cup {None}]
    BY <1>1 DEF FilesOrNone, Formats
  <2>6. loads \in 0 .. MaxLoads /\ current \subseteq Models
    BY ModelFileAssumption
  <2> QED
    BY <2>1, <2>2, <2>3, <2>4, <2>5, <2>6 DEF TypeOK
<1>5. NamesInv
  BY <1>3, ModelFileAssumption DEF NamesInv, Names
<1>6. ExportInv /\ LoadInv /\ LoadIsConsistent
  BY DEF ExportInv, LoadInv, LoadIsConsistent
<1>7. TargetInv
  BY <1>1, <1>2, <1>3 DEF TargetInv
<1>8. FailureLeavesTarget
  BY DEF FailureLeavesTarget
<1> QED
  BY <1>4, <1>5, <1>6, <1>7, <1>8 DEF IInv

\* The file the exporter is given is one nothing else reads.
LEMMA OpenTmpKeeps ==
    ASSUME IInv, NEW fmt \in TrainedFormats, NEW accepted \in BOOLEAN, OpenTmp(fmt, accepted)
    PROVE  IInv'
<1> USE NoneIsNoFile
<1> DEFINE m == export.model + 1
           f == IF names["tmp"] # None THEN names["tmp"] ELSE m
<1>1. TypeOK /\ NamesInv /\ ExportInv /\ TargetInv /\ FailureLeavesTarget /\ LoadInv /\ LoadIsConsistent
  BY DEF IInv
<1>2. /\ export.step = "idle" /\ export.model \in Nat /\ export.model < MaxExports
      /\ m \in Models /\ m \in Files /\ m \in Nat
  <2>1. export.step = "idle" /\ export.model < MaxExports /\ export.model \in Models
    BY <1>1, Types DEF OpenTmp
  <2> QED
    BY <2>1, ModelFileAssumption DEF Models, Files
<1>3. names \in [Names -> FilesOrNone] /\ "target" \in Names /\ "tmp" \in Names
  BY <1>1 DEF TypeOK, Names
<1>4. f \in Files /\ f <= m
  BY <1>1, <1>2, <1>3 DEF NamesInv, FilesOrNone, Files
<1>5. /\ names["target"] # None => f # names["target"]
      /\ load.step = "read" => load.file # f
  <2>1. CASE names["tmp"] # None
    BY <2>1, <1>1 DEF NamesInv, LoadInv
  <2>2. CASE names["tmp"] = None
    BY <2>2, <1>1, <1>2, <1>3 DEF NamesInv, LoadInv
  <2> QED
    BY <2>1, <2>2
<1>6. /\ format' = [format EXCEPT ![m] = fmt]
      /\ loadable' = IF accepted THEN loadable \cup {m} ELSE loadable \ {m}
      /\ names' = [names EXCEPT !["tmp"] = f]
      /\ content' = [content EXCEPT ![f] = <<>>]
      /\ export' = [step |-> "write", model |-> m, file |-> f, before |-> names["target"],
                    outcome |-> "none"]
      /\ load' = load /\ loads' = loads /\ current' = current
  BY DEF OpenTmp, TmpName, Truncated
<1> HIDE DEF f, m
<1>7. /\ names'["tmp"] = f /\ names'["target"] = names["target"]
      /\ f # None
  BY <1>3, <1>4, <1>6
<1>8. /\ content \in [Files -> Seq(Models \X (1 .. Parts))]
      /\ content'[f] = <<>> /\ \A g \in Files : g # f => content'[g] = content[g]
  BY <1>1, <1>4, <1>6 DEF TypeOK
<1>9. names["target"] # None => names["target"] \in Files /\ content'[names["target"]] = content[names["target"]]
  BY <1>3, <1>5, <1>8 DEF FilesOrNone
<1>10. /\ export'.step = "write" /\ export'.model = m /\ export'.file = f
       /\ export'.before = names["target"] /\ export'.outcome = "none"
  BY <1>6
<1>11. TypeOK'
  <2>1. format' \in [Models -> Formats \cup {"none"}] /\ loadable' \subseteq Models
    BY <1>1, <1>2, <1>6 DEF TypeOK, Formats, TrainedFormats
  <2>2. names' \in [Names -> FilesOrNone]
    BY <1>3, <1>4, <1>6 DEF FilesOrNone
  <2>3. content' \in [Files -> Seq(Models \X (1 .. Parts))]
    BY <1>4, <1>6, <1>8, EmptySeq
  <2>4. names["target"] \in FilesOrNone
    BY <1>3
  <2>5. export' \in [step : {"idle", "write", "rename"}, model : Models, file : FilesOrNone,
                     before : FilesOrNone, outcome : {"none", "ok", "failed", "threw"}]
    BY <1>2, <1>4, <1>6, <2>4 DEF FilesOrNone
  <2> QED
    BY <1>1, <1>6, <2>1, <2>2, <2>3, <2>5 DEF TypeOK
<1>12. NamesInv'
  <2>1. ASSUME NEW n \in Names, names'[n] # None
        PROVE  names'[n] <= m
    BY <1>1, <1>2, <1>3, <1>4, <1>7, <2>1 DEF NamesInv, Names, FilesOrNone, Files, m
  <2> QED
    BY <1>5, <1>7, <1>10, <2>1 DEF NamesInv
<1>13. ExportInv'
  <2>1. Len(content'[f]) = 0 /\ content'[f] = Prefix(m, 0)
    BY <1>2, <1>8, PrefixIsComplete, EmptySeq
  <2> QED
    BY <1>4, <1>7, <1>10, <2>1, ModelFileAssumption DEF ExportInv
<1>14. TargetInv'
  <2>1. ASSUME names["target"] # None
        PROVE  \E k \in Models : k <= m /\ content'[names["target"]] = Complete(k)
    <3>1. PICK k \in Models : k <= export.model /\ content[names["target"]] = Complete(k)
      BY <1>1, <2>1 DEF TargetInv
    <3>2. k <= m
      BY <1>2, <3>1 DEF Models, m
    <3> QED
      BY <1>9, <2>1, <3>1, <3>2
  <2> QED
    BY <1>7, <1>10, <2>1 DEF TargetInv
<1>15. FailureLeavesTarget'
  BY <1>7, <1>10 DEF FailureLeavesTarget
<1>16. \A k \in current :
          /\ k \in Models /\ k <= export.model
          /\ format'[k] = format[k] /\ (k \in loadable' <=> k \in loadable)
  <2>1. ASSUME NEW k \in current
        PROVE  k \in Models /\ k <= export.model
    BY <1>1, Types DEF LoadInv
  <2>2. ASSUME NEW k \in current
        PROVE  k # m
    BY <1>2, <2>1, ModelsAreNumbers DEF m
  <2>3. format \in [Models -> Formats \cup {"none"}]
    BY <1>1, Types
  <2> QED
    BY <1>6, <2>1, <2>2, <2>3
<1>17. LoadInv'
  <2>1. \A k \in current' : k <= export'.model
    BY <1>2, <1>6, <1>10, <1>16 DEF m, Models
  <2>2. load'.step # "idle" =>
          /\ names'["target"] # None
          /\ \A k \in Models : content'[names'["target"]] = Complete(k) => k \in current'
          /\ \E k \in current' : format'[k] = load'.backend
    BY <1>1, <1>6, <1>7, <1>9, <1>16 DEF LoadInv
  <2>3. load'.step = "read" =>
          /\ load'.file \in Files /\ load'.file <= export'.model /\ load'.file # names'["tmp"]
          /\ load'.size = Parts
          /\ \E k \in current' : content'[load'.file] = Complete(k)
    BY <1>1, <1>2, <1>5, <1>6, <1>7, <1>8, <1>10 DEF LoadInv, m, Files
  <2> QED
    BY <2>1, <2>2, <2>3 DEF LoadInv
<1>18. LoadIsConsistent'
  BY <1>1, <1>6, <1>16 DEF LoadIsConsistent
<1> QED
  BY <1>11, <1>12, <1>13, <1>14, <1>15, <1>17, <1>18 DEF IInv

\* Every way in which an export ends without a new target.
LEMMA GivingUpKeeps ==
    ASSUME IInv, UNCHANGED <<content, exportOnly>>,
           names' \in {names, [names EXCEPT !["tmp"] = None]},
           export' \in Exports, export'.step = "idle", export.model <= export'.model,
           export'.outcome # "ok", export'.before = names["target"]
    PROVE  IInv'
<1> USE NoneIsNoFile
<1>1. TypeOK /\ NamesInv /\ ExportInv /\ TargetInv /\ FailureLeavesTarget /\ LoadInv /\ LoadIsConsistent
  BY DEF IInv
<1>2. /\ content' = content /\ format' = format /\ loadable' = loadable /\ load' = load
      /\ loads' = loads /\ current' = current
  BY DEF exportOnly
<1>3. names \in [Names -> FilesOrNone] /\ "target" \in Names /\ "tmp" \in Names
  BY <1>1 DEF TypeOK, Names
<1>4. names'["target"] = names["target"] /\ names'["tmp"] \in {names["tmp"], None}
  BY <1>3
<1>5. names' \in [Names -> FilesOrNone]
  BY <1>3 DEF FilesOrNone
<1>6. export.model \in Nat /\ export'.model \in Nat
  <2>1. export.model \in Models /\ export'.model \in Models
    BY <1>1, Types DEF Exports
  <2> QED
    BY <2>1, ModelsAreNumbers
<1>7. TypeOK'
  BY <1>1, <1>2, <1>5 DEF TypeOK, Exports
<1>8. NamesInv'
  <2>1. ASSUME NEW n \in Names, names'[n] # None
        PROVE  names'[n] <= export'.model
    <3>1. names'[n] = names[n] /\ names[n] # None
      BY <1>3, <2>1
    <3>2. names[n] <= export.model /\ names[n] \in Nat
      BY <1>1, <1>3, <3>1 DEF NamesInv, FilesOrNone, Files
    <3> QED
      BY <1>6, <3>1, <3>2
  <2> QED
    BY <1>1, <1>4, <2>1 DEF NamesInv
<1>9. ExportInv' /\ TargetInv' /\ FailureLeavesTarget' /\ LoadIsConsistent'
  <2>1. ASSUME names["target"] # None
        PROVE  \E k \in Models : k <= export'.model /\ content[names["target"]] = Complete(k)
    <3>1. PICK k \in Models : k <= export.model /\ content[names["target"]] = Complete(k)
      BY <1>1, <2>1 DEF TargetInv
    <3>2. k <= export'.model
      BY <1>6, <3>1 DEF Models
    <3> QED
      BY <3>1, <3>2
  <2> QED
    BY <1>1, <1>2, <1>4, <2>1 DEF ExportInv, TargetInv, FailureLeavesTarget, LoadIsConsistent
<1>10. \A k \in current : k \in Nat /\ k <= export'.model
  <2>1. ASSUME NEW k \in current
        PROVE  k \in Models /\ k <= export.model
    BY <1>1, Types DEF LoadInv
  <2>2. ASSUME NEW k \in current
        PROVE  k \in Nat /\ k <= export'.model
    BY <1>6, <2>1, ModelsAreNumbers
  <2> QED
    BY <2>2
<1>11. LoadInv'
  <2>1. load.step = "read" => load.file <= export'.model /\ load.file # names'["tmp"]
    BY <1>1, <1>4, <1>6 DEF LoadInv, Files
  <2> QED
    BY <1>1, <1>2, <1>4, <1>10, <2>1 DEF LoadInv
<1> QED
  BY <1>7, <1>8, <1>9, <1>11 DEF IInv

LEMMA FailuresKeep ==
    ASSUME IInv, OpenTmpFails \/ WriteFails \/ RenameFails \/ Crash
    PROVE  IInv'
<1> USE NoneIsNoFile
<1>1. TypeOK /\ ExportInv /\ FailureLeavesTarget
  BY DEF IInv
<1>2. /\ names \in [Names -> FilesOrNone] /\ names["target"] \in FilesOrNone
      /\ export \in Exports /\ export.model \in 0 .. MaxExports
  BY <1>1 DEF TypeOK, Names, Exports, Models
<1>3. CASE OpenTmpFails
  <2>1. /\ UNCHANGED <<content, exportOnly>> /\ names' = names
        /\ export' = [step |-> "idle", model |-> export.model + 1, file |-> None,
                      before |-> names["target"], outcome |-> "failed"]
        /\ export.model < MaxExports
    BY <1>3 DEF OpenTmpFails
  <2>2. export.model + 1 \in Models
    BY <1>2, <2>1, ModelFileAssumption DEF Models
  <2>3. export' \in Exports
    BY <1>2, <2>1, <2>2 DEF Exports, FilesOrNone
  <2>4. export.model <= export'.model
    BY <1>2, <2>1
  <2>5. export'.step = "idle" /\ export'.outcome # "ok" /\ export'.before = names["target"]
    BY <2>1
  <2> QED
    BY <2>1, <2>3, <2>4, <2>5, GivingUpKeeps
<1>4. CASE WriteFails \/ RenameFails \/ Crash
  <2>1. /\ UNCHANGED <<content, exportOnly>>
        /\ names' \in {names, [names EXCEPT !["tmp"] = None]}
        /\ \E outcome \in {"none", "failed", "threw"} :
              export' = [export EXCEPT !.step = "idle", !.outcome = outcome]
        /\ export.step \in {"write", "rename"}
    BY <1>4 DEF WriteFails, RenameFails, Crash, TmpName
  <2>2. export.before = names["target"]
    BY <1>1, <2>1 DEF ExportInv, FailureLeavesTarget
  <2>3. PICK outcome \in {"none", "failed", "threw"} :
              export' = [export EXCEPT !.step = "idle", !.outcome = outcome]
    BY <2>1
  <2>4. /\ export'.step = "idle" /\ export'.outcome = outcome /\ export' \in Exports
        /\ export'.model = export.model /\ export'.before = export.before
    BY <1>2, <2>3 DEF Exports
  <2> QED
    BY <1>2, <2>1, <2>2, <2>4, GivingUpKeeps
<1> QED
  BY <1>3, <1>4

\* The exporter appends to a file that is neither the target nor being read.
LEMMA WritePartKeeps ==
    ASSUME IInv, WritePart
    PROVE  IInv'
<1> USE NoneIsNoFile
<1> DEFINE f == export.file
           n == Len(content[f])
<1>1. TypeOK /\ NamesInv /\ ExportInv /\ TargetInv /\ FailureLeavesTarget /\ LoadInv /\ LoadIsConsistent
  BY DEF IInv
<1>2. /\ export.step = "write" /\ f \in Files /\ names["tmp"] = f
      /\ content[f] = Prefix(export.model, n) /\ n < Parts
      /\ content' = [content EXCEPT ![f] = Append(@, <<export.model, n + 1>>)]
      /\ names' = names /\ export' = export /\ format' = format /\ loadable' = loadable
      /\ load' = load /\ loads' = loads /\ current' = current
  BY <1>1 DEF WritePart, Written, ExportInv, exportOnly
<1>3. /\ content \in [Files -> Seq(Models \X (1 .. Parts))]
      /\ export.model \in Models /\ Parts \in Nat
      /\ names \in [Names -> FilesOrNone] /\ "target" \in Names /\ "tmp" \in Names
  BY <1>1, ModelFileAssumption DEF TypeOK, Names
<1>4. n \in Nat
  BY <1>2, <1>3, LenProperties
<1>5. /\ content'[f] = Prefix(export.model, n + 1)
      /\ content'[f] \in Seq(Models \X (1 .. Parts)) /\ Len(content'[f]) = n + 1
      /\ \A g \in Files : g # f => content'[g] = content[g]
  <2> HIDE DEF f, n
  <2>1. /\ content'[f] = Append(content[f], <<export.model, n + 1>>)
        /\ \A g \in Files : g # f => content'[g] = content[g]
    BY <1>2, <1>3
  <2>2. content'[f] = Append(Prefix(export.model, n), <<export.model, n + 1>>)
    BY <1>2, <2>1
  <2>3. n < Parts
    BY <1>2
  <2> QED
    BY <1>3, <1>4, <2>1, <2>2, <2>3, PrefixGrows
<1>6. content' \in [Files -> Seq(Models \X (1 .. Parts))]
  BY <1>2, <1>3, <1>5
<1>7. names["target"] # None => content'[names["target"]] = content[names["target"]]
  BY <1>1, <1>2, <1>3, <1>5 DEF NamesInv, FilesOrNone
<1>8. load.step = "read" => content'[load.file] = content[load.file]
  BY <1>1, <1>2, <1>5 DEF LoadInv
<1>9. TypeOK'
  BY <1>1, <1>2, <1>6 DEF TypeOK
<1>10. NamesInv' /\ FailureLeavesTarget' /\ LoadIsConsistent'
  BY <1>1, <1>2 DEF NamesInv, FailureLeavesTarget, LoadIsConsistent
<1>11. TargetInv'
  BY <1>1, <1>2, <1>7 DEF TargetInv
<1>12. ExportInv'
  <2>1. Len(content'[f]) <= Parts /\ content'[f] = Prefix(export.model, Len(content'[f]))
    BY <1>2, <1>3, <1>4, <1>5
  <2> QED
    BY <1>1, <1>2, <2>1 DEF ExportInv
<1>13. LoadInv'
  BY <1>1, <1>2, <1>7, <1>8 DEF LoadInv
<1> QED
  BY <1>9, <1>10, <1>11, <1>12, <1>13 DEF IInv

LEMMA CloseKeeps ==
    ASSUME IInv, Close
    PROVE  IInv'
<1>1. TypeOK /\ NamesInv /\ ExportInv /\ TargetInv /\ FailureLeavesTarget /\ LoadInv /\ LoadIsConsistent
  BY DEF IInv
<1>2. /\ export.step = "write" /\ Len(content[export.file]) = Parts
      /\ export' = [export EXCEPT !.step = "rename"]
      /\ names' = names /\ content' = content /\ format' = format /\ loadable' = loadable
      /\ load' = load /\ loads' = loads /\ current' = current
  BY DEF Close, AllWritten, Written, exportOnly
<1>3. /\ export \in Exports /\ export.model \in Models
  BY <1>1 DEF TypeOK, Exports
<1>4. /\ export' \in Exports /\ export'.step = "rename"
      /\ export'.model = export.model /\ export'.file = export.file
      /\ export'.before = export.before /\ export'.outcome = export.outcome
  BY <1>2, <1>3 DEF Exports
<1>5. content[export.file] = Complete(export.model)
  BY <1>1, <1>2, <1>3, PrefixIsComplete DEF ExportInv
<1>6. TypeOK'
  BY <1>1, <1>2, <1>4 DEF TypeOK, Exports
<1>7. NamesInv' /\ ExportInv'
  BY <1>1, <1>2, <1>4, <1>5 DEF NamesInv, ExportInv
<1>8. TargetInv' /\ FailureLeavesTarget' /\ LoadInv' /\ LoadIsConsistent'
  BY <1>1, <1>2, <1>4 DEF TargetInv, FailureLeavesTarget, LoadInv, LoadIsConsistent
<1> QED
  BY <1>6, <1>7, <1>8 DEF IInv

\* The old target, if a load has it open, stays what it was.
LEMMA RenameKeeps ==
    ASSUME IInv, Rename
    PROVE  IInv' /\ names'["target"] # None
<1> USE NoneIsNoFile
<1> DEFINE f == export.file
<1>1. TypeOK /\ NamesInv /\ ExportInv /\ TargetInv /\ FailureLeavesTarget /\ LoadInv /\ LoadIsConsistent
  BY DEF IInv
<1>2. /\ export.step = "rename" /\ f \in Files /\ names["tmp"] = f
      /\ content[f] = Complete(export.model)
      /\ names' = [names EXCEPT !["target"] = f, !["tmp"] = None]
      /\ export' = [export EXCEPT !.step = "idle", !.outcome = "ok"]
      /\ current' = IF load.step = "idle" THEN current ELSE current \cup {export.model}
      /\ format' = format /\ loadable' = loadable /\ content' = content
      /\ load' = load /\ loads' = loads
  BY <1>1 DEF Rename, TmpName, ExportInv
<1>3. /\ names \in [Names -> FilesOrNone] /\ "target" \in Names /\ "tmp" \in Names
      /\ export \in Exports /\ export.model \in Models /\ export.model \in Nat
  BY <1>1, Types, ModelsAreNumbers
<1>4. names'["target"] = f /\ names'["tmp"] = None /\ names' \in [Names -> FilesOrNone]
  BY <1>2, <1>3 DEF FilesOrNone
<1>5. /\ export' \in Exports /\ export'.step = "idle" /\ export'.model = export.model
      /\ export'.outcome = "ok"
  BY <1>2, <1>3 DEF Exports
<1>6. TypeOK'
  BY <1>1, <1>2, <1>3, <1>4, <1>5 DEF TypeOK, Exports
<1>7. f <= export.model
  BY <1>1, <1>2, <1>3 DEF NamesInv
<1>8. NamesInv'
  BY <1>2, <1>4, <1>5, <1>7 DEF NamesInv, Names
<1>9. ExportInv' /\ FailureLeavesTarget'
  BY <1>5 DEF ExportInv, FailureLeavesTarget
<1>10. TargetInv'
  BY <1>2, <1>3, <1>4, <1>5 DEF TargetInv
<1>11. LoadInv'
  <2>1. \A k \in current' : k <= export'.model
    BY <1>1, <1>2, <1>3, <1>5 DEF LoadInv
  <2>2. ASSUME load.step # "idle", NEW k \in Models, content'[names'["target"]] = Complete(k)
        PROVE  k \in current'
    BY <1>2, <1>3, <1>4, <2>2, CompleteIsInjective
  <2>3. load.step # "idle" => \E k \in current' : format'[k] = load'.backend
    BY <1>1, <1>2 DEF LoadInv
  <2>4. load.step = "read" =>
          /\ load.file \in Files /\ load.file <= export'.model /\ load.file # names'["tmp"]
          /\ load.size = Parts
          /\ \E k \in current' : content'[load.file] = Complete(k)
    BY <1>1, <1>2, <1>4, <1>5 DEF LoadInv
  <2> QED
    BY <1>2, <1>4, <2>1, <2>2, <2>3, <2>4 DEF LoadInv
<1>12. LoadIsConsistent'
  BY <1>1, <1>2 DEF LoadIsConsistent
<1> QED
  BY <1>2, <1>4, <1>6, <1>8, <1>9, <1>10, <1>11, <1>12 DEF IInv

-----------------------------------------------------------------------------
(* Loads change only what a load keeps. *)

LEMMA LoadStepKeeps ==
    ASSUME IInv, UNCHANGED loadOnly, load' \in Loads, loads' \in 0 .. MaxLoads,
           current' \subseteq Models, LoadInv', LoadIsConsistent'
    PROVE  IInv'
BY DEF IInv, loadOnly, TypeOK, Loads, NamesInv, ExportInv, TargetInv, FailureLeavesTarget

LEMMA LoadsKeep ==
    ASSUME IInv, SniffFails \/ Sniff \/ OpenModel \/ ReadModel \/ ReadFails
    PROVE  IInv'
<1> USE NoneIsNoFile
<1>1. TypeOK /\ NamesInv /\ TargetInv /\ LoadInv /\ LoadIsConsistent
  BY DEF IInv
<1>2. /\ load \in Loads /\ loads \in 0 .. MaxLoads /\ current \subseteq Models
      /\ MaxLoads \in Nat /\ Parts \in Nat /\ export.model \in Nat
      /\ format \in [Models -> Formats \cup {"none"}]
      /\ names \in [Names -> FilesOrNone] /\ "target" \in Names
  BY <1>1, Types, ModelsAreNumbers, ModelFileAssumption
<1>3. UNCHANGED loadOnly
  BY DEF SniffFails, Sniff, OpenModel, ReadModel, ReadFails
<1>4. /\ format' = format /\ loadable' = loadable /\ names' = names
      /\ content' = content /\ export' = export
  BY <1>3 DEF loadOnly
\* Ending with an error that is not the backend's.
<1>5. ASSUME NEW reason \in {"missing", "unreadable", "too large"}, load' = Failed(reason),
             loads' \in 0 .. MaxLoads, current' \in {current, {}}
      PROVE  IInv'
  <2>1. load' \in Loads /\ load'.step = "idle" /\ load'.outcome = reason
    BY <1>2, <1>5 DEF Failed, Loads
  <2>2. LoadInv' /\ LoadIsConsistent'
    BY <1>1, <1>4, <1>5, <2>1 DEF LoadInv, LoadIsConsistent
  <2> QED
    BY <1>2, <1>3, <1>5, <2>1, <2>2, LoadStepKeeps
<1>6. CASE SniffFails
  <2>1. loads' \in 0 .. MaxLoads
    BY <1>2, <1>6 DEF SniffFails
  <2> QED
    BY <1>5, <1>6, <2>1 DEF SniffFails
<1>7. CASE ReadFails
  <2>1. PICK reason \in {"unreadable", "too large"} :
           load' = Failed(reason) /\ loads' = loads /\ current' = current
    BY <1>7 DEF ReadFails
  <2> QED
    BY <1>2, <1>5, <2>1
<1>8. CASE Sniff
  <2> DEFINE t == names["target"]
  <2>1. /\ t # None /\ loads' = loads + 1 /\ loads < MaxLoads
        /\ current' = ModelsAt(t)
        /\ load' = [step |-> "open", backend |-> SignatureAt(t), file |-> None, size |-> 0,
                    outcome |-> "none", model |-> None]
    BY <1>8 DEF Sniff
  <2>2. t \in Files
    BY <1>2, <2>1 DEF FilesOrNone
  <2>3. PICK k \in Models : k <= export.model /\ content[t] = Complete(k)
    BY <1>1, <2>1 DEF TargetInv
  <2>4. SignatureAt(t) = format[k] /\ k \in current'
    BY <2>1, <2>3, CompleteIsSeq DEF SignatureAt, ModelsAt
  <2>5. \A j \in Models : content[t] = Complete(j) => j = k
    BY <2>3, CompleteIsInjective
  <2>6. current' = {k}
    BY <2>1, <2>3, <2>5 DEF ModelsAt
  <2>7. /\ load' \in Loads /\ load'.step = "open" /\ load'.backend = format[k]
    <3>1. format[k] \in Formats \cup {"none"} /\ 0 \in 0 .. Parts /\ None \in FilesOrNone
      BY <1>2 DEF FilesOrNone
    <3>2. load' = [step |-> "open", backend |-> format[k], file |-> None, size |-> 0,
                   outcome |-> "none", model |-> None]
      BY <2>1, <2>4
    <3> QED
      BY <3>1, <3>2 DEF Loads
  <2>8. LoadInv'
    <3>1. \A j \in current' : j <= export.model
      BY <2>3, <2>6
    <3>2. \A j \in Models : content[t] = Complete(j) => j \in current'
      BY <2>5, <2>6
    <3>3. \E j \in current' : format[j] = load'.backend
      BY <2>6, <2>7
    <3> QED
      BY <1>4, <2>1, <2>7, <3>1, <3>2, <3>3 DEF LoadInv
  <2>9. LoadIsConsistent'
    BY <2>7 DEF LoadIsConsistent
  <2>10. loads' \in 0 .. MaxLoads /\ current' \subseteq Models
    BY <1>2, <2>1, <2>6
  <2> QED
    BY <1>3, <2>7, <2>8, <2>9, <2>10, LoadStepKeeps
<1>9. CASE OpenModel
  <2> DEFINE t == names["target"]
  <2>1. /\ load.step = "open" /\ loads' = loads /\ current' = current
        /\ t # None
        /\ load' = [load EXCEPT !.step = "read", !.file = t, !.size = Len(content[t])]
    BY <1>1, <1>9 DEF OpenModel, LoadInv
  <2>2. t \in Files /\ t <= export.model /\ t # names["tmp"]
    BY <1>1, <1>2, <2>1 DEF FilesOrNone, NamesInv
  <2>3. PICK k \in Models : content[t] = Complete(k)
    BY <1>1, <2>1 DEF TargetInv
  <2>4. Len(content[t]) = Parts /\ k \in current
    BY <1>1, <2>1, <2>3, CompleteIsSeq DEF LoadInv
  <2>5. /\ load' \in Loads /\ load'.step = "read" /\ load'.file = t /\ load'.size = Parts
        /\ load'.backend = load.backend
    <3>1. load' = [load EXCEPT !.step = "read", !.file = t, !.size = Parts]
      BY <2>1, <2>4
    <3>2. t \in FilesOrNone /\ Parts \in 0 .. Parts
      BY <1>2, <2>2 DEF FilesOrNone
    <3> HIDE DEF t
    <3> QED
      BY <1>2, <3>1, <3>2 DEF Loads
  <2>6. LoadInv'
    BY <1>1, <1>4, <2>1, <2>2, <2>3, <2>4, <2>5 DEF LoadInv
  <2>7. LoadIsConsistent'
    BY <2>5 DEF LoadIsConsistent
  <2> QED
    BY <1>2, <1>3, <2>1, <2>5, <2>6, <2>7, LoadStepKeeps
<1>10. CASE ReadModel
  <2> DEFINE parsed == Parsed(load.backend, SubSeq(content[load.file], 1, load.size))
  <2>1. /\ load.step = "read" /\ loads' = loads /\ current' = current
        /\ load' \in IF parsed = {} THEN {Failed("error")}
                     ELSE {[load EXCEPT !.step = "idle", !.outcome = "ok", !.model = m] : m \in parsed}
    BY <1>10 DEF ReadModel
  <2>2. PICK k \in current : content[load.file] = Complete(k)
    BY <1>1, <2>1 DEF LoadInv
  <2>3. k \in Models /\ load.size = Parts
    BY <1>1, <1>2, <2>1, <2>2 DEF LoadInv
  <2>4. parsed = {m \in Models : m = k /\ format[m] = load.backend /\ m \in loadable}
    <3>1. SubSeq(content[load.file], 1, load.size) = Complete(k)
      BY <2>2, <2>3, CompleteIsSeq
    <3>2. \A m \in Models : Complete(k) = Complete(m) <=> m = k
      BY <2>3, CompleteIsInjective
    <3> QED
      BY <3>1, <3>2 DEF Parsed
  <2>5. PICK j \in current : format[j] = load.backend
    BY <1>1, <2>1 DEF LoadInv
  <2> HIDE DEF parsed
  <2>6. CASE parsed = {}
    <3>1. load' = Failed("error") /\ (format[k] # format[j] \/ k \notin loadable)
      BY <2>1, <2>3, <2>4, <2>5, <2>6
    <3>2. load' \in Loads /\ load'.step = "idle" /\ load'.outcome = "error"
      BY <1>2, <3>1 DEF Failed, Loads
    <3>3. LoadInv' /\ LoadIsConsistent'
      BY <1>1, <1>4, <2>1, <3>1, <3>2 DEF LoadInv, LoadIsConsistent
    <3> QED
      BY <1>2, <1>3, <2>1, <3>2, <3>3, LoadStepKeeps
  <2>7. CASE parsed # {}
    <3>1. load' = [load EXCEPT !.step = "idle", !.outcome = "ok", !.model = k]
      BY <2>1, <2>4, <2>7
    <3>2. load' \in Loads /\ load'.step = "idle" /\ load'.outcome = "ok" /\ load'.model = k
      BY <1>2, <2>3, <3>1 DEF Loads
    <3>3. LoadInv' /\ LoadIsConsistent'
      BY <1>1, <1>4, <2>1, <3>2 DEF LoadInv, LoadIsConsistent
    <3> QED
      BY <1>2, <1>3, <2>1, <3>2, <3>3, LoadStepKeeps
  <2> QED
    BY <2>6, <2>7
<1> QED
  BY <1>6, <1>7, <1>8, <1>9, <1>10

-----------------------------------------------------------------------------
LEMMA StepInvariant ==
    ASSUME IInv, [Next]_vars
    PROVE  IInv'
<1>1. CASE \E fmt \in TrainedFormats, accepted \in BOOLEAN : OpenTmp(fmt, accepted)
  BY <1>1, OpenTmpKeeps
<1>2. CASE OpenTmpFails \/ WriteFails \/ RenameFails \/ Crash
  BY <1>2, FailuresKeep
<1>3. CASE WritePart
  BY <1>3, WritePartKeeps
<1>4. CASE Close
  BY <1>4, CloseKeeps
<1>5. CASE Rename
  BY <1>5, RenameKeeps
<1>6. CASE SniffFails \/ Sniff \/ OpenModel \/ ReadModel \/ ReadFails
  BY <1>6, LoadsKeep
<1>7. CASE UNCHANGED vars
  <2>1. /\ format' = format /\ loadable' = loadable /\ names' = names /\ content' = content
        /\ export' = export /\ load' = load /\ loads' = loads /\ current' = current
    BY <1>7 DEF vars
  <2>2. TypeOK'
    BY <2>1 DEF IInv, TypeOK
  <2>3. NamesInv' /\ ExportInv' /\ TargetInv' /\ FailureLeavesTarget'
    BY <2>1 DEF IInv, NamesInv, ExportInv, TargetInv, FailureLeavesTarget
  <2>4. LoadInv' /\ LoadIsConsistent'
    BY <2>1 DEF IInv, LoadInv, LoadIsConsistent
  <2> QED
    BY <2>2, <2>3, <2>4 DEF IInv
<1> QED
  BY <1>1, <1>2, <1>3, <1>4, <1>5, <1>6, <1>7 DEF Next

(* The three roles of a file never mix. *)
THEOREM Invariance == Spec => []IInv
<1>1. Init => IInv
  BY InitInvariant
<1>2. IInv /\ [Next]_vars => IInv'
  BY StepInvariant
<1> QED
  BY <1>1, <1>2, PTL DEF Spec

(***************************************************************************)
(* The types of the two names, of the files and of both processes.         *)
(***************************************************************************)
THEOREM TypeCorrect == Spec => []TypeOK
<1>1. IInv => TypeOK
  BY DEF IInv
<1> QED
  BY <1>1, Invariance, PTL

(***************************************************************************)
(* A truncated model is never at the target, for any number of parts and   *)
(* of exports, failed, killed or complete.                                 *)
(***************************************************************************)
THEOREM TargetAlwaysWhole == Spec => []TargetIsWhole
<1>1. IInv => TargetIsWhole
  BY DEF IInv, TargetInv, TargetIsWhole, ModelsAt
<1> QED
  BY <1>1, Invariance, PTL

(***************************************************************************)
(* export_model changes the target only when it reports success.           *)
(***************************************************************************)
THEOREM FailureIsHarmless == Spec => []FailureLeavesTarget
<1>1. IInv => FailureLeavesTarget
  BY DEF IInv
<1> QED
  BY <1>1, Invariance, PTL

(***************************************************************************)
(* A load returns a model the target named while it ran, though it opens   *)
(* the target twice and the exporter may replace it in between.            *)
(***************************************************************************)
THEOREM LoadsAreConsistent == Spec => []LoadIsConsistent
<1>1. IInv => LoadIsConsistent
  BY DEF IInv
<1> QED
  BY <1>1, Invariance, PTL

(***************************************************************************)
(* Once a model is at the target there is always one.                      *)
(***************************************************************************)
THEOREM TargetNeverVanishes == Spec => TargetStays
<1>1. ASSUME IInv, [Next]_vars, names["target"] # None
      PROVE  names'["target"] # None
  <2>1. names \in [Names -> FilesOrNone]
    BY <1>1 DEF IInv, TypeOK
  <2>2. CASE Rename
    BY <1>1, <2>2, RenameKeeps
  <2>3. CASE \E fmt \in TrainedFormats, accepted \in BOOLEAN : OpenTmp(fmt, accepted)
    BY <1>1, <2>1, <2>3 DEF OpenTmp, TmpName, Names
  <2>4. CASE WriteFails \/ RenameFails
    BY <1>1, <2>1, <2>4 DEF WriteFails, RenameFails, TmpName, Names
  <2>5. CASE names' = names
    BY <1>1, <2>5
  <2> QED
    BY <1>1, <2>2, <2>3, <2>4, <2>5
       DEF Next, vars, OpenTmpFails, WritePart, Close, Crash, SniffFails, Sniff, OpenModel,
           ReadModel, ReadFails, loadOnly
<1>2. IInv /\ [Next]_vars => [names["target"] # None => names'["target"] # None]_vars
  BY <1>1
<1> QED
  BY <1>2, Invariance, PTL DEF Spec, TargetStays

-----------------------------------------------------------------------------
(* TrainCommand *)


\* What parse has checked of the options of a command that trains.
Checked(opt) ==
    /\ opt.backend \in {"mlp", "ed"} /\ opt.corpora \in Nat \ {0} /\ InRange(opt)

\* The model of the export that ran has the backend's format, and the loader
\* takes it or not for what was written.
FormatInv ==
    /\ format[export.model] = FormatOf[cmd.options.backend]
    /\ export.model \in loadable <=> Accepts(cmd.config, cmd.quantized)

AtTarget ==
    /\ names["target"] # None
    /\ content[names["target"]] = Complete(export.model)

Steps == {"idle", "read", "dev", "train", "export", "exporting"}

CmdInv ==
    /\ cmd = [trains |-> cmd.trains, step |-> cmd.step, options |-> cmd.options,
              read |-> cmd.read, labeled |-> cmd.labeled, config |-> cmd.config,
              quantized |-> cmd.quantized, status |-> cmd.status,
              before |-> cmd.before, count |-> cmd.count]
    /\ cmd.step \in Steps
    /\ cmd.step # "idle" => cmd.trains /\ Checked(cmd.options)
    /\ cmd.step = "read" => cmd.read \in 0 .. cmd.options.corpora + cmd.options.dicts
    /\ cmd.step \in {"dev", "train", "export", "exporting"} => cmd.labeled
    /\ cmd.step = "dev" => cmd.read = cmd.options.corpora + cmd.options.dicts
    /\ cmd.step \in {"train", "export", "exporting"} =>
          cmd.config = Asked(cmd.options) /\ Plausible(cmd.config)
    /\ cmd.step # "exporting" => export.step = "idle"
    /\ cmd.step \notin {"idle", "exporting"} => Untouched
    /\ cmd.step = "exporting" =>
          /\ export.before = cmd.before
          /\ export.step # "idle" => FormatInv
          /\ export.outcome = "ok" => FormatInv /\ AtTarget

CInv == IInv /\ CmdInv /\ ExitTellsTheTruth

-----------------------------------------------------------------------------
(* The casts lose nothing of a shape that parse has let through. *)
LEMMA CastIsExact ==
    ASSUME NEW opt, InRange(opt)
    PROVE  Config(opt, opt.dicts) = Asked(opt) /\ Plausible(Asked(opt))
<1>1. MaxByte \in Nat /\ MaxWord \in Nat /\ MaxEmbedDim \in 1 .. MaxWord
  BY TrainCommandAssumption
<1>2. ASSUME NEW x \in Nat, NEW max \in Nat, x <= max
      PROVE  x % (max + 1) = x
  BY <1>2
<1>3. /\ opt.char_window % (MaxByte + 1) = opt.char_window
      /\ opt.embed_dim % (MaxWord + 1) = opt.embed_dim
      /\ opt.hidden % (MaxWord + 1) = opt.hidden
      /\ opt.dicts % (MaxByte + 1) = opt.dicts
  <2>1. /\ opt.char_window \in Nat /\ opt.char_window <= MaxByte
        /\ opt.embed_dim \in Nat /\ opt.embed_dim <= MaxWord
        /\ opt.hidden \in Nat /\ opt.hidden <= MaxWord
        /\ opt.dicts \in Nat /\ opt.dicts <= MaxByte
    BY <1>1 DEF InRange
  <2>2. opt.char_window % (MaxByte + 1) = opt.char_window /\ opt.dicts % (MaxByte + 1) = opt.dicts
    BY <1>1, <1>2, <2>1
  <2>3. opt.embed_dim % (MaxWord + 1) = opt.embed_dim /\ opt.hidden % (MaxWord + 1) = opt.hidden
    BY <1>1, <1>2, <2>1
  <2> QED
    BY <2>2, <2>3
<1>4. Plausible(Asked(opt))
  BY <1>1 DEF InRange, Asked, Plausible
<1> QED
  BY <1>3, <1>4 DEF Config, Asked

LEMMA ParseChecks ==
    ASSUME NEW line \in CommandLines, StatusAtOnce[line] = Running
    PROVE  Checked(Options(Given(Tail(line))))
<1>1. StatusAtOnce[line] \in {0, 2, RunTrain(Tail(line))}
  BY DEF StatusAtOnce
<1>2. RunTrain(Tail(line)) = Running
  BY <1>1 DEF Running
<1>3. ASSUME NEW args, RunTrain(args) = Running
      PROVE  ParsedOk(args) /\ Options(Given(args)).backend \in DOMAIN FormatOf
  BY <1>3 DEF RunTrain, Running
<1>4. ParsedOk(Tail(line)) /\ Options(Given(Tail(line))).backend \in DOMAIN FormatOf
  BY <1>2, <1>3
<1>5. DOMAIN FormatOf = {"mlp", "ed"}
  BY DEF FormatOf
<1> QED
  BY <1>4, <1>5 DEF ParsedOk, Consistent, Checked

-----------------------------------------------------------------------------
LEMMA CommandInitInvariant == CommandInit => CInv
<1> SUFFICES ASSUME CommandInit PROVE CInv
  OBVIOUS
<1>1. Init /\ IInv
  BY InitInvariant DEF CommandInit
<1>2. /\ cmd.step = "idle" /\ cmd.status = 0 /\ ~cmd.trains /\ Untouched
      /\ export.step = "idle"
  BY <1>1 DEF CommandInit, Init, Untouched
<1>3. CmdInv
  BY <1>2 DEF CommandInit, CmdInv, Steps
<1>4. ExitTellsTheTruth
  BY <1>2 DEF ExitTellsTheTruth
<1> QED
  BY <1>1, <1>3, <1>4 DEF CInv

\* What the commands' own steps, which leave the files alone, have to keep.
LEMMA CommandStepKeeps ==
    ASSUME CInv, UNCHANGED vars, CmdInv', ExitTellsTheTruth'
    PROVE  CInv'
BY StepInvariant DEF CInv

LEMMA StartKeeps ==
    ASSUME CInv, NEW line \in CommandLines, Start(line)
    PROVE  CInv'
<1>1. CmdInv /\ cmd.step = "idle" /\ UNCHANGED vars /\ export.step = "idle"
  BY DEF CInv, CmdInv, Start
<1>2. /\ names' = names /\ export' = export /\ format' = format
      /\ loadable' = loadable /\ content' = content
  BY <1>1 DEF vars
<1> DEFINE status == StatusAtOnce[line]
           opt == Options(Given(Tail(line)))
<1>3. cmd' = [trains |-> status = Running,
              step |-> IF status = Running THEN "read" ELSE "idle",
              options |-> IF status = Running THEN opt ELSE None,
              read |-> 0, labeled |-> FALSE, config |-> None, quantized |-> None, status |-> status,
              before |-> names["target"], count |-> cmd.count + 1]
  BY DEF Start
<1>4. status = Running => Checked(opt)
  BY ParseChecks
<1> HIDE DEF status, opt
<1>5. /\ cmd'.trains = (status = Running) /\ cmd'.before = names["target"]
      /\ cmd'.step = IF status = Running THEN "read" ELSE "idle"
      /\ cmd'.options = IF status = Running THEN opt ELSE None
      /\ cmd'.read = 0 /\ cmd'.status = status
      /\ cmd' = [trains |-> cmd'.trains, step |-> cmd'.step, options |-> cmd'.options,
                 read |-> cmd'.read, labeled |-> cmd'.labeled, config |-> cmd'.config,
                 quantized |-> cmd'.quantized, status |-> cmd'.status,
                 before |-> cmd'.before, count |-> cmd'.count]
  BY <1>3
<1>6. Untouched'
  BY <1>2, <1>5 DEF Untouched
<1>7. CASE status = Running
  <2>1. Checked(cmd'.options) /\ cmd'.step = "read" /\ cmd'.trains
    BY <1>4, <1>5, <1>7
  <2>2. cmd'.read \in 0 .. cmd'.options.corpora + cmd'.options.dicts
    BY <1>5, <2>1, TrainCommandAssumption DEF Checked, InRange
  <2>3. CmdInv'
    BY <1>1, <1>2, <1>5, <1>6, <2>1, <2>2 DEF CmdInv, Steps
  <2>4. ExitTellsTheTruth'
    BY <2>1 DEF ExitTellsTheTruth
  <2> QED
    BY <1>1, <2>3, <2>4, CommandStepKeeps
<1>8. CASE status # Running
  <2>1. cmd'.step = "idle" /\ ~cmd'.trains
    BY <1>5, <1>8
  <2>2. CmdInv'
    BY <1>1, <1>2, <1>5, <2>1 DEF CmdInv, Steps
  <2>3. ExitTellsTheTruth'
    BY <1>6, <2>1 DEF ExitTellsTheTruth
  <2> QED
    BY <1>1, <2>2, <2>3, CommandStepKeeps
<1> QED
  BY <1>7, <1>8

\* A command that has not replaced the target has left it as it was.
LEMMA TargetIsEither ==
    ASSUME CInv, cmd.step # "idle", export.step = "idle"
    PROVE  /\ Untouched \/ AsAsked
           /\ cmd.step = "exporting" =>
                 /\ export.outcome = "ok" => AsAsked
                 /\ export.outcome # "ok" => Untouched
           /\ cmd.step # "exporting" => Untouched
<1>1. CmdInv /\ FailureLeavesTarget
  BY DEF CInv, IInv
<1>2. CASE cmd.step = "exporting"
  <2>1. export.outcome = "ok" => AsAsked
    BY <1>1, <1>2 DEF CmdInv, AsAsked, AtTarget, FormatInv, Accepts
  <2>2. export.outcome # "ok" => Untouched
    BY <1>1, <1>2 DEF CmdInv, FailureLeavesTarget, Untouched
  <2> QED
    BY <1>2, <2>1, <2>2
<1>3. CASE cmd.step # "exporting"
  BY <1>1, <1>3 DEF CmdInv
<1> QED
  BY <1>2, <1>3

LEMMA ExitKeeps ==
    ASSUME CInv, UNCHANGED vars, cmd.step # "idle", export.step = "idle",
           NEW status \in {0, 1, Aborted, Killed}, Exit(status),
           status = 1 => Untouched, status = 0 => AsAsked
    PROVE  CInv'
<1>1. /\ CmdInv
      /\ names' = names /\ export' = export /\ format' = format
      /\ loadable' = loadable /\ content' = content
  BY DEF CInv, vars
<1>2. /\ cmd'.step = "idle" /\ cmd'.status = status
      /\ cmd'.trains = cmd.trains /\ cmd'.options = cmd.options /\ cmd'.labeled = cmd.labeled
      /\ cmd'.config = cmd.config /\ cmd'.quantized = cmd.quantized /\ cmd'.before = cmd.before
      /\ cmd' = [trains |-> cmd'.trains, step |-> cmd'.step, options |-> cmd'.options,
                 read |-> cmd'.read, labeled |-> cmd'.labeled, config |-> cmd'.config,
                 quantized |-> cmd'.quantized, status |-> cmd'.status,
                 before |-> cmd'.before, count |-> cmd'.count]
  BY <1>1 DEF Exit, CmdInv
<1>3. CmdInv'
  BY <1>1, <1>2 DEF CmdInv, Steps
<1>4. Untouched' = Untouched /\ AsAsked' = AsAsked
  BY <1>1, <1>2 DEF Untouched, AsAsked
<1>5. ExitTellsTheTruth'
  BY <1>2, <1>4, TargetIsEither DEF ExitTellsTheTruth, Aborted, Killed
<1> QED
  BY <1>3, <1>5, CommandStepKeeps

LEMMA PreparationKeeps ==
    ASSUME CInv, ReadCorpus \/ ReadDictionary \/ ReadingFails \/ BuildExamples \/ ReadDevCorpus \/ Train
    PROVE  CInv'
<1>1. /\ CmdInv /\ UNCHANGED vars
      /\ names' = names /\ export' = export /\ format' = format
      /\ loadable' = loadable /\ content' = content
  BY DEF CInv, vars, ReadCorpus, ReadDictionary, ReadingFails, BuildExamples, ReadDevCorpus, Train
<1>2. cmd.step \in {"read", "dev", "train"}
  BY DEF ReadCorpus, ReadDictionary, ReadingFails, BuildExamples, ReadDevCorpus, Train, ReadingFrom
<1>3. export.step = "idle" /\ Untouched /\ Checked(cmd.options) /\ cmd.trains
  BY <1>1, <1>2 DEF CmdInv
<1>4. cmd.options.corpora \in Nat /\ cmd.options.dicts \in Nat
  BY <1>3, TrainCommandAssumption DEF Checked, InRange
<1>5. CASE Exit(1)
  BY <1>1, <1>2, <1>3, <1>5, ExitKeeps
<1>6. ASSUME cmd'.step # "idle", CmdInv'
      PROVE  CInv'
  <2>1. ExitTellsTheTruth'
    BY <1>6 DEF ExitTellsTheTruth
  <2> QED
    BY <1>1, <1>6, <2>1, CommandStepKeeps
<1>7. CASE ReadCorpus \/ ReadDictionary
  <2>1. /\ cmd'.read = cmd.read + 1 /\ cmd'.step = "read" /\ cmd.step = "read"
        /\ cmd'.trains = cmd.trains /\ cmd'.options = cmd.options /\ cmd'.before = cmd.before
        /\ cmd' = [trains |-> cmd'.trains, step |-> cmd'.step, options |-> cmd'.options,
                   read |-> cmd'.read, labeled |-> cmd'.labeled, config |-> cmd'.config,
                   quantized |-> cmd'.quantized, status |-> cmd'.status,
                   before |-> cmd'.before, count |-> cmd'.count]
    BY <1>1, <1>7 DEF ReadCorpus, ReadDictionary, ReadingFrom, CmdInv
  <2>2. cmd.read \in Nat
    BY <1>1, <1>4, <2>1 DEF CmdInv
  <2>3. cmd.read < cmd.options.corpora + cmd.options.dicts
    <3>1. CASE ReadCorpus
      <4>1. cmd.read \in 0 .. 0 + cmd.options.corpora - 1
        BY <3>1 DEF ReadCorpus, ReadingFrom
      <4> QED
        BY <1>4, <2>2, <4>1
    <3>2. CASE ReadDictionary
      <4>1. cmd.read \in cmd.options.corpora .. cmd.options.corpora + cmd.options.dicts - 1
        BY <3>2 DEF ReadDictionary, ReadingFrom
      <4> QED
        BY <1>4, <2>2, <4>1
    <3> QED
      BY <1>7, <3>1, <3>2
  <2>4. cmd'.read \in 0 .. cmd'.options.corpora + cmd'.options.dicts
    BY <1>4, <2>1, <2>2, <2>3
  <2>5. CmdInv'
    BY <1>1, <1>3, <2>1, <2>4 DEF CmdInv, Steps, Untouched
  <2> QED
    BY <1>6, <2>1, <2>5
\* The corpora and the dictionaries are all read.
<1>8. ASSUME Prepared, cmd.labeled, cmd.read = cmd.options.corpora + cmd.options.dicts
      PROVE  CInv'
  <2>1. cmd.read - cmd.options.corpora = cmd.options.dicts
    BY <1>4, <1>8
  <2>2. /\ Config(cmd.options, cmd.read - cmd.options.corpora) = Asked(cmd.options)
        /\ Plausible(Asked(cmd.options))
    BY <1>3, <2>1, CastIsExact DEF Checked
  <2>3. cmd' = [cmd EXCEPT !.step = "train", !.config = Asked(cmd.options)]
    BY <1>8, <2>2 DEF Prepared
  <2>4. /\ cmd'.step = "train" /\ cmd'.config = Asked(cmd.options) /\ cmd'.labeled = cmd.labeled
        /\ cmd'.trains = cmd.trains /\ cmd'.options = cmd.options /\ cmd'.before = cmd.before
        /\ cmd' = [trains |-> cmd'.trains, step |-> cmd'.step, options |-> cmd'.options,
                   read |-> cmd'.read, labeled |-> cmd'.labeled, config |-> cmd'.config,
                   quantized |-> cmd'.quantized, status |-> cmd'.status,
                   before |-> cmd'.before, count |-> cmd'.count]
    BY <1>1, <2>3 DEF CmdInv
  <2>5. CmdInv'
    BY <1>1, <1>3, <1>8, <2>2, <2>4 DEF CmdInv, Steps, Untouched
  <2> QED
    BY <1>6, <2>4, <2>5
\* To "dev" and to "export", with what they know.
<1>9. ASSUME NEW step \in {"dev", "export"}, NEW quantized,
             cmd' = [cmd EXCEPT !.step = step, !.quantized = quantized], cmd.labeled,
             step = "dev" => cmd.read = cmd.options.corpora + cmd.options.dicts,
             step = "export" => cmd.config = Asked(cmd.options) /\ Plausible(cmd.config)
      PROVE  CInv'
  <2>1. /\ cmd'.step = step /\ cmd'.config = cmd.config /\ cmd'.labeled = cmd.labeled
        /\ cmd'.trains = cmd.trains /\ cmd'.options = cmd.options /\ cmd'.before = cmd.before
        /\ cmd'.read = cmd.read
        /\ cmd' = [trains |-> cmd'.trains, step |-> cmd'.step, options |-> cmd'.options,
                   read |-> cmd'.read, labeled |-> cmd'.labeled, config |-> cmd'.config,
                   quantized |-> cmd'.quantized, status |-> cmd'.status,
                   before |-> cmd'.before, count |-> cmd'.count]
    BY <1>1, <1>9 DEF CmdInv
  <2>2. CmdInv'
    BY <1>1, <1>3, <1>9, <2>1 DEF CmdInv, Steps, Untouched
  <2> QED
    BY <1>6, <2>1, <2>2
<1>10. CASE BuildExamples
  <2>1. cmd.read = cmd.options.corpora + cmd.options.dicts
    BY <1>10 DEF BuildExamples
  <2>2. ASSUME cmd' = [cmd EXCEPT !.step = "dev"]
        PROVE  cmd' = [cmd EXCEPT !.step = "dev", !.quantized = cmd.quantized]
    BY <1>1, <2>2 DEF CmdInv
  <2> QED
    BY <1>5, <1>8, <1>9, <1>10, <2>1, <2>2 DEF BuildExamples
<1>11. CASE ReadDevCorpus
  <2>1. cmd.labeled /\ cmd.read = cmd.options.corpora + cmd.options.dicts
    BY <1>1, <1>11 DEF ReadDevCorpus, CmdInv
  <2> QED
    BY <1>5, <1>8, <1>11, <2>1 DEF ReadDevCorpus
<1>12. CASE Train
  <2>1. cmd.labeled /\ cmd.config = Asked(cmd.options) /\ Plausible(cmd.config)
    BY <1>1, <1>12 DEF Train, CmdInv
  <2> QED
    BY <1>5, <1>9, <1>12, <2>1 DEF Train
<1>13. CASE ReadingFails
  BY <1>5, <1>13 DEF ReadingFails
<1> QED
  BY <1>7, <1>10, <1>11, <1>12, <1>13

LEMMA ExportKeeps ==
    ASSUME CInv, BeginExport \/ ContinueExport
    PROVE  CInv' /\ [Next]_vars
<1>1. CmdInv /\ IInv /\ TypeOK /\ NamesInv /\ ExportInv
  BY DEF CInv, IInv
<1>2. /\ format \in [Models -> Formats \cup {"none"}] /\ loadable \subseteq Models
      /\ export \in Exports /\ export.model \in Models
      /\ names \in [Names -> FilesOrNone]
  BY <1>1 DEF TypeOK, Exports
<1>3. ASSUME CmdInv', IInv', cmd'.step = "exporting"
      PROVE  CInv'
  BY <1>3 DEF CInv, ExitTellsTheTruth
<1>4. CASE BeginExport
  <2> DEFINE fmt == FormatOf[cmd.options.backend]
             accepted == Accepts(cmd.config, cmd.quantized)
  <2>1. /\ cmd.step = "export"
        /\ OpenTmp(fmt, accepted) \/ OpenTmpFails
        /\ cmd' = [cmd EXCEPT !.step = "exporting"]
    BY <1>4 DEF BeginExport
  <2>2. fmt \in TrainedFormats /\ accepted \in BOOLEAN
    <3>1. fmt \in TrainedFormats
      BY <1>1, <2>1 DEF CmdInv, Checked, FormatOf, TrainedFormats
    <3>2. accepted \in BOOLEAN
      BY DEF Accepts
    <3> QED
      BY <3>1, <3>2
  <2>3. IInv' /\ [Next]_vars
    BY <1>1, <2>1, <2>2, OpenTmpKeeps, FailuresKeep DEF Next
  <2>4. /\ cmd'.step = "exporting" /\ cmd'.config = cmd.config /\ cmd'.labeled = cmd.labeled
        /\ cmd'.quantized = cmd.quantized
        /\ cmd'.trains = cmd.trains /\ cmd'.options = cmd.options /\ cmd'.before = cmd.before
        /\ cmd' = [trains |-> cmd'.trains, step |-> cmd'.step, options |-> cmd'.options,
                   read |-> cmd'.read, labeled |-> cmd'.labeled, config |-> cmd'.config,
                   quantized |-> cmd'.quantized, status |-> cmd'.status,
                   before |-> cmd'.before, count |-> cmd'.count]
    BY <1>1, <2>1 DEF CmdInv
  <2>5. /\ cmd.trains /\ Checked(cmd.options) /\ cmd.labeled /\ cmd.before = names["target"]
        /\ cmd.config = Asked(cmd.options) /\ Plausible(cmd.config)
    BY <1>1, <2>1 DEF CmdInv, Untouched
  <2>6. export'.before = names["target"] /\ export'.outcome # "ok"
    BY <2>1 DEF OpenTmp, OpenTmpFails
  <2>7. export'.step # "idle" =>
           format'[export'.model] = fmt /\ (export'.model \in loadable' <=> accepted)
    <3> HIDE DEF fmt, accepted
    <3>1. CASE OpenTmp(fmt, accepted)
      <4>1. /\ export'.model = export.model + 1
            /\ format' = [format EXCEPT ![export.model + 1] = fmt]
            /\ loadable' = IF accepted THEN loadable \cup {export.model + 1}
                           ELSE loadable \ {export.model + 1}
        BY <3>1 DEF OpenTmp
      <4>2. export.model + 1 \in Models
        BY <1>2, <3>1, ModelFileAssumption DEF OpenTmp, Models
      <4> QED
        BY <1>2, <4>1, <4>2
    <3>2. CASE OpenTmpFails
      BY <3>2 DEF OpenTmpFails
    <3> QED
      BY <2>1, <3>1, <3>2
  <2>8. FormatOf[cmd'.options.backend] = fmt /\ (Accepts(cmd'.config, cmd'.quantized) <=> accepted)
    BY <2>4
  <2> HIDE DEF fmt, accepted
  <2>9. CmdInv'
    BY <2>4, <2>5, <2>6, <2>7, <2>8 DEF CmdInv, Steps, FormatInv
  <2> QED
    BY <1>3, <2>3, <2>4, <2>9
<1>5. CASE ContinueExport
  <2>1. /\ WritePart \/ Close \/ WriteFails \/ Rename \/ RenameFails
        /\ cmd' = cmd
    BY <1>5 DEF ContinueExport
  <2>2. IInv' /\ [Next]_vars
    BY <1>1, <2>1, WritePartKeeps, CloseKeeps, FailuresKeep, RenameKeeps DEF Next
  <2>3. export.step # "idle"
    BY <2>1 DEF WritePart, Close, WriteFails, Rename, RenameFails
  <2>4. cmd.step = "exporting" /\ export.before = cmd.before /\ FormatInv
    BY <1>1, <2>3 DEF CmdInv
  <2>5. /\ export'.before = export.before /\ export'.model = export.model
        /\ format' = format /\ loadable' = loadable
    BY <1>2, <2>1 DEF WritePart, Close, WriteFails, Rename, RenameFails, Exports, exportOnly
  <2>6. export'.outcome = "ok" => AtTarget'
    <3>1. CASE Rename
      <4>1. /\ export.file \in Files /\ names["tmp"] = export.file
            /\ content[export.file] = Complete(export.model)
        BY <1>1, <3>1 DEF ExportInv, Rename
      <4>2. names'["target"] = export.file /\ content' = content
        BY <1>2, <3>1, <4>1 DEF Rename, TmpName, Names
      <4> QED
        BY <2>5, <4>1, <4>2, NoneIsNoFile DEF AtTarget
    <3>2. CASE WritePart \/ Close \/ WriteFails \/ RenameFails
      <4>1. export.outcome = "none"
        BY <1>1, <2>3 DEF ExportInv
      <4>2. export'.outcome # "ok"
        BY <1>2, <3>2, <4>1 DEF WritePart, Close, WriteFails, RenameFails, Exports
      <4> QED
        BY <4>2
    <3> QED
      BY <2>1, <3>1, <3>2
  <2>7. CmdInv'
    BY <1>1, <2>1, <2>4, <2>5, <2>6 DEF CmdInv, FormatInv
  <2> QED
    BY <1>3, <2>1, <2>2, <2>4, <2>7
<1> QED
  BY <1>4, <1>5

LEMMA EndingsKeep ==
    ASSUME CInv, FinishExport \/ Uncaught \/ Kill
    PROVE  CInv' /\ [Next]_vars
<1>1. CmdInv /\ IInv
  BY DEF CInv
<1>2. cmd.step # "idle"
  BY DEF FinishExport, Uncaught, Kill
<1>3. CASE FinishExport
  <2>1. /\ cmd.step = "exporting" /\ export.step = "idle" /\ Exit(StatusOf) /\ UNCHANGED vars
        /\ StatusOf = IF export.outcome = "ok" THEN 0 ELSE 1
    BY <1>3 DEF FinishExport, StatusOf
  <2>2. StatusOf \in {0, 1} /\ (StatusOf = 0 => AsAsked) /\ (StatusOf = 1 => Untouched)
    BY <1>2, <2>1, TargetIsEither
  <2> QED
    BY <1>2, <2>1, <2>2, ExitKeeps
<1>4. CASE Uncaught
  BY <1>2, <1>4, ExitKeeps DEF Uncaught, Aborted
<1>5. CASE Kill
  <2>1. CASE export.step = "idle" /\ UNCHANGED vars
    BY <1>2, <1>5, <2>1, ExitKeeps DEF Kill, Killed
  <2>2. CASE Crash
    <3>1. /\ cmd.step = "exporting" /\ export.before = cmd.before /\ export.outcome = "none"
          /\ export \in Exports
      BY <1>1, <2>2 DEF Crash, CmdInv, IInv, ExportInv, TypeOK, Exports
    <3>2. /\ export'.step = "idle" /\ names' = names
          /\ IInv' /\ [Next]_vars
      BY <1>1, <2>2, <3>1, FailuresKeep DEF Crash, Next, Exports
    <3>3. cmd' = [cmd EXCEPT !.step = "idle", !.status = 137]
      BY <1>5 DEF Kill, Exit, Killed
    <3>4. /\ cmd'.step = "idle" /\ cmd'.status = 137 /\ cmd'.before = cmd.before
          /\ cmd' = [trains |-> cmd'.trains, step |-> cmd'.step, options |-> cmd'.options,
                     read |-> cmd'.read, labeled |-> cmd'.labeled, config |-> cmd'.config,
                     quantized |-> cmd'.quantized, status |-> cmd'.status,
                     before |-> cmd'.before, count |-> cmd'.count]
      BY <1>1, <3>3 DEF CmdInv
    <3>5. Untouched'
      BY <1>1, <3>1, <3>2, <3>4 DEF IInv, FailureLeavesTarget, Untouched
    <3>6. CmdInv'
      BY <3>2, <3>4 DEF CmdInv, Steps
    <3>7. ExitTellsTheTruth'
      BY <3>4, <3>5 DEF ExitTellsTheTruth
    <3> QED
      BY <3>2, <3>6, <3>7 DEF CInv
  <2> QED
    BY <1>5, <2>1, <2>2 DEF Kill
<1> QED
  BY <1>3, <1>4, <1>5

LEMMA OthersKeep ==
    ASSUME CInv, OtherProcess
    PROVE  CInv' /\ [Next]_vars
<1>1. /\ SniffFails \/ Sniff \/ OpenModel \/ ReadModel \/ ReadFails
      /\ cmd' = cmd
  BY DEF OtherProcess
<1>2. IInv' /\ [Next]_vars
  BY <1>1, LoadsKeep DEF CInv, Next
<1>3. /\ format' = format /\ loadable' = loadable /\ names' = names
      /\ content' = content /\ export' = export
  BY <1>1 DEF SniffFails, Sniff, OpenModel, ReadModel, ReadFails, loadOnly
<1>4. CmdInv'
  BY <1>1, <1>3 DEF CInv, CmdInv, Untouched, FormatInv, AtTarget
<1>5. ExitTellsTheTruth'
  BY <1>1, <1>3 DEF CInv, ExitTellsTheTruth, Untouched, AsAsked
<1> QED
  BY <1>2, <1>4, <1>5 DEF CInv

LEMMA CommandStepInvariant ==
    ASSUME CInv, [CommandNext]_commandVars
    PROVE  CInv' /\ [Next]_vars
<1>1. CASE \E line \in CommandLines : Start(line)
  BY <1>1, StartKeeps DEF Start
<1>2. CASE ReadCorpus \/ ReadDictionary \/ ReadingFails \/ BuildExamples \/ ReadDevCorpus \/ Train
  BY <1>2, PreparationKeeps
     DEF ReadCorpus, ReadDictionary, ReadingFails, BuildExamples, ReadDevCorpus, Train
<1>3. CASE BeginExport \/ ContinueExport
  BY <1>3, ExportKeeps
<1>4. CASE FinishExport \/ Uncaught \/ Kill
  BY <1>4, EndingsKeep
<1>5. CASE OtherProcess
  BY <1>5, OthersKeep
<1>6. CASE UNCHANGED commandVars
  <2>1. UNCHANGED vars /\ cmd' = cmd
    BY <1>6 DEF commandVars
  <2>2. CmdInv' /\ ExitTellsTheTruth'
    BY <2>1 DEF CInv, vars, CmdInv, ExitTellsTheTruth, Untouched, AsAsked, FormatInv, AtTarget
  <2> QED
    BY <2>1, <2>2, CommandStepKeeps
<1> QED
  BY <1>1, <1>2, <1>3, <1>4, <1>5, <1>6 DEF CommandNext

(* What is kept between the steps of a command and of the other processes. *)
THEOREM CommandInvariance == CommandSpec => []CInv
<1>1. CommandInit => CInv
  BY CommandInitInvariant
<1>2. CInv /\ [CommandNext]_commandVars => CInv'
  BY CommandStepInvariant
<1> QED
  BY <1>1, <1>2, PTL DEF CommandSpec

(***************************************************************************)
(* A sequence of commands, whatever their arguments and failures, moves    *)
(* the files only by the steps of ModelFile: what holds of Spec, such as   *)
(* TargetAlwaysWhole and LoadsAreConsistent, holds of the program.         *)
(***************************************************************************)
THEOREM CommandsImplementModelFile == CommandSpec => Spec
<1>1. CommandInit => Init
  BY DEF CommandInit
<1>2. CInv /\ [CommandNext]_commandVars => [Next]_vars
  BY CommandStepInvariant
<1> QED
  BY <1>1, <1>2, CommandInvariance, PTL DEF CommandSpec, Spec

(***************************************************************************)
(* Status 0 of a training command means a whole model of the backend and   *)
(* the shape asked for, 1 and 2 that the target is untouched: for every    *)
(* width of the header's fields and every command line.                    *)
(***************************************************************************)
THEOREM StatusIsTrue == CommandSpec => []ExitTellsTheTruth
<1>1. CInv => ExitTellsTheTruth
  BY DEF CInv
<1> QED
  BY <1>1, CommandInvariance, PTL
=============================================================================
