-------------------------- MODULE Generation_proofs --------------------------
(***************************************************************************)
(* Theorems about Generation for any versions, references, claims,         *)
(* failures and workers.  The invariant has four parts beside the shape of *)
(* the state: how far behind the inputs a run may be (PhaseInv), what the  *)
(* memo and a conversion in flight know (MemoInv, ConvInv), how far the    *)
(* compile has come (ProgressInv), and what the files on disk were made    *)
(* from (FilesInv).                                                        *)
(***************************************************************************)
EXTENDS Generation, TLAPS

USE DEF templatesFile, binderFile, assetFiles

Busy(g) == conv[g].at # "idle"

\* A run may fall behind the package's inputs only when they change under it, and
\* then they never come back.
PhaseInv ==
  /\ setting = "forward" => latest = pkg
  /\ pc # "idle" => fp <= pkg /\ (setting = "quiet" => fp = pkg)
  /\ pc \in {"compiling", "extracting", "recording", "generating", "stamping"} =>
       fp <= compiled /\ compiled <= pkg

\* What the memo says of a value is what the hook makes of its source.
MemoInv ==
  /\ \A v \in Value :
       /\ pc \in {"idle", "checking"} => memo[v].at = "none"
       /\ memo[v].at = "none" => runs[v] = 0
       /\ runs[v] <= 1
       /\ memo[v].at = "done" => memo[v].made = Convert(v, src[v])
  /\ \A v \in ahead : memo[v].at = "none"
  /\ ahead # {} => pc = "prewarming"

\* A conversion in flight has its entry to itself, and a key that still fits its
\* source.
ConvInv ==
  /\ \A g \in Goroutine :
       Busy(g) =>
         /\ \/ pc = "prewarming" /\ g # "main"
            \/ pc = "compiling" /\ g = "main" /\ upto <= Len(Claims[compiled])
         /\ conv[g].value \in Value
         /\ memo[conv[g].value].at = "running"
         /\ conv[g].at # "storing" => runs[conv[g].value] = 0
         /\ conv[g].at # "looking" => conv[g].key = src[conv[g].value]
         /\ conv[g].at = "storing" =>
              /\ conv[g].key # 0
              /\ memo[conv[g].value].made = Convert(conv[g].value, conv[g].key)
  /\ \A g, h \in Goroutine :
       Busy(g) /\ Busy(h) /\ conv[g].value = conv[h].value => g = h

\* The references the compile went past were converted, and all were when the
\* static files are written.
ProgressInv ==
  /\ pc = "compiling" =>
       \A i \in DOMAIN Claims[compiled] :
         i < upto => /\ memo[Claims[compiled][i]].at = "done"
                     /\ memo[Claims[compiled][i]].made # 0
  /\ pc = "extracting" =>
       \A v \in Claimed(compiled) : memo[v].made = src[v] /\ src[v] # 0

\* The record names what templates made of version p and sources s were read from.
Recorded(p, s) ==
  /\ deps.is = "absent" => Claimed(p) = {}
  /\ deps.is = "record" => deps.reads = { << v, s[v] >> : v \in Claimed(p) }

\* A fingerprint nobody will ask for again: the inputs have gone on.
Outdated(n) == /\ setting = "forward" /\ n < pkg
               /\ pc = "checking" => n < fp

\* The templates file was made of version n, of sources the record stands for, and
\* so were the static files unless somebody touched them.
TemplatesOf(n) ==
  \E s \in [Value -> Version \cup {0}] :
    /\ out[1].made = Templates(n, s) /\ Recorded(n, s)
    /\ touched \/ out[3].made = Assets(n, s)

\* A stamp tells what its file was made from, unless it is outdated.
FilesInv ==
  /\ out[1].stamp # 0 => TemplatesOf(out[1].stamp) \/ Outdated(out[1].stamp)
  /\ out[2].stamp # 0 => out[2].made = Binder(out[2].stamp) \/ Outdated(out[2].stamp)
  /\ pc \in {"extracting", "recording"} =>
       out[1].stamp = 0 /\ \A v \in Claimed(compiled) : src[v] # 0
  /\ pc \in {"extracting", "recording", "generating", "stamping"} =>
       out[1].made = Templates(compiled, src)
  /\ pc \in {"recording", "generating", "stamping"} => out[3].made = Assets(compiled, src)
  /\ pc \in {"generating", "stamping"} => Recorded(compiled, src)
  /\ pc = "stamping" => \E p \in Version : fp <= p /\ p <= pkg /\ out[2].made = Binder(p)

GenInv == TypeOK /\ PhaseInv /\ MemoInv /\ ConvInv /\ CacheIsTrue /\ ProgressInv /\ FilesInv

-----------------------------------------------------------------------------
(* What the data are.                                                      *)

\* A conversion makes of a source that source or nothing.
LEMMA ConvertKinds ==
  ASSUME NEW v, NEW n PROVE Convert(v, n) \in {0, n}
BY DEF Convert

\* Templates refer to values.
LEMMA ClaimsAreValues ==
  ASSUME NEW p \in Version
  PROVE  /\ Claimed(p) \subseteq Value
         /\ Claims[p] \in Seq(Value)
         /\ \A i \in DOMAIN Claims[p] : Claims[p][i] \in Value
         /\ \A v \in Claimed(p) : \E i \in DOMAIN Claims[p] : Claims[p][i] = v
<1>1. Claims[p] \in Seq(Value)
  BY InputAssumption
<1>2. \A i \in DOMAIN Claims[p] : Claims[p][i] \in Value
  BY <1>1
<1> QED BY <1>1, <1>2 DEF Claimed, ToSet

\* A run that is over leaves the parts that are about a run.
LEMMA OverKeeps ==
  ASSUME GenInv, Over, UNCHANGED << inputVars, cache >>, touched' \in BOOLEAN,
         out' \in [Output -> [made : SUBSET ((Value \cup {"templates", "assets", "binder"}) \X Version),
                            stamp : Version \cup {0}]],
         deps' \in [is : {"absent", "record", "malformed"}, reads : SUBSET (Value \X Version)]
  PROVE  TypeOK' /\ PhaseInv' /\ MemoInv' /\ ConvInv' /\ CacheIsTrue' /\ ProgressInv'
<1> USE InputAssumption DEF GenInv, Over, inputVars
<1>1. TypeOK'
  BY DEF TypeOK, NoMemo, Idle
<1>2. PhaseInv'
  BY DEF PhaseInv
<1>3. MemoInv'
  BY DEF MemoInv, NoMemo
<1>4. ConvInv'
  BY DEF ConvInv, Busy, Idle
<1>5. CacheIsTrue' /\ ProgressInv'
  BY DEF CacheIsTrue, ProgressInv
<1> QED BY <1>1, <1>2, <1>3, <1>4, <1>5

\* What the files hold is untouched by a step that writes none.
LEMMA FilesStay ==
  ASSUME FilesInv, UNCHANGED << setting, pkg, src, out, touched, deps >>,
         \/ pc' = pc /\ UNCHANGED << compiled, fp >>
         \/ pc' \in {"idle", "prewarming", "compiling"}
  PROVE  FilesInv'
<1>1. \A n : TemplatesOf(n) => TemplatesOf(n)'
  BY DEF TemplatesOf, Recorded
<1>2. \A n : Outdated(n) => Outdated(n)'
  BY DEF Outdated
<1> QED BY <1>1, <1>2 DEF FilesInv, Recorded

-----------------------------------------------------------------------------
(* The steps.                                                              *)

LEMMA BeginKeeps ==
  ASSUME GenInv, NEW forced \in BOOLEAN, Begin(forced) PROVE GenInv'
<1> USE DEF GenInv, Begin, inputVars, diskVars, memoVars
<1>1. TypeOK'
  BY DEF TypeOK
<1>2. PhaseInv'
  BY InputAssumption DEF PhaseInv, TypeOK
<1>3. MemoInv' /\ ConvInv' /\ CacheIsTrue' /\ ProgressInv'
  BY DEF MemoInv, ConvInv, Busy, CacheIsTrue, ProgressInv
<1>4. FilesInv'
  <2>1. \A n : TemplatesOf(n) => TemplatesOf(n)'
    BY DEF TemplatesOf, Recorded
  <2>2. \A n : Outdated(n) => Outdated(n)'
    BY DEF Outdated
  <2> QED BY <2>1, <2>2 DEF FilesInv
<1> QED BY <1>1, <1>2, <1>3, <1>4

LEMMA CheckKeeps ==
  ASSUME GenInv, Check PROVE GenInv'
<1> USE DEF GenInv, inputVars, diskVars
<1>1. CASE Over
  <2>1. UNCHANGED << inputVars, diskVars >> /\ pc' = "idle"
    BY <1>1 DEF Check, Over
  <2>2. TypeOK' /\ PhaseInv' /\ MemoInv' /\ ConvInv' /\ CacheIsTrue' /\ ProgressInv'
    BY <1>1, <2>1, OverKeeps DEF TypeOK
  <2> QED BY <2>1, <2>2, FilesStay
<1>2. CASE ~Over
  <2>1. /\ pc = "checking" /\ pc' = "prewarming" /\ force' = FALSE
        /\ ahead' \in {Claimed(pkg), {}}
        /\ UNCHANGED << fp, memo, runs, conv, compiled, upto >>
        /\ UNCHANGED << inputVars, diskVars >>
    BY <1>2 DEF Check
  <2>2. ahead' \subseteq Value
    BY <2>1, ClaimsAreValues DEF TypeOK
  <2>3. TypeOK'
    BY <2>1, <2>2 DEF TypeOK
  <2>4. PhaseInv' /\ CacheIsTrue' /\ ProgressInv'
    BY <2>1 DEF PhaseInv, CacheIsTrue, ProgressInv
  <2>5. MemoInv' /\ ConvInv'
    BY <2>1, <2>2 DEF MemoInv, ConvInv, Busy
  <2> QED BY <2>1, <2>3, <2>4, <2>5, FilesStay
<1> QED BY <1>1, <1>2

\* The outcome of a conversion goes into the memo.
LEMMA AnswerKeeps ==
  ASSUME GenInv, NEW g \in Goroutine, Busy(g),
         Answer(g, Convert(conv[g].value, src[conv[g].value])),
         UNCHANGED << inputVars, out, touched, deps, pc, fp, force, ahead, compiled, upto >>,
         runs' \in [Value -> Nat], runs'[conv[g].value] <= 1,
         \A w \in Value \ {conv[g].value} : runs'[w] = runs[w],
         cache' \in [Value \X Version -> Version \cup {0}], CacheIsTrue'
  PROVE  GenInv'
<1> USE DEF GenInv, inputVars
<1>a. PICK v \in Value : v = conv[g].value
  BY DEF ConvInv
<1>b. PICK made : made = Convert(v, src[v])
  OBVIOUS
<1>1. memo[v].at = "running" /\ pc \in {"prewarming", "compiling"}
  BY <1>a DEF ConvInv
<1>2. made \in Version \cup {0}
  BY <1>b, ConvertKinds DEF TypeOK
<1>3. /\ memo' = [memo EXCEPT ![v] = [at |-> "done", made |-> made]]
      /\ conv' = [conv EXCEPT ![g] = Idle]
  BY <1>a, <1>b DEF Answer
<1>4. memo' \in [Value -> [at : {"none", "running", "done"}, made : Version \cup {0}]]
  BY <1>1, <1>2, <1>3 DEF TypeOK
<1>5. conv' \in [Goroutine -> [at : {"idle", "looking", "transforming", "storing"},
                               value : Value \cup {"none"}, key : Version \cup {0}]]
  BY <1>1, <1>3 DEF TypeOK, Idle
<1>6. TypeOK'
  BY <1>4, <1>5 DEF TypeOK
<1>7. /\ memo'[v].at = "done" /\ memo'[v].made = made
      /\ \A w \in Value \ {v} : memo'[w] = memo[w]
      /\ conv'[g].at = "idle"
      /\ \A h \in Goroutine \ {g} : conv'[h] = conv[h]
  BY <1>1, <1>3 DEF TypeOK, Idle
<1>8. PhaseInv'
  BY DEF PhaseInv
<1>9. MemoInv'
  <2>1. \A w \in Value : Convert(w, src'[w]) = Convert(w, src[w])
    OBVIOUS
  <2>2. \A w \in Value : runs'[w] <= 1
    BY <1>a DEF MemoInv
  <2>3. \A w \in ahead : w \in Value /\ w # v
    BY <1>1 DEF MemoInv, TypeOK
  <2> QED BY <1>a, <1>b, <1>1, <1>7, <2>1, <2>2, <2>3 DEF MemoInv
<1>10. ConvInv'
  <2>1. \A h \in Goroutine : Busy(h)' => h # g /\ Busy(h) /\ conv'[h] = conv[h] /\ conv[h].value # v
    BY <1>a, <1>7 DEF ConvInv, Busy
  <2> QED BY <1>7, <2>1, SMTT(30) DEF ConvInv, Busy, Convert
<1>11. ProgressInv'
  <2>1. \A i \in DOMAIN Claims[compiled] : Claims[compiled][i] \in Value
    BY ClaimsAreValues DEF TypeOK
  <2> QED BY <1>1, <1>7, <2>1 DEF ProgressInv
<1>12. FilesInv'
  BY FilesStay
<1> QED BY <1>6, <1>8, <1>9, <1>10, <1>11, <1>12

LEMMA LookKeeps ==
  ASSUME GenInv, NEW g \in Goroutine, Look(g) PROVE GenInv'
<1> USE DEF GenInv, inputVars, diskVars
<1>a. PICK v \in Value : v = conv[g].value
  BY DEF Look, Busy, ConvInv
<1>b. PICK n \in Version \cup {0} : n = src[v]
  BY DEF TypeOK
<1>1. Busy(g) /\ conv[g].at = "looking" /\ runs[v] = 0
  BY <1>a DEF Look, Busy, ConvInv
<1>2. CASE n # 0 /\ cache[<< v, n >>] # 0
  <2>1. Answer(g, cache[<< v, n >>])
    BY <1>a, <1>b, <1>2 DEF Look
  <2>2. cache[<< v, n >>] = Convert(v, n)
    BY <1>b, <1>2 DEF CacheIsTrue, TypeOK
  <2>3. UNCHANGED << inputVars, diskVars, pc, fp, force, runs, ahead, compiled, upto >>
    BY <1>a, <1>b, <1>2 DEF Look
  <2>4. CacheIsTrue'
    BY <2>3 DEF CacheIsTrue, Convert
  <2>5. Answer(g, Convert(conv[g].value, src[conv[g].value]))
    BY <1>a, <1>b, <2>1, <2>2
  <2>6. /\ runs' \in [Value -> Nat] /\ runs'[conv[g].value] <= 1
        /\ \A w \in Value \ {conv[g].value} : runs'[w] = runs[w]
    BY <1>a, <1>1, <2>3 DEF TypeOK
  <2>7. cache' \in [Value \X Version -> Version \cup {0}]
    BY <2>3 DEF TypeOK
  <2> QED BY <1>1, <2>3, <2>4, <2>5, <2>6, <2>7, AnswerKeeps
<1>3. CASE ~(n # 0 /\ cache[<< v, n >>] # 0)
  <2>1. /\ conv' = [conv EXCEPT ![g] = [at |-> "transforming", value |-> v, key |-> n]]
        /\ UNCHANGED << inputVars, diskVars, pc, fp, force, memo, runs, ahead, compiled, upto >>
    BY <1>a, <1>b, <1>3 DEF Look
  <2>2. conv' \in [Goroutine -> [at : {"idle", "looking", "transforming", "storing"},
                                 value : Value \cup {"none"}, key : Version \cup {0}]]
    BY <2>1 DEF TypeOK
  <2>3. TypeOK'
    BY <2>1, <2>2 DEF TypeOK
  <2>4. /\ conv'[g].at = "transforming" /\ conv'[g].key = n /\ conv'[g].value = v
        /\ \A h \in Goroutine \ {g} : conv'[h] = conv[h]
    BY <2>1 DEF TypeOK
  <2>5. ConvInv'
    <3>1. \A h \in Goroutine : (Busy(h)' <=> Busy(h)) /\ conv'[h].value = conv[h].value
      BY <1>a, <1>1, <2>4 DEF Busy
    <3>2. ASSUME NEW h \in Goroutine, h # g PROVE conv'[h] = conv[h]
      BY <2>4, <3>2
    <3> QED BY <1>a, <1>b, <1>1, <2>1, <2>4, <3>1, <3>2 DEF ConvInv, Busy
  <2>6. PhaseInv' /\ MemoInv' /\ CacheIsTrue' /\ ProgressInv'
    BY <2>1 DEF PhaseInv, MemoInv, CacheIsTrue, ProgressInv, Convert
  <2> QED BY <2>1, <2>3, <2>5, <2>6, FilesStay
<1> QED BY <1>2, <1>3

LEMMA TransformKeeps ==
  ASSUME GenInv, NEW g \in Goroutine, Transform(g) PROVE GenInv'
<1> DEFINE v == conv[g].value
           made == Convert(v, src[v])
<1> USE DEF GenInv, inputVars, diskVars
<1>1. /\ Busy(g) /\ v \in Value /\ src[v] \in Version \cup {0} /\ conv[g].at = "transforming"
      /\ runs[v] = 0 /\ conv[g].key = src[v] /\ memo[v].at = "running"
      /\ pc \in {"prewarming", "compiling"}
  BY DEF Transform, Busy, ConvInv, TypeOK
<1>2. /\ runs' = [runs EXCEPT ![v] = @ + 1]
      /\ UNCHANGED << inputVars, diskVars, pc, fp, force, ahead, compiled, upto >>
  BY DEF Transform
<1>3. runs' \in [Value -> Nat] /\ runs'[v] = 1 /\ \A w \in Value \ {v} : runs'[w] = runs[w]
  BY <1>1, <1>2 DEF TypeOK
<1>4. CacheIsTrue'
  BY <1>2 DEF CacheIsTrue, Convert
<1>5. CASE made = 0 \/ conv[g].key = 0
  <2>1. Answer(g, made)
    BY <1>5 DEF Transform
  <2>2. runs'[v] <= 1 /\ cache' \in [Value \X Version -> Version \cup {0}]
    BY <1>2, <1>3 DEF TypeOK
  <2> QED BY <1>1, <1>2, <1>3, <1>4, <2>1, <2>2, AnswerKeeps
<1>6. CASE ~(made = 0 \/ conv[g].key = 0)
  <2>1. /\ conv' = [conv EXCEPT ![g].at = "storing"]
        /\ memo' = [memo EXCEPT ![v].made = made]
    BY <1>6 DEF Transform
  <2>2. made \in Version \cup {0}
    BY <1>1, ConvertKinds
  <2> HIDE DEF made
  <2>3. conv' \in [Goroutine -> [at : {"idle", "looking", "transforming", "storing"},
                                 value : Value \cup {"none"}, key : Version \cup {0}]]
    BY <2>1, ZenonT(60) DEF TypeOK
  <2>4. memo' \in [Value -> [at : {"none", "running", "done"}, made : Version \cup {0}]]
    BY <1>1, <2>1, <2>2 DEF TypeOK
  <2>5. TypeOK'
    BY <1>2, <1>3, <2>3, <2>4, SMTT(30) DEF TypeOK
  <2>6. /\ conv'[g].at = "storing" /\ conv'[g].key = conv[g].key /\ conv'[g].value = v
        /\ \A h \in Goroutine \ {g} : conv'[h] = conv[h]
        /\ memo'[v].at = "running" /\ memo'[v].made = made
        /\ \A w \in Value \ {v} : memo'[w] = memo[w]
    BY <1>1, <2>1 DEF TypeOK
  <2>7. MemoInv'
    BY <1>1, <1>2, <1>3, <2>6 DEF MemoInv, Convert, TypeOK
  <2>8. ConvInv'
    <3>1. \A h \in Goroutine : (Busy(h)' <=> Busy(h)) /\ conv'[h].value = conv[h].value
      BY <1>1, <2>6 DEF Busy
    <3>2. \A h \in Goroutine \ {g} : Busy(h) => conv[h].value # v
      BY <1>1 DEF ConvInv
    <3> QED BY <1>1, <1>2, <1>3, <1>6, <2>6, <3>1, <3>2, SMTT(30) DEF ConvInv, Busy, Convert, made
  <2>9. ProgressInv'
    <3>1. \A i \in DOMAIN Claims[compiled] : Claims[compiled][i] \in Value
      BY ClaimsAreValues DEF TypeOK
    <3> QED BY <1>1, <1>2, <2>6, <3>1 DEF ProgressInv
  <2>10. PhaseInv'
    BY <1>2 DEF PhaseInv
  <2> QED BY <1>2, <1>4, <2>5, <2>7, <2>8, <2>9, <2>10, FilesStay
<1> QED BY <1>5, <1>6

LEMMA StoreKeeps ==
  ASSUME GenInv, NEW g \in Goroutine, Store(g) PROVE GenInv'
<1> DEFINE v == conv[g].value
<1> USE DEF GenInv, inputVars, diskVars
<1>1. /\ Busy(g) /\ v \in Value /\ conv[g].at = "storing"
      /\ conv[g].key = src[v] /\ conv[g].key \in Version
      /\ memo[v].made = Convert(v, src[v]) /\ memo[v].made \in Version \cup {0}
  BY ZenonT(60) DEF Store, Busy, ConvInv, TypeOK
<1>2. /\ Answer(g, Convert(v, src[v]))
      /\ cache' \in { cache, [cache EXCEPT ![<< v, conv[g].key >>] = memo[v].made] }
      /\ UNCHANGED << inputVars, out, touched, deps, pc, fp, force, runs, ahead, compiled, upto >>
  BY <1>1 DEF Store
<1>3. cache' \in [Value \X Version -> Version \cup {0}]
  BY <1>1, <1>2 DEF TypeOK
<1>4. CacheIsTrue'
  <2>1. ASSUME NEW c \in Value \X Version PROVE cache'[c] \in {0, Convert(c[1], c[2])}
    <3>1. CASE c = << v, conv[g].key >> /\ cache' # cache
      BY <1>1, <1>2, <3>1 DEF TypeOK
    <3>2. CASE ~(c = << v, conv[g].key >> /\ cache' # cache)
      <4>1. cache'[c] = cache[c]
        BY <1>2, <3>2 DEF TypeOK
      <4> QED BY <4>1 DEF CacheIsTrue, TypeOK
    <3> QED BY <3>1, <3>2
  <2> QED BY <1>3, <2>1 DEF CacheIsTrue, Convert
<1>5. runs[v] <= 1
  BY <1>1 DEF MemoInv
<1> QED BY <1>1, <1>2, <1>3, <1>4, <1>5, AnswerKeeps DEF TypeOK

\* A goroutine takes a value nobody asked for before.
LEMMA EnterKeeps ==
  ASSUME GenInv, NEW g \in Goroutine, NEW v \in Value, ~Busy(g), Enter(g, v),
         memo[v].at = "none",
         \/ pc = "prewarming" /\ g # "main"
         \/ pc = "compiling" /\ g = "main" /\ upto <= Len(Claims[compiled]),
         UNCHANGED << inputVars, diskVars, pc, fp, force, runs, compiled, upto >>,
         ahead' \subseteq ahead \ {v}
  PROVE  GenInv'
<1> USE DEF GenInv, inputVars, diskVars
<1>1. /\ memo' = [memo EXCEPT ![v].at = "running"]
      /\ conv' = [conv EXCEPT ![g] = [at |-> "looking", value |-> v, key |-> 0]]
  BY DEF Enter
<1>2. /\ memo' \in [Value -> [at : {"none", "running", "done"}, made : Version \cup {0}]]
      /\ conv' \in [Goroutine -> [at : {"idle", "looking", "transforming", "storing"},
                                  value : Value \cup {"none"}, key : Version \cup {0}]]
  <2>1. memo[v] \in [at : {"none", "running", "done"}, made : Version \cup {0}]
    BY DEF TypeOK
  <2>2. [memo[v] EXCEPT !.at = "running"]
          \in [at : {"none", "running", "done"}, made : Version \cup {0}]
    BY <2>1
  <2>3. memo' = [memo EXCEPT ![v] = [memo[v] EXCEPT !.at = "running"]]
    BY <1>1
  <2>4. memo' \in [Value -> [at : {"none", "running", "done"}, made : Version \cup {0}]]
    BY <2>2, <2>3 DEF TypeOK
  <2> QED BY <1>1, <2>4 DEF TypeOK
<1>3. TypeOK'
  BY <1>2 DEF TypeOK
<1>4. /\ memo'[v].at = "running" /\ \A w \in Value \ {v} : memo'[w] = memo[w]
      /\ conv'[g] = [at |-> "looking", value |-> v, key |-> 0]
      /\ \A h \in Goroutine \ {g} : conv'[h] = conv[h]
      /\ runs[v] = 0
  BY <1>1 DEF TypeOK, MemoInv
<1>5. PhaseInv' /\ CacheIsTrue'
  BY DEF PhaseInv, CacheIsTrue, Convert
<1>6. MemoInv'
  <2>1. \A w \in ahead' : w \in Value /\ w # v /\ w \in ahead
    BY DEF TypeOK
  <2> QED BY <1>4, <2>1 DEF MemoInv, Convert
<1>7. ConvInv'
  <2>1. \A h \in Goroutine : Busy(h)' /\ h # g => Busy(h) /\ conv[h].value # v
    BY <1>4 DEF ConvInv, Busy
  <2> QED BY <1>4, <2>1 DEF ConvInv, Busy
<1>8. ProgressInv'
  <2>1. \A i \in DOMAIN Claims[compiled] : Claims[compiled][i] \in Value
    BY ClaimsAreValues DEF TypeOK
  <2> QED BY <1>4, <2>1 DEF ProgressInv
<1> QED BY <1>3, <1>5, <1>6, <1>7, <1>8, FilesStay

LEMMA TakeKeeps ==
  ASSUME GenInv, NEW w \in Workers, Take(w) PROVE GenInv'
<1> USE DEF Take
<1>1. PICK v \in ahead : Enter(w, v) /\ ahead' = ahead \ {v}
  OBVIOUS
<1>2. v \in Value /\ memo[v].at = "none" /\ w \in Goroutine /\ w # "main" /\ ~Busy(w)
  BY InputAssumption DEF GenInv, TypeOK, MemoInv, Goroutine, Busy
<1> QED BY <1>1, <1>2, EnterKeeps

LEMMA EndPrewarmKeeps ==
  ASSUME GenInv, EndPrewarm PROVE GenInv'
<1> USE InputAssumption DEF GenInv, EndPrewarm, inputVars, diskVars, memoVars
<1>1. TypeOK'
  BY DEF TypeOK
<1>2. PhaseInv' /\ MemoInv' /\ CacheIsTrue'
  BY DEF PhaseInv, MemoInv, CacheIsTrue, TypeOK
<1>4. ConvInv'
  <2>1. \A g \in Goroutine : ~Busy(g)
    BY DEF ConvInv, Busy, Goroutine
  <2> QED BY <2>1 DEF ConvInv, Busy
<1>3. ProgressInv'
  <2>1. Claims'[compiled'] \in Seq(Value)
    BY ClaimsAreValues DEF TypeOK
  <2> QED BY <2>1 DEF ProgressInv
<1> QED BY <1>1, <1>2, <1>3, <1>4, FilesStay

LEMMA CompileKeeps ==
  ASSUME GenInv, Compile PROVE GenInv'
<1> USE DEF GenInv, inputVars, diskVars, memoVars
<1>0. /\ pc = "compiling" /\ ~Busy("main") /\ upto <= Len(Claims[compiled])
      /\ UNCHANGED << inputVars, diskVars >>
  BY DEF Compile, Busy
<1>1. PICK v : v = Claims[compiled][upto]
  OBVIOUS
<1>2. CASE /\ memo[v].at = "none" /\ Enter("main", v)
           /\ UNCHANGED << pc, fp, force, runs, ahead, compiled, upto >>
  <2>1. ahead = {} /\ "main" \in Goroutine
    BY <1>0 DEF MemoInv, Goroutine
  <2>2. v \in Value
    BY <1>0, <1>1, ClaimsAreValues DEF TypeOK
  <2> QED BY <1>0, <1>2, <2>1, <2>2, EnterKeeps
<1>3. CASE /\ memo[v].at = "done" /\ memo[v].made # 0
           /\ upto' = upto + 1
           /\ UNCHANGED << pc, fp, force, memoVars, compiled >>
  <2>1. TypeOK'
    BY <1>0, <1>3 DEF TypeOK
  <2>2. PhaseInv' /\ MemoInv' /\ ConvInv' /\ CacheIsTrue'
    BY <1>0, <1>3 DEF PhaseInv, MemoInv, ConvInv, Busy, CacheIsTrue, Convert
  <2>3. ProgressInv'
    <3>1. Claims[compiled] \in Seq(Value)
      BY ClaimsAreValues DEF TypeOK
    <3>2. \A i \in DOMAIN Claims[compiled] : i < upto + 1 => i < upto \/ i = upto
      BY <3>1 DEF TypeOK
    <3> QED BY <1>0, <1>1, <1>3, <3>2 DEF ProgressInv
  <2> QED BY <1>0, <1>3, <2>1, <2>2, <2>3, FilesStay
<1>4. CASE memo[v].at = "done" /\ memo[v].made = 0 /\ Over
  <2>1. TypeOK' /\ PhaseInv' /\ MemoInv' /\ ConvInv' /\ CacheIsTrue' /\ ProgressInv'
    BY <1>0, <1>4, OverKeeps DEF TypeOK
  <2> QED BY <1>0, <1>4, <2>1, FilesStay DEF Over
<1> QED BY <1>1, <1>2, <1>3, <1>4 DEF Compile

LEMMA WriteTemplatesKeeps ==
  ASSUME GenInv, WriteTemplates PROVE GenInv'
<1> USE DEF GenInv, WriteTemplates, inputVars, memoVars
<1>1. \A v \in Claimed(compiled) :
        v \in Value /\ memo[v].made = src[v] /\ src[v] \in Version /\ src[v] # 0
  <2> SUFFICES ASSUME NEW v \in Claimed(compiled)
               PROVE  v \in Value /\ memo[v].made = src[v] /\ src[v] \in Version /\ src[v] # 0
    OBVIOUS
  <2>1. PICK i \in DOMAIN Claims[compiled] : Claims[compiled][i] = v
    BY ClaimsAreValues DEF TypeOK
  <2>2. Claims[compiled] \in Seq(Value) /\ v \in Value
    BY ClaimsAreValues DEF TypeOK
  <2>3. i < upto
    BY <2>1, <2>2 DEF TypeOK
  <2>4. memo[v].at = "done" /\ memo[v].made # 0 /\ memo[v].made = Convert(v, src[v])
    BY <2>1, <2>2, <2>3 DEF ProgressInv, MemoInv
  <2>5. memo[v].made = src[v] /\ src[v] # 0
    BY <2>4 DEF Convert
  <2> QED BY <2>2, <2>5 DEF TypeOK
<1>2. Templates(compiled, Converted) = Templates(compiled, src)
  BY <1>1 DEF Templates, Converted
<1>3. Templates(compiled, src) \subseteq (Value \cup {"templates", "assets", "binder"}) \X Version
  BY <1>1 DEF Templates, TypeOK
<1>4. out' = [out EXCEPT ![1] = [made |-> Templates(compiled, src), stamp |-> 0]]
  BY <1>2 DEF Write
<1>5. /\ out' \in [Output -> [made : SUBSET ((Value \cup {"templates", "assets", "binder"}) \X Version),
                            stamp : Version \cup {0}]]
      /\ out'[1].made = Templates(compiled, src) /\ out'[1].stamp = 0 /\ out'[2] = out[2]
  BY <1>3, <1>4 DEF TypeOK, Output, Stamped
<1>6. TypeOK'
  BY <1>5 DEF TypeOK
<1>7. MemoInv' /\ ConvInv'
  <2>1. pc = "compiling" /\ pc' = "extracting"
    OBVIOUS
  <2>2. MemoInv'
    BY <2>1 DEF MemoInv, Convert
  <2>3. \A g \in Goroutine : ~Busy(g)
    BY ClaimsAreValues DEF ConvInv, TypeOK
  <2> QED BY <2>2, <2>3 DEF ConvInv, Busy
<1>8. PhaseInv' /\ CacheIsTrue' /\ ProgressInv'
  BY <1>1 DEF PhaseInv, CacheIsTrue, ProgressInv, Convert
<1>9. FilesInv'
  BY <1>1, <1>5 DEF FilesInv, Outdated, Templates
<1> QED BY <1>6, <1>7, <1>8, <1>9

\* A phase of the run after the compile leaves what the run keeps in memory.
LEMMA LatePhase ==
  ASSUME GenInv, pc \in {"extracting", "recording", "generating", "stamping"},
         pc' \in {"recording", "generating", "stamping"},
         UNCHANGED << inputVars, cache, fp, memoVars, compiled >>
  PROVE  PhaseInv' /\ MemoInv' /\ ConvInv' /\ CacheIsTrue' /\ ProgressInv'
<1> USE DEF GenInv, inputVars, memoVars
<1>1. PhaseInv' /\ CacheIsTrue' /\ ProgressInv'
  BY DEF PhaseInv, CacheIsTrue, ProgressInv, Convert
<1>2. MemoInv'
  BY DEF MemoInv, Convert
<1>3. \A g \in Goroutine : ~Busy(g)
  BY DEF ConvInv
<1> QED BY <1>1, <1>2, <1>3 DEF ConvInv, Busy

LEMMA WriteAssetsKeeps ==
  ASSUME GenInv, WriteAssets PROVE GenInv'
<1> USE DEF GenInv, WriteAssets, inputVars, memoVars
<1>1. \A v \in Claimed(compiled) :
        v \in Value /\ memo[v].made = src[v] /\ src[v] \in Version
  BY ClaimsAreValues DEF ProgressInv, TypeOK
<1>2. Assets(compiled, Converted) = Assets(compiled, src)
  BY <1>1 DEF Assets, Converted
<1>3. Assets(compiled, src) \subseteq (Value \cup {"templates", "assets", "binder"}) \X Version
  BY <1>1 DEF Assets, TypeOK
<1>4. /\ out' \in [Output -> [made : SUBSET ((Value \cup {"templates", "assets", "binder"}) \X Version),
                              stamp : Version \cup {0}]]
      /\ out'[3].made = Assets(compiled, src) /\ out'[1] = out[1] /\ out'[2] = out[2]
  BY <1>2, <1>3 DEF Write, TypeOK, Output, Stamped
<1>5. TypeOK'
  BY <1>4 DEF TypeOK
<1>6. FilesInv'
  BY <1>4 DEF FilesInv, Outdated, Binder
<1> QED BY <1>5, <1>6, LatePhase

LEMMA WriteDepsKeeps ==
  ASSUME GenInv, WriteDeps PROVE GenInv'
<1> USE DEF GenInv, WriteDeps, inputVars, memoVars
<1>1. \A v \in Claimed(compiled) : v \in Value /\ src[v] # 0 /\ src[v] \in Version
  BY ClaimsAreValues DEF FilesInv, TypeOK
<1>2. deps' = IF Claimed(compiled) = {} THEN [is |-> "absent", reads |-> {}]
              ELSE [is |-> "record", reads |-> { << v, src[v] >> : v \in Claimed(compiled) }]
  BY <1>1
<1>3. deps' \in [is : {"absent", "record", "malformed"}, reads : SUBSET (Value \X Version)]
  BY <1>1, <1>2
<1>4. TypeOK'
  BY <1>3 DEF TypeOK
<1>5. Recorded(compiled, src)'
  BY <1>2 DEF Recorded, Claimed
<1>6. FilesInv'
  BY <1>5 DEF FilesInv, Outdated
<1> QED BY <1>4, <1>6, LatePhase

LEMMA GenerateKeeps ==
  ASSUME GenInv, Generate PROVE GenInv'
<1> USE DEF GenInv, Generate, inputVars, memoVars
<1>1. out' = [out EXCEPT ![2] = [made |-> Binder(pkg), stamp |-> 0]]
  BY DEF Write
<1>2. Binder(pkg) \subseteq (Value \cup {"templates", "assets", "binder"}) \X Version
  BY DEF Binder, TypeOK
<1>3. /\ out' \in [Output -> [made : SUBSET ((Value \cup {"templates", "assets", "binder"}) \X Version),
                            stamp : Version \cup {0}]]
      /\ out'[2].made = Binder(pkg) /\ out'[2].stamp = 0
      /\ out'[1] = out[1] /\ out'[3] = out[3]
  BY <1>1, <1>2 DEF TypeOK, Output, Stamped
<1>4. TypeOK'
  BY <1>3 DEF TypeOK, Output, Stamped
<1>5. FilesInv'
  <2>1. \A n : TemplatesOf(n) => TemplatesOf(n)'
    BY <1>3 DEF TemplatesOf, Recorded
  <2>2. \A n : Outdated(n) => Outdated(n)'
    BY DEF Outdated
  <2>3. Recorded(compiled, src)'
    BY DEF FilesInv, Recorded
  <2>4. fp <= pkg /\ pkg \in Version
    BY InputAssumption DEF PhaseInv, TypeOK
  <2> QED BY <1>3, <2>1, <2>2, <2>3, <2>4, InputAssumption DEF FilesInv, TypeOK
<1> QED BY <1>4, <1>5, LatePhase

LEMMA StampKeeps ==
  ASSUME GenInv, Stamp PROVE GenInv'
<1> USE DEF GenInv, Stamp, inputVars, memoVars
<1>1. /\ upto \in Stamped /\ upto \in Output
      /\ fp \in Version /\ fp <= compiled /\ compiled <= pkg
      /\ compiled \in Version /\ pkg \in Version
      /\ (setting = "quiet" => fp = pkg) /\ setting \in {"quiet", "forward"}
  BY InputAssumption DEF TypeOK, PhaseInv, Output
<1>2. Version \subseteq Nat \ {0}
  BY InputAssumption
<1>3. /\ out' \in [Output -> [made : SUBSET ((Value \cup {"templates", "assets", "binder"}) \X Version),
                            stamp : Version \cup {0}]]
      /\ \A f \in Output : /\ out'[f].made = out[f].made
                         /\ out'[f].stamp = IF f = upto THEN fp ELSE out[f].stamp
  BY <1>1 DEF TypeOK
<1>4. TypeOK' /\ PhaseInv' /\ MemoInv' /\ ConvInv' /\ CacheIsTrue' /\ ProgressInv'
  <2>1. CASE upto = 2
    <3>1. Over
      BY <2>1
    <3>2. /\ touched' \in BOOLEAN
          /\ deps' \in [is : {"absent", "record", "malformed"}, reads : SUBSET (Value \X Version)]
      BY DEF TypeOK
    <3> QED BY <1>3, <3>1, <3>2, OverKeeps
  <2>2. CASE upto # 2
    <3>1. UNCHANGED << pc, fp, force, memoVars, compiled >> /\ upto' = 2
      BY <1>1, <2>2 DEF Output, Stamped
    <3>2. TypeOK'
      BY <1>3, <3>1 DEF TypeOK, Output, Stamped
    <3> QED BY <3>1, <3>2, LatePhase
  <2> QED BY <2>1, <2>2
<1>5. FilesInv'
  <2>1. pc' \in {"idle", "stamping"} /\ 1 \in Output /\ 2 \in Output /\ 3 \in Output
    BY DEF Over, Output, Stamped
  <2>2. \A n : TemplatesOf(n) => TemplatesOf(n)'
    BY <1>3, <2>1 DEF TemplatesOf, Recorded
  <2>3. \A n : Outdated(n) => Outdated(n)'
    BY <2>1 DEF Outdated
  <2>4. PICK n \in Version : n = fp
    BY <1>1
  <2>5. n # compiled => Outdated(n)'
    BY <1>1, <1>2, <2>1, <2>4 DEF Outdated
  <2>6. n = compiled => TemplatesOf(n)
    BY <2>4 DEF TemplatesOf, FilesInv, TypeOK
  <2>7. out[2].made = Binder(n) \/ Outdated(n)'
    <3>1. PICK p \in Version : n <= p /\ p <= pkg /\ out[2].made = Binder(p)
      BY <2>4 DEF FilesInv
    <3>2. CASE p # n
      BY <1>1, <1>2, <2>1, <2>4, <3>1, <3>2 DEF Outdated
    <3> QED BY <3>1, <3>2
  <2>8. (out[1].stamp # 0 => TemplatesOf(out[1].stamp) \/ Outdated(out[1].stamp))'
    <3>1. PICK m : m = out'[1].stamp
      OBVIOUS
    <3>2. CASE upto = 1
      <4>1. m = n
        BY <1>3, <2>1, <2>4, <3>1, <3>2
      <4> QED BY <2>2, <2>5, <2>6, <3>1, <4>1
    <3>3. CASE upto # 1
      <4>1. m = out[1].stamp
        BY <1>3, <2>1, <3>1, <3>3
      <4> QED BY <2>2, <2>3, <3>1, <4>1 DEF FilesInv
    <3> QED BY <3>2, <3>3
  <2>9. (out[2].stamp # 0 => out[2].made = Binder(out[2].stamp) \/ Outdated(out[2].stamp))'
    <3>1. PICK m : m = out'[2].stamp
      OBVIOUS
    <3>2. CASE upto = 2
      <4>1. m = n
        BY <1>3, <2>1, <2>4, <3>1, <3>2
      <4> QED BY <1>3, <2>1, <2>7, <3>1, <4>1
    <3>3. CASE upto # 2
      <4>1. m = out[2].stamp
        BY <1>3, <2>1, <3>1, <3>3
      <4> QED BY <1>3, <2>1, <2>3, <3>1, <4>1 DEF FilesInv
    <3> QED BY <3>2, <3>3
  <2>10. pc' = "stamping" =>
           /\ out'[1].made = Templates(compiled, src)' /\ Recorded(compiled, src)'
           /\ out'[3].made = Assets(compiled, src)'
           /\ \E p \in Version : fp' <= p /\ p <= pkg' /\ out'[2].made = Binder(p)
    <3>1. pc' = "stamping" => UNCHANGED << fp, compiled >>
      BY DEF Over
    <3> QED BY <1>3, <2>1, <3>1 DEF FilesInv, Recorded
  <2> QED BY <2>1, <2>8, <2>9, <2>10 DEF FilesInv
<1> QED BY <1>4, <1>5

\* A file that is deleted, edited or torn says nothing, and one without a stamp is
\* torn only when the templates have none or after it was touched.
LEMMA TornKeeps ==
  ASSUME FilesInv, TypeOK, NEW f \in Output, Torn(f),
         f = assetFiles => touched' \/ out[templatesFile].stamp = 0,
         touched => touched',
         UNCHANGED << setting, pkg, src >>, pc' = "idle"
  PROVE  /\ FilesInv'
         /\ out' \in [Output -> [made : SUBSET ((Value \cup {"templates", "assets", "binder"}) \X Version),
                               stamp : Version \cup {0}]]
<1>1. /\ out'[f] = NoFile /\ \A g \in Output \ {f} : out'[g] = out[g]
      /\ out' \in [Output -> [made : SUBSET ((Value \cup {"templates", "assets", "binder"}) \X Version),
                            stamp : Version \cup {0}]]
      /\ deps' = deps
  BY DEF Torn, TypeOK, NoFile
<1>4. 1 \in Output /\ 2 \in Output /\ 3 \in Output
  BY DEF Output, Stamped
<1>2. \A n : out'[1] = out[1] /\ out[1].stamp # 0 /\ TemplatesOf(n) => TemplatesOf(n)'
  BY <1>1, <1>4 DEF TemplatesOf, Recorded
<1>3. \A n : Outdated(n) => Outdated(n)'
  BY DEF Outdated
<1> QED BY <1>1, <1>2, <1>3, <1>4 DEF FilesInv, NoFile

LEMMA InterruptKeeps ==
  ASSUME GenInv, Interrupt PROVE GenInv'
<1> USE DEF GenInv, Interrupt, inputVars
<1>1. pc' = "idle" /\ Over
  BY DEF Over
<1>2. /\ FilesInv'
      /\ out' \in [Output -> [made : SUBSET ((Value \cup {"templates", "assets", "binder"}) \X Version),
                            stamp : Version \cup {0}]]
      /\ deps' \in [is : {"absent", "record", "malformed"}, reads : SUBSET (Value \X Version)]
  <2>1. CASE UNCHANGED << out, deps >>
    BY <1>1, <2>1, FilesStay DEF TypeOK
  <2>2. CASE \E f \in Output : Torn(f) /\ (f = assetFiles => pc = "extracting")
    <3>1. PICK f \in Output : Torn(f) /\ (f = assetFiles => pc = "extracting")
      BY <2>2
    <3>2. f = assetFiles => out[templatesFile].stamp = 0
      BY <3>1 DEF FilesInv
    <3> QED BY <1>1, <3>1, <3>2, TornKeeps DEF Torn, TypeOK
  <2>3. CASE pc = "recording" /\ deps' = [is |-> "malformed", reads |-> {}] /\ UNCHANGED out
    <3>1. \A n : Outdated(n) => Outdated(n)'
      BY <1>1 DEF Outdated
    <3> QED BY <1>1, <2>3, <3>1 DEF FilesInv, TypeOK
  <2>4. /\ 1 \in Output /\ 2 \in Output /\ 3 \in Output
        /\ (pc = "stamping" => upto \in Output /\ upto # 3)
    BY DEF Output, Stamped, TypeOK
  <2> QED BY <2>1, <2>2, <2>3, <2>4
<1>3. touched' \in BOOLEAN
  BY DEF TypeOK
<1> QED BY <1>1, <1>2, <1>3, OverKeeps

LEMMA EditKeeps ==
  ASSUME GenInv, EditPackage \/ EditSource \/ Tamper PROVE GenInv'
<1> USE DEF GenInv, inputVars, diskVars, runVars
<1>1. CASE EditPackage
  <2>1. PICK p \in Version \ {pkg} :
          /\ IF setting = "forward" THEN p = latest + 1 ELSE pc = "idle"
          /\ pkg' = p
          /\ latest' = IF p > latest THEN p ELSE latest
    BY <1>1 DEF EditPackage
  <2>2. /\ UNCHANGED << setting, src, diskVars, pc, runVars >>
        /\ Version \subseteq Nat \ {0} /\ pkg \in Version /\ latest \in Version
    BY <1>1, InputAssumption DEF EditPackage, TypeOK
  <2>3. TypeOK'
    BY <2>1, <2>2 DEF TypeOK
  <2>4. setting = "forward" => pkg' = pkg + 1 /\ latest' = pkg'
    BY <2>1, <2>2 DEF PhaseInv
  <2>5. PhaseInv'
    <3>1. fp \in Version /\ compiled \in Version /\ setting \in {"forward", "quiet"}
      BY InputAssumption DEF TypeOK
    <3> QED BY <2>1, <2>2, <2>4, <3>1 DEF PhaseInv
  <2>6. MemoInv' /\ ConvInv' /\ CacheIsTrue' /\ ProgressInv'
    BY <2>2 DEF MemoInv, ConvInv, Busy, CacheIsTrue, ProgressInv, Convert
  <2>7. FilesInv'
    <3>1. \A n : TemplatesOf(n) => TemplatesOf(n)'
      BY <2>2 DEF TemplatesOf, Recorded
    <3>2. \A n \in Version : Outdated(n) => Outdated(n)'
      BY <2>2, <2>4 DEF Outdated
    <3>3. pc = "stamping" => \A p1 \in Version : p1 <= pkg => p1 <= pkg'
      BY <2>1, <2>2, <2>4
    <3>4. out[1].stamp \in Version \cup {0} /\ out[2].stamp \in Version \cup {0}
      BY DEF TypeOK, Output, Stamped
    <3> QED BY <2>2, <3>1, <3>2, <3>3, <3>4 DEF FilesInv, Recorded
  <2> QED BY <2>3, <2>5, <2>6, <2>7
<1>2. CASE EditSource
  <2>1. /\ pc = "idle" /\ src' \in [Value -> Version \cup {0}]
        /\ UNCHANGED << setting, pkg, latest, diskVars, pc, runVars >>
    <3>1. PICK v \in Value : \E n \in Edits[v] \ {src[v]} : src' = [src EXCEPT ![v] = n]
      BY <1>2 DEF EditSource
    <3>2. Edits[v] \subseteq Version \cup {0}
      BY InputAssumption
    <3>3. src \in [Value -> Version \cup {0}]
      BY DEF TypeOK
    <3> QED BY <1>2, <3>1, <3>2, <3>3 DEF EditSource
  <2>2. TypeOK'
    BY <2>1 DEF TypeOK
  <2>3. PhaseInv' /\ MemoInv' /\ ConvInv' /\ CacheIsTrue' /\ ProgressInv'
    BY <2>1 DEF PhaseInv, MemoInv, ConvInv, Busy, CacheIsTrue, ProgressInv, Convert
  <2>4. FilesInv'
    BY <2>1 DEF FilesInv, TemplatesOf, Recorded, Outdated
  <2> QED BY <2>2, <2>3, <2>4
<1>3. CASE Tamper
  <2>1. PICK f \in Output : Torn(f) /\ touched' = (touched \/ f = assetFiles)
    BY <1>3 DEF Tamper
  <2>2. /\ pc = "idle" /\ UNCHANGED << inputVars, cache, pc, runVars >> /\ deps' = deps
        /\ touched' \in BOOLEAN /\ (touched => touched')
        /\ (f = assetFiles => touched')
    BY <1>3, <2>1 DEF Tamper, Torn, TypeOK
  <2>3. FilesInv' /\ TypeOK'
    BY <2>1, <2>2, TornKeeps DEF TypeOK
  <2>4. PhaseInv' /\ MemoInv' /\ ConvInv' /\ CacheIsTrue' /\ ProgressInv'
    BY <2>2 DEF PhaseInv, MemoInv, ConvInv, Busy, CacheIsTrue, ProgressInv, Convert
  <2> QED BY <2>3, <2>4
<1> QED BY <1>1, <1>2, <1>3

LEMMA GenInvHolds == Spec => []GenInv
<1>1. Init => GenInv
  <2> SUFFICES ASSUME Init PROVE GenInv
    OBVIOUS
  <2> USE InputAssumption DEF Init
  <2>1. TypeOK
    BY DEF TypeOK, NoFile, NoMemo, Idle
  <2>2. PhaseInv /\ MemoInv /\ ConvInv /\ CacheIsTrue /\ ProgressInv
    BY DEF PhaseInv, MemoInv, NoMemo, ConvInv, Busy, Idle, CacheIsTrue, ProgressInv
  <2>3. FilesInv
    BY DEF FilesInv, NoFile, Output, Stamped
  <2> QED BY <2>1, <2>2, <2>3 DEF GenInv
<1>2. GenInv /\ [Next]_vars => GenInv'
  <2> SUFFICES ASSUME GenInv, [Next]_vars PROVE GenInv'
    OBVIOUS
  <2>1. CASE \E forced \in BOOLEAN : Begin(forced)
    BY <2>1, BeginKeeps
  <2>2. CASE Run
    BY <2>2, CheckKeeps, TakeKeeps, LookKeeps, TransformKeeps, StoreKeeps, EndPrewarmKeeps,
       CompileKeeps, WriteTemplatesKeeps, WriteAssetsKeeps, WriteDepsKeeps, GenerateKeeps, StampKeeps
       DEF Run, Conversion
  <2>3. CASE Interrupt \/ EditPackage \/ EditSource \/ Tamper
    BY <2>3, InterruptKeeps, EditKeeps
  <2>4. CASE UNCHANGED vars
    <3> USE <2>4 DEF vars, GenInv
    <3>1. TypeOK' /\ PhaseInv'
      BY DEF TypeOK, PhaseInv
    <3>2. MemoInv' /\ ConvInv' /\ CacheIsTrue' /\ ProgressInv'
      BY DEF MemoInv, ConvInv, Busy, CacheIsTrue, ProgressInv, Convert
    <3> QED BY <3>1, <3>2, FilesStay
  <2> QED BY <2>1, <2>2, <2>3, <2>4 DEF Next
<1> QED BY <1>1, <1>2, PTL DEF Spec

-----------------------------------------------------------------------------
(* The theorems.                                                           *)

\* The state keeps its shape, whoever edits, deletes or interrupts what.
THEOREM TypeCorrect == Spec => []TypeOK
<1>1. GenInv => TypeOK
  BY DEF GenInv
<1> QED BY <1>1, GenInvHolds, PTL

\* However many workers and references ask for it, and although it may fail, one
\* run converts a value once: the entry is made before the conversion begins.
THEOREM ConvertedOnce == Spec => []ConvertsOnce
<1>1. GenInv => ConvertsOnce
  BY DEF GenInv, MemoInv, ConvertsOnce
<1> QED BY <1>1, GenInvHolds, PTL

\* No sequence of edits and killed runs leaves an entry in the cache that is not
\* what the hook makes of its source, since nobody edits a source under a run.
THEOREM CacheStaysTrue == Spec => []CacheIsTrue
<1>1. GenInv => CacheIsTrue
  BY DEF GenInv
<1> QED BY <1>1, GenInvHolds, PTL

\* A skipped run ships what a run would have written: whatever was generated under
\* a fingerprint the inputs have left is not asked for again, the record stands for
\* every source the Go files and the static files hold, and the stamp of the
\* templates was taken off before the static files were written.  Static files that
\* were edited or deleted by hand are outside it: nothing looks at them.
THEOREM SkipsAreFresh == Spec => SkipIsFresh
<1>1. GenInv /\ [Next]_vars =>
        [Check /\ pc' = "idle" =>
           /\ out[templatesFile].made = Templates(fp, src)
           /\ out[binderFile].made = Binder(fp)
           /\ touched \/ out[assetFiles].made = Assets(fp, src)]_vars
  <2> SUFFICES ASSUME GenInv, Check, pc' = "idle"
               PROVE  /\ out[1].made = Templates(fp, src) /\ out[2].made = Binder(fp)
                      /\ touched \/ out[3].made = Assets(fp, src)
    OBVIOUS
  <2> USE DEF GenInv
  <2>1. pc = "checking" /\ DepsUnchanged /\ Cached
    BY DEF Check
  <2>2. out[1].stamp = fp /\ out[2].stamp = fp /\ fp \in Nat /\ fp # 0 /\ fp \in Version
    <3>1. fp \in Version
      BY DEF TypeOK
    <3>2. Version \subseteq Nat \ {0} /\ 1 \in Stamped /\ 2 \in Stamped
      BY InputAssumption DEF Stamped
    <3> QED BY <2>1, <3>1, <3>2 DEF Cached
  <2>3. ~Outdated(fp)
    BY <2>1, <2>2 DEF Outdated
  <2>4. TemplatesOf(fp)
    BY <2>2, <2>3 DEF FilesInv
  <2>5. PICK s \in [Value -> Version \cup {0}] :
          /\ out[1].made = Templates(fp, s) /\ Recorded(fp, s)
          /\ touched \/ out[3].made = Assets(fp, s)
    BY <2>4 DEF TemplatesOf
  <2>6. \A v \in Claimed(fp) : s[v] = src[v]
    <3>1. CASE deps.is = "absent"
      BY <2>5, <3>1 DEF Recorded
    <3>2. CASE deps.is = "record"
      <4>1. \A r \in deps.reads : src[r[1]] = r[2]
        BY <2>1, <3>2 DEF DepsUnchanged
      <4>2. \A v \in Claimed(fp) : << v, s[v] >> \in deps.reads
        BY <2>5, <3>2 DEF Recorded
      <4> QED BY <4>1, <4>2
    <3> QED BY <2>1, <3>1, <3>2 DEF DepsUnchanged
  <2>7. Templates(fp, s) = Templates(fp, src) /\ Assets(fp, s) = Assets(fp, src)
    BY <2>6 DEF Templates, Assets
  <2> QED BY <2>2, <2>3, <2>5, <2>7 DEF FilesInv
<1> QED BY <1>1, GenInvHolds, PTL DEF Spec, SkipIsFresh

\* A failing run reports the first failing reference of the templates, although
\* the workers came to another one first: they only fill the memo.
THEOREM FailuresInOrder == Spec => FirstErrorInOrder
<1>1. GenInv /\ [Next]_vars =>
        [Compile /\ pc' = "idle" =>
           LET fails(i) == Convert(Claims[compiled][i], src[Claims[compiled][i]]) = 0
           IN fails(upto) /\ \A i \in 1 .. upto - 1 : ~fails(i)]_vars
  <2> SUFFICES ASSUME GenInv, Compile, pc' = "idle"
               PROVE  /\ Convert(Claims[compiled][upto], src[Claims[compiled][upto]]) = 0
                      /\ \A i \in 1 .. upto - 1 :
                           Convert(Claims[compiled][i], src[Claims[compiled][i]]) # 0
    OBVIOUS
  <2> USE DEF GenInv
  <2>1. PICK v : v = Claims[compiled][upto]
    OBVIOUS
  <2>2. /\ pc = "compiling" /\ upto <= Len(Claims[compiled]) /\ upto \in Nat \ {0}
        /\ memo[v].at = "done" /\ memo[v].made = 0
    BY <2>1 DEF Compile, TypeOK
  <2>3. /\ Claims[compiled] \in Seq(Value)
        /\ \A i \in DOMAIN Claims[compiled] : Claims[compiled][i] \in Value
    BY ClaimsAreValues DEF TypeOK
  <2>4. Convert(v, src[v]) = 0
    <3>1. v \in Value
      BY <2>1, <2>2, <2>3
    <3> QED BY <2>2, <3>1 DEF MemoInv
  <2>5. ASSUME NEW i \in 1 .. upto - 1
        PROVE  Convert(Claims[compiled][i], src[Claims[compiled][i]]) # 0
    <3>1. i \in DOMAIN Claims[compiled] /\ i < upto
      BY <2>2, <2>3
    <3>2. Claims[compiled][i] \in Value
      BY <2>3, <3>1
    <3> QED BY <2>2, <3>1, <3>2 DEF ProgressInv, MemoInv
  <2> QED BY <2>1, <2>4, <2>5
<1> QED BY <1>1, GenInvHolds, PTL DEF Spec, FirstErrorInOrder

\* Conversions run once and are remembered as what they made, for any number of
\* workers, values and versions.
THEOREM ConversionsStaySound == Spec => []ConversionsAreSound
<1>1. ConvertsOnce /\ CacheIsTrue => ConversionsAreSound
  BY DEF ConversionsAreSound
<1> QED BY <1>1, ConvertedOnce, CacheStaysTrue, PTL

=============================================================================
