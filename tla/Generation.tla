----------------------------- MODULE Generation -----------------------------
(***************************************************************************)
(* A package is generated again and again: GeneratePackage                 *)
(* (generator/execution.go), the stamps that let it skip a run             *)
(* (generator/stamp.go), the record of what its conversions read           *)
(* (generator/deps.go), and the conversions themselves with their memo for *)
(* one run, their cache across runs and the workers that run them ahead of *)
(* the compile (generator/hooks.go, generator/templates.go).               *)
(*                                                                         *)
(* Somebody edits the package and the files its conversions read, edits    *)
(* or deletes what was generated, and interrupts runs.  A file has a       *)
(* version, and a digest is the version it was taken of.                   *)
(***************************************************************************)
EXTENDS Naturals, Sequences, SequencesExt

CONSTANTS
  Version,   \* of the package's own inputs, and of a source
  Value,     \* the references templates hold; each names the source it converts
  Claims,    \* [Version -> Seq(Value)], the references of the templates, in order
  Edits,     \* [Value -> SUBSET (Version \cup {0})], what its source may become
  Fails,     \* the conversions, a value and a version, that are refused
  Workers,   \* the goroutines of ConversionWorkers
  Setting    \* who may touch what, and when

ASSUME InputAssumption ==
  /\ Version \subseteq Nat \ {0} /\ 1 \in Version
  /\ Claims \in [Version -> Seq(Value)]
  /\ Edits \in [Value -> SUBSET (Version \cup {0})]
  /\ Fails \subseteq Value \X Version
  /\ "main" \notin Workers
  /\ Setting \subseteq {"quiet", "forward"}

VARIABLES
  setting,  \* one of Setting
  pkg,      \* the version of the package's own inputs
  latest,   \* the newest they ever had
  src,      \* the version of each source; 0 is deleted
  out,      \* each output: what it was made from, and its stamp if it has one
  touched,  \* whether the unstamped output was edited or deleted by hand since
            \* it was last written; for the properties only
  deps,     \* the record of the sources read
  cache,    \* the conversions kept across runs; 0 is none
  pc,       \* where GeneratePackage is
  fp,       \* the fingerprint it computed
  force,    \* whether it generates whatever the stamps say
  memo,     \* the conversions of this run
  runs,     \* how often the hook ran each
  ahead,    \* the claims not yet handed to a worker
  conv,     \* the conversion each goroutine is in
  compiled, \* the version of the templates it compiles
  upto      \* the claim the compile has come to, or the file a step is about

vars == << setting, pkg, latest, src, out, touched, deps, cache, pc, fp, force,
           memo, runs, ahead, conv, compiled, upto >>

inputVars == << setting, pkg, latest, src >>
diskVars  == << out, touched, deps, cache >>
memoVars  == << memo, runs, ahead, conv >>
runVars   == << fp, force, memo, runs, ahead, conv, compiled, upto >>

Goroutine == Workers \cup {"main"}

Idle == [at |-> "idle", value |-> "none", key |-> 0]

NoMemo == [v \in Value |-> [at |-> "none", made |-> 0]]

\* What the hook makes of version n of its source: itself, in another form. A
\* source that cannot be read is an error, and so is one it refuses.
Convert(v, n) == IF n = 0 \/ << v, n >> \in Fails THEN 0 ELSE n

Claimed(p) == ToSet(Claims[p])

\* What the outputs of a run hold. Three stand for all of them: the Go file the
\* conversions end up in; the static files extracted from the templates, with those
\* the conversions produce; and a Go file generated from the package alone. One
\* that was deleted, edited or torn holds nothing.
Templates(p, values) == { << v, values[v] >> : v \in Claimed(p) } \cup { << "templates", p >> }
Assets(p, values)    == { << v, values[v] >> : v \in Claimed(p) } \cup { << "assets", p >> }
Binder(p)            == { << "binder", p >> }
NoFile               == [made |-> {}, stamp |-> 0]

templatesFile == 1
binderFile    == 2
assetFiles    == 3

\* The outputs that carry a stamp: Go files alone. readStamp finds none on a file
\* that is not as it was stamped.
Stamped == {templatesFile, binderFile}
Output  == Stamped \cup {assetFiles}

Init ==
  /\ setting \in Setting
  /\ pkg = 1 /\ latest = 1
  /\ src = [v \in Value |-> 1]
  /\ out = [f \in Output |-> NoFile] /\ touched = FALSE
  /\ deps = [is |-> "absent", reads |-> {}]
  /\ cache = [c \in Value \X Version |-> 0]
  /\ pc = "idle"
  /\ fp = 1 /\ force = FALSE
  /\ memo = NoMemo
  /\ runs = [v \in Value |-> 0]
  /\ ahead = {}
  /\ conv = [g \in Goroutine |-> Idle]
  /\ compiled = 1 /\ upto = 1

\* GeneratePackage returns, or is killed: what it kept in memory is gone.
Over ==
  /\ pc' = "idle"
  /\ fp' = 1 /\ force' = FALSE
  /\ memo' = NoMemo
  /\ runs' = [v \in Value |-> 0]
  /\ ahead' = {}
  /\ conv' = [g \in Goroutine |-> Idle]
  /\ compiled' = 1 /\ upto' = 1

-----------------------------------------------------------------------------
(* The skip.                                                               *)

\* GeneratePackage computes the fingerprint before anything else.
Begin(forced) ==
  /\ pc = "idle"
  /\ pc' = "checking" /\ fp' = pkg /\ force' = forced
  /\ UNCHANGED << inputVars, diskVars, memoVars, compiled, upto >>

\* Every file the last run read still hashes to what it recorded; a record that
\* is not there says nothing was read.
DepsUnchanged ==
  \/ deps.is = "absent"
  \/ deps.is = "record" /\ \A r \in deps.reads : src[r[1]] = r[2] /\ src[r[1]] # 0

\* Mutant: the first file that carries the fingerprint speaks for its set.
Cached_FirstFile == \E f \in Stamped : out[f].stamp = fp

\* Some file carries the fingerprint, and so does every file of the set it names.
\* What carries no stamp is not looked at.
Cached == \A f \in Stamped : out[f].stamp = fp

\* The run is skipped, or it begins. Workers convert ahead only when there are
\* two distinct claims to share out.
Check ==
  /\ pc = "checking"
  /\ IF ~force /\ DepsUnchanged /\ Cached
     THEN Over
     ELSE /\ pc' = "prewarming" /\ force' = FALSE
          /\ ahead' = IF Workers # {} /\ Cardinality(Claimed(pkg)) > 1 THEN Claimed(pkg) ELSE {}
          /\ UNCHANGED << fp, memo, runs, conv, compiled, upto >>
  /\ UNCHANGED << inputVars, diskVars >>

-----------------------------------------------------------------------------
(* One conversion: conversionMemo.do and conversionCache.convert.          *)

\* The entry is made under the memo's lock; the conversion runs outside it.
Enter(g, v) ==
  /\ memo' = [memo EXCEPT ![v].at = "running"]
  /\ conv' = [conv EXCEPT ![g] = [at |-> "looking", value |-> v, key |-> 0]]

\* The outcome is in the memo, a failure with the successes.
Answer(g, made) ==
  /\ memo' = [memo EXCEPT ![conv[g].value] = [at |-> "done", made |-> made]]
  /\ conv' = [conv EXCEPT ![g] = Idle]

\* The key is digested from the source, and the cache asked. A source that cannot
\* be read makes the conversion one that is not kept.
Look(g) ==
  /\ conv[g].at = "looking"
  /\ LET v == conv[g].value
         n == src[v]
     IN IF n # 0 /\ cache[<< v, n >>] # 0
        THEN Answer(g, cache[<< v, n >>])
        ELSE /\ conv' = [conv EXCEPT ![g] = [at |-> "transforming", value |-> v, key |-> n]]
             /\ UNCHANGED memo
  /\ UNCHANGED << inputVars, diskVars, pc, fp, force, runs, ahead, compiled, upto >>

\* The hook runs, and reads its source itself.
Transform(g) ==
  /\ conv[g].at = "transforming"
  /\ LET v == conv[g].value
         made == Convert(v, src[v])
     IN /\ runs' = [runs EXCEPT ![v] = @ + 1]
        /\ IF made = 0 \/ conv[g].key = 0
           THEN Answer(g, made)
           ELSE /\ conv' = [conv EXCEPT ![g].at = "storing"]
                /\ memo' = [memo EXCEPT ![v].made = made]
  /\ UNCHANGED << inputVars, diskVars, pc, fp, force, ahead, compiled, upto >>

\* Mutant: the entry is kept under what was asked for, not what it was made from.
Store_ByValue(g) ==
  /\ conv[g].at = "storing"
  /\ cache' = [c \in Value \X Version |->
                 IF c[1] = conv[g].value THEN memo[c[1]].made ELSE cache[c]]
  /\ Answer(g, memo[conv[g].value].made)
  /\ UNCHANGED << inputVars, out, touched, deps, pc, fp, force, runs, ahead, compiled, upto >>

\* The entry is renamed into place, or the store fails, which loses nothing.
Store(g) ==
  /\ conv[g].at = "storing"
  /\ LET v == conv[g].value
     IN /\ cache' \in { cache, [cache EXCEPT ![<< v, conv[g].key >>] = memo[v].made] }
        /\ Answer(g, memo[v].made)
  /\ UNCHANGED << inputVars, out, touched, deps, pc, fp, force, runs, ahead, compiled, upto >>

-----------------------------------------------------------------------------
(* The run.                                                                *)

\* A worker takes the next claim off the queue. Nobody else has asked for it:
\* the queue holds each value once.
Take(w) ==
  /\ pc = "prewarming"
  /\ conv[w].at = "idle"
  /\ \E v \in ahead : Enter(w, v) /\ ahead' = ahead \ {v}
  /\ UNCHANGED << inputVars, diskVars, pc, fp, force, runs, compiled, upto >>

\* Mutant: the queue is never closed.
EndPrewarm_OpenQueue == FALSE

\* The queue is closed and the workers have returned; the compile reads the
\* templates.
EndPrewarm ==
  /\ pc = "prewarming"
  /\ ahead = {} /\ \A w \in Workers : conv[w].at = "idle"
  /\ pc' = "compiling" /\ compiled' = pkg /\ upto' = 1
  /\ UNCHANGED << inputVars, diskVars, fp, force, memoVars >>

\* Mutant: whatever failed ahead of the compile ends the run where it is.
Compile_AnyFailure ==
  /\ pc = "compiling"
  /\ \/ /\ \E v \in Claimed(compiled) : memo[v].at = "done" /\ memo[v].made = 0
        /\ Over
     \/ /\ \A v \in Claimed(compiled) : memo[v].at = "done" /\ memo[v].made # 0
        /\ upto' = Len(Claims[compiled]) + 1
        /\ UNCHANGED << pc, fp, force, memoVars, compiled >>
  /\ UNCHANGED << inputVars, diskVars >>

\* The compile asks for the next reference: the first to ask runs the conversion,
\* and a failure ends the run at the template position it belongs to.
Compile ==
  /\ pc = "compiling" /\ conv["main"].at = "idle"
  /\ upto <= Len(Claims[compiled])
  /\ LET v == Claims[compiled][upto]
     IN \/ /\ memo[v].at = "none"
           /\ Enter("main", v)
           /\ UNCHANGED << pc, fp, force, runs, ahead, compiled, upto >>
        \/ /\ memo[v].at = "done" /\ memo[v].made # 0
           /\ upto' = upto + 1
           /\ UNCHANGED << pc, fp, force, memoVars, compiled >>
        \/ /\ memo[v].at = "done" /\ memo[v].made = 0
           /\ Over
  /\ UNCHANGED << inputVars, diskVars >>

\* A file that is written loses the stamp it had.
Write(f, made) == out' = [out EXCEPT ![f] = [made |-> made, stamp |-> 0]]

\* What the references of the compiled templates came to.
Converted == [v \in Value |-> memo[v].made]

\* The templates are combined and written.
WriteTemplates ==
  /\ pc = "compiling" /\ upto > Len(Claims[compiled])
  /\ Write(templatesFile, Templates(compiled, Converted))
  /\ pc' = "extracting"
  /\ UNCHANGED << inputVars, touched, deps, cache, fp, force, memoVars, compiled, upto >>

\* writeAssets and writeProduced.
WriteAssets ==
  /\ pc = "extracting"
  /\ Write(assetFiles, Assets(compiled, Converted)) /\ touched' = FALSE
  /\ pc' = "recording"
  /\ UNCHANGED << inputVars, deps, cache, fp, force, memoVars, compiled, upto >>

\* The sources are digested once more and recorded; a run that read none removes
\* the record, and one that cannot be read leaves the record as it was.
WriteDeps ==
  /\ pc = "recording"
  /\ deps' = IF Claimed(compiled) = {} THEN [is |-> "absent", reads |-> {}]
             ELSE IF \E v \in Claimed(compiled) : src[v] = 0 THEN deps
             ELSE [is |-> "record", reads |-> { << v, src[v] >> : v \in Claimed(compiled) }]
  /\ pc' = "generating"
  /\ UNCHANGED << inputVars, out, touched, cache, fp, force, memoVars, compiled, upto >>

\* The remaining phases share one type check of the package.
Generate ==
  /\ pc = "generating"
  /\ Write(binderFile, Binder(pkg))
  /\ pc' = "stamping" /\ upto' = templatesFile
  /\ UNCHANGED << inputVars, touched, deps, cache, fp, force, memoVars, compiled >>

\* Every Go file is rewritten with the fingerprint, one after the other.
Stamp ==
  /\ pc = "stamping"
  /\ out' = [out EXCEPT ![upto].stamp = fp]
  /\ IF upto = binderFile THEN Over
     ELSE upto' = binderFile /\ UNCHANGED << pc, fp, force, memoVars, compiled >>
  /\ UNCHANGED << inputVars, touched, deps, cache >>

-----------------------------------------------------------------------------
(* Everybody else.                                                         *)

\* What a step that is writing leaves when it is interrupted: an os.WriteFile
\* truncates before it writes. A cache entry is renamed into place and is whole.
Torn(f) == out' = [out EXCEPT ![f] = NoFile] /\ UNCHANGED deps

\* The run is killed.
Interrupt ==
  /\ pc # "idle"
  /\ Over
  /\ \/ UNCHANGED << out, deps >>
     \/ pc = "compiling" /\ Torn(templatesFile)
     \/ pc = "extracting" /\ Torn(assetFiles)
     \/ pc = "recording" /\ deps' = [is |-> "malformed", reads |-> {}] /\ UNCHANGED out
     \/ pc = "generating" /\ Torn(binderFile)
     \/ pc = "stamping" /\ Torn(upto)
  /\ UNCHANGED << inputVars, touched, cache >>

\* The package's own inputs change: between runs to any version, or, going
\* forward only, at any time.
EditPackage ==
  /\ \E p \in Version \ {pkg} :
       /\ IF setting = "forward" THEN p = latest + 1 ELSE pc = "idle"
       /\ pkg' = p
       /\ latest' = IF p > latest THEN p ELSE latest
  /\ UNCHANGED << setting, src, diskVars, pc, runVars >>

\* A source is edited, deleted or restored, between runs.
EditSource ==
  /\ pc = "idle"
  /\ \E v \in Value : \E n \in Edits[v] \ {src[v]} : src' = [src EXCEPT ![v] = n]
  /\ UNCHANGED << setting, pkg, latest, diskVars, pc, runVars >>

\* An output is edited or deleted between runs; nobody deletes the record.
Tamper ==
  /\ pc = "idle"
  /\ \E f \in Output : Torn(f) /\ touched' = (touched \/ f = assetFiles)
  /\ UNCHANGED << inputVars, cache, pc, runVars >>

-----------------------------------------------------------------------------

Conversion(g) == Look(g) \/ Transform(g) \/ Store(g)

Run == \/ Check
       \/ \E w \in Workers : Take(w)
       \/ \E g \in Goroutine : Conversion(g)
       \/ EndPrewarm
       \/ Compile
       \/ WriteTemplates
       \/ WriteAssets
       \/ WriteDeps
       \/ Generate
       \/ Stamp

Next == \/ \E forced \in BOOLEAN : Begin(forced)
        \/ Run
        \/ Interrupt
        \/ EditPackage
        \/ EditSource
        \/ Tamper

\* A run that was started goes on.
Spec == Init /\ [][Next]_vars /\ WF_vars(Run)

-----------------------------------------------------------------------------
(* Properties *)

\* The shape of the state.
TypeOK ==
  /\ setting \in Setting
  /\ pkg \in Version /\ latest \in Version
  /\ src \in [Value -> Version \cup {0}]
  /\ out \in [Output -> [made : SUBSET ((Value \cup {"templates", "assets", "binder"}) \X Version),
                         stamp : Version \cup {0}]]
  /\ touched \in BOOLEAN
  /\ deps \in [is : {"absent", "record", "malformed"}, reads : SUBSET (Value \X Version)]
  /\ cache \in [Value \X Version -> Version \cup {0}]
  /\ pc \in {"idle", "checking", "prewarming", "compiling", "extracting", "recording",
            "generating", "stamping"}
  /\ fp \in Version /\ force \in BOOLEAN
  /\ memo \in [Value -> [at : {"none", "running", "done"}, made : Version \cup {0}]]
  /\ runs \in [Value -> Nat]
  /\ ahead \subseteq Value
  /\ conv \in [Goroutine -> [at : {"idle", "looking", "transforming", "storing"},
                             value : Value \cup {"none"}, key : Version \cup {0}]]
  /\ compiled \in Version /\ upto \in Nat \ {0}
  /\ pc = "stamping" => upto \in Stamped

\* A run that is skipped ships what a run would have written: whatever was edited,
\* deleted or interrupted before, the Go files on disk are those of the inputs the
\* fingerprint was taken of and of the sources as they are; and so are the static
\* files, unless somebody touched those by hand, which only a forced run mends.
SkipIsFresh ==
  [][Check /\ pc' = "idle" =>
       /\ out[templatesFile].made = Templates(fp, src)
       /\ out[binderFile].made = Binder(fp)
       /\ touched \/ out[assetFiles].made = Assets(fp, src)]_vars

\* One run converts a value once, although the workers and the compile both ask
\* for it, and although it may fail.
ConvertsOnce == \A v \in Value : runs[v] <= 1

\* What the cache answers is what the hook would make of that version of the
\* source, after any sequence of runs that were killed half way.
CacheIsTrue == \A c \in DOMAIN cache : cache[c] \in {0, Convert(c[1], c[2])}

\* A conversion runs once and is remembered as what it made.
ConversionsAreSound == ConvertsOnce /\ CacheIsTrue

\* A run that fails reports the first reference in template order that fails,
\* whichever worker came to whichever first.
FirstErrorInOrder ==
  [][Compile /\ pc' = "idle" =>
       LET fails(i) == Convert(Claims[compiled][i], src[Claims[compiled][i]]) = 0
       IN fails(upto) /\ \A i \in 1 .. upto - 1 : ~fails(i)]_vars

\* A run ends: the workers drain the queue, and nobody waits for a conversion that
\* nobody runs.
RunEnds == pc # "idle" ~> pc = "idle"
=============================================================================
