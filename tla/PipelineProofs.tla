--------------------------- MODULE PipelineProofs ---------------------------
(***************************************************************************)
(* What is reported was built from the source: proofs, for any versions of *)
(* the source file, any target beside it, and any number of invocations.   *)
(***************************************************************************)
EXTENDS Pipeline, TLAPS

(* While the runner runs it has not ended, and it is asked for one thing.  *)
RunnerInv ==
  /\ pc # "idle" => exit = "running"
  /\ request.testcomp => request.goal = "coverage"

(* The files of a stage are those of this invocation, if no tool lied.     *)
StageInv ==
  /\ pc = "instrument" =>
       /\ ll \in Codes
       /\ ~silent => ll = Code(source, IF request.testcomp THEN "calls" ELSE "bare")
  /\ pc = "link" /\ ~silent => instrumented_ll = Code(source, Wanted(request))
  /\ pc \in {"test", "suite", "start", "drive"} /\ ~request.skip_building
       => built.code.kind = Wanted(request)
  /\ pc = "start" /\ request.archive => extracted
  /\ pc = "drive" =>
       /\ HasTarget
       /\ request.archive => (extracted <=> ~request.clear_output_dir)
       /\ request.clear_output_dir => fresh \/ result = NoFile

IInv ==
  /\ TypeOK /\ RunnerInv /\ StageInv
  /\ BuiltAsWanted /\ ReportIsOfLastBuild /\ ClearedIsFresh

-----------------------------------------------------------------------------
LEMMA WantedType ==
  ASSUME NEW r \in Requests
  PROVE  Wanted(r) \in Probed
BY DEF Wanted, Probed

LEMMA CodeType ==
  ASSUME NEW v \in Versions, NEW k \in Kinds
  PROVE  Code(v, k) \in Codes /\ Code(v, k).kind = k
BY DEF Code, Codes

LEMMA EffectiveType ==
  ASSUME NEW r \in Requests
  PROVE  /\ Effective(r) \in Requests
         /\ Effective(r).testcomp => Effective(r).goal = "coverage"
         /\ Effective(r).skip_building = r.skip_building
BY DEF Effective, Requests

(* Instrumenting keeps the version, and makes of a plain program the       *)
(* program asked for.                                                      *)
LEMMA InstrumentedType ==
  ASSUME NEW code \in Codes, NEW option \in Probed
  PROVE  /\ Instrumented(code, option) \in Codes
         /\ Instrumented(code, option).version = code.version
         /\ code.kind = "bare" /\ option # "goals"
              => Instrumented(code, option) = Code(code.version, option)
         /\ code.kind = "calls" /\ option = "goals"
              => Instrumented(code, option) = Code(code.version, option)
BY DEF Instrumented, Codes, Code, Kinds, Probed

LEMMA InitHolds == Init => IInv
<1>. SUFFICES ASSUME Init PROVE IInv  OBVIOUS
<1>1. TypeOK
  <2>1. request \in Requests  BY DEF Init, Requests
  <2>2. nearby \in {NoFile} \cup Codes  BY BesideAssumption DEF Init
  <2>3. invocations \in 0..MaxInvocations
    BY MaxInvocationsAssumption DEF Init
  <2>4. built \in [code : {NoFile} \cup Codes, honest : BOOLEAN]
    BY DEF Init, NotBuilt
  <2>. QED  BY <2>1, <2>2, <2>3, <2>4 DEF Init, TypeOK
<1>. QED
  BY <1>1 DEF Init, IInv, RunnerInv, StageInv, BuiltAsWanted,
              ReportIsOfLastBuild, ClearedIsFresh

-----------------------------------------------------------------------------
LEMMA StartKeeps ==
  ASSUME IInv, NEW r \in Requests, Invoke(r) \/ Reject(r)
  PROVE  IInv'
<1>1. /\ request' = Effective(r) /\ pc = "idle" /\ exit' \in {"running", "failed"}
      /\ invocations < MaxInvocations /\ invocations' = invocations + 1
      /\ silent' = FALSE /\ fresh' = FALSE /\ UNCHANGED <<inputs, disk, built>>
      /\ pc' \in {"idle", "build", "test"}
      /\ pc' # "idle" => exit' = "running"
      /\ pc' = "test" => r.skip_building
  BY DEF Invoke, Reject
<1>2. request' \in Requests /\ (request'.testcomp => request'.goal = "coverage")
      /\ request'.skip_building = r.skip_building
  BY <1>1, EffectiveType
<1>3. TypeOK'
  <2>1. invocations' \in 0..MaxInvocations
    BY <1>1, MaxInvocationsAssumption DEF IInv, TypeOK
  <2>. QED  BY <1>1, <1>2, <2>1 DEF IInv, TypeOK, inputs, disk
<1>4. BuiltAsWanted' /\ ReportIsOfLastBuild' /\ ClearedIsFresh'
  BY <1>1 DEF IInv, BuiltAsWanted, ReportIsOfLastBuild, ClearedIsFresh, disk
<1>5. RunnerInv' /\ StageInv'
  BY <1>1, <1>2 DEF RunnerInv, StageInv
<1>. QED  BY <1>3, <1>4, <1>5 DEF IInv

LEMMA StageFailsKeeps ==
  ASSUME IInv, StageFails
  PROVE  IInv'
<1>1. /\ pc' = "idle" /\ exit' = "failed"
      /\ UNCHANGED <<inputs, result, request, silent, fresh, built, invocations>>
      /\ ll' \in {ll, NoFile} /\ instrumented_ll' \in {instrumented_ll, NoFile}
      /\ target' \in {target, NoFile} /\ extracted' \in {extracted, FALSE}
  BY DEF StageFails, AfterFailure, Spoiled
<1>2. TypeOK'  BY <1>1 DEF IInv, TypeOK, inputs
<1>. QED
  BY <1>1, <1>2 DEF IInv, RunnerInv, StageInv, BuiltAsWanted,
                    ReportIsOfLastBuild, ClearedIsFresh

LEMMA CompileKeeps ==
  ASSUME IInv, CompileSource \/ CompileLabelled
  PROVE  IInv'
<1>1. /\ pc = "build" /\ pc' = "instrument" /\ exit = "running"
      /\ UNCHANGED <<inputs, instrumented_ll, target, result, extracted, request, exit,
                     fresh, built, invocations>>
      /\ silent' \in BOOLEAN
  BY DEF CompileSource, CompileLabelled, IInv, TypeOK, RunnerInv
<1>2. source \in Versions  BY DEF IInv, TypeOK
<1>3. /\ ll' \in Codes
      /\ ~silent' =>
           ll' = Code(source, IF request.testcomp THEN "calls" ELSE "bare")
  BY <1>2, CodeType DEF CompileSource, CompileLabelled, Transformed, Kinds
<1>4. TypeOK'  BY <1>1, <1>3 DEF IInv, TypeOK, inputs
<1>. QED
  BY <1>1, <1>3, <1>4 DEF IInv, RunnerInv, StageInv, BuiltAsWanted,
                          ReportIsOfLastBuild, ClearedIsFresh, inputs

LEMMA InstrumentKeeps ==
  ASSUME IInv, Instrument
  PROVE  IInv'
<1>1. /\ pc = "instrument" /\ pc' = "link" /\ exit = "running"
      /\ instrumented_ll' = Instrumented(ll, Wanted(request))
      /\ UNCHANGED <<inputs, ll, target, result, extracted, request, exit, silent, fresh,
                     built, invocations>>
  BY DEF Instrument, IInv, RunnerInv
<1>2. /\ ll \in Codes /\ request \in Requests /\ source \in Versions
      /\ ~silent => ll = Code(source, IF request.testcomp THEN "calls" ELSE "bare")
      /\ request.testcomp => request.goal = "coverage"
  BY <1>1 DEF IInv, TypeOK, RunnerInv, StageInv
<1>3. Wanted(request) \in Probed  BY <1>2, WantedType
<1>4. instrumented_ll' \in Codes  BY <1>1, <1>2, <1>3, InstrumentedType
<1>5. ASSUME ~silent PROVE instrumented_ll' = Code(source, Wanted(request))
  <2>1. request.testcomp \in BOOLEAN /\ request.goal \in {"coverage", "call"}
    BY <1>2 DEF Requests
  <2>2. CASE request.testcomp
    <3>1. Wanted(request) = "goals"  BY <1>2, <2>2 DEF Wanted
    <3>2. ll.kind = "calls" /\ ll.version = source
      BY <1>2, <1>5, <2>2 DEF Code
    <3>. QED  BY <1>1, <1>2, <1>3, <3>1, <3>2, InstrumentedType
  <2>3. CASE ~request.testcomp
    <3>1. Wanted(request) # "goals"  BY <2>3 DEF Wanted
    <3>2. ll.kind = "bare" /\ ll.version = source
      BY <1>2, <1>5, <2>3 DEF Code
    <3>. QED  BY <1>1, <1>2, <1>3, <3>1, <3>2, InstrumentedType
  <2>. QED  BY <2>1, <2>2, <2>3
<1>6. TypeOK'  BY <1>1, <1>4 DEF IInv, TypeOK, inputs
<1>. QED
  BY <1>1, <1>5, <1>6 DEF IInv, RunnerInv, StageInv, BuiltAsWanted,
                          ReportIsOfLastBuild, ClearedIsFresh, inputs

LEMMA LinkKeeps ==
  ASSUME IInv, Link
  PROVE  IInv'
<1>1. /\ pc = "link" /\ pc' = "test" /\ exit = "running" /\ instrumented_ll # NoFile
      /\ target' = instrumented_ll
      /\ built' = [code |-> Code(source, Wanted(request)), honest |-> ~silent]
      /\ UNCHANGED <<inputs, ll, instrumented_ll, result, extracted, request, exit, silent,
                     fresh, invocations>>
  BY DEF Link, Linkable, IInv, RunnerInv
<1>2. Code(source, Wanted(request)) \in Codes
  BY WantedType, CodeType DEF IInv, TypeOK, Probed, Kinds
<1>3. built'.code = Code(source, Wanted(request)) /\ built'.honest = ~silent
      /\ built' \in [code : {NoFile} \cup Codes, honest : BOOLEAN]
  BY <1>1, <1>2 DEF IInv, TypeOK
<1>4. built'.code.kind = Wanted(request)  BY <1>3 DEF Code
<1>5. TypeOK'  BY <1>1, <1>3 DEF IInv, TypeOK, inputs
<1>6. BuiltAsWanted'
  BY <1>1, <1>3 DEF IInv, StageInv, BuiltAsWanted
<1>. QED
  BY <1>1, <1>4, <1>5, <1>6 DEF IInv, RunnerInv, StageInv,
                                ReportIsOfLastBuild, ClearedIsFresh

LEMMA StartDriverKeeps ==
  ASSUME IInv, StartDriver
  PROVE  IInv'
<1>1. /\ pc = "start" /\ pc' = "drive" /\ exit = "running" /\ HasTarget
      /\ result' \in {result, NoFile}
      /\ extracted' = (extracted /\ ~request.clear_output_dir)
      /\ request.clear_output_dir => result' = NoFile
      /\ UNCHANGED <<inputs, ll, instrumented_ll, target, request, exit, silent,
                     fresh, built, invocations>>
  BY DEF StartDriver, Cleared, IInv, RunnerInv
<1>2. TypeOK'  BY <1>1 DEF IInv, TypeOK, inputs
<1>3. StageInv'  BY <1>1 DEF IInv, StageInv, HasTarget, Chosen, inputs
<1>. QED
  BY <1>1, <1>2, <1>3 DEF IInv, RunnerInv, BuiltAsWanted, ReportIsOfLastBuild,
                          ClearedIsFresh

LEMMA DriveKeeps ==
  ASSUME IInv, Drive
  PROVE  IInv'
<1>1. /\ pc = "drive" /\ pc' = "idle" /\ exit' = "ok" /\ fresh' = TRUE
      /\ result' = [program |-> Chosen, as |-> Wanted(request),
                    tests |-> extracted \/ ~request.archive]
      /\ UNCHANGED <<inputs, ll, instrumented_ll, target, extracted, request, silent, built,
                     invocations>>
  BY DEF Drive
<1>2. Chosen \in Codes
  BY <1>1 DEF IInv, TypeOK, StageInv, HasTarget, Chosen
<1>3. result' \in [program : Codes, as : Probed, tests : BOOLEAN]
  BY <1>1, <1>2, WantedType DEF IInv, TypeOK
<1>4. TypeOK'  BY <1>1, <1>3 DEF IInv, TypeOK, inputs
<1>5. ReportIsOfLastBuild'
  BY <1>1 DEF IInv, StageInv, BuiltAsWanted, ReportIsOfLastBuild, Chosen
<1>. QED
  BY <1>1, <1>4, <1>5 DEF IInv, RunnerInv, StageInv, BuiltAsWanted,
                          ClearedIsFresh

LEMMA PrepareSuiteKeeps ==
  ASSUME IInv, PrepareSuite
  PROVE  IInv'
<1>1. /\ pc = "suite" /\ pc' = "start" /\ exit = "running"
      /\ extracted' = (extracted \/ request.archive)
      /\ UNCHANGED <<inputs, ll, instrumented_ll, target, result, request, exit,
                     silent, fresh, built, invocations>>
  BY DEF PrepareSuite, IInv, RunnerInv
<1>2. TypeOK'  BY <1>1 DEF IInv, TypeOK, inputs
<1>. QED
  BY <1>1, <1>2 DEF IInv, RunnerInv, StageInv, BuiltAsWanted,
                    ReportIsOfLastBuild, ClearedIsFresh

(* Steps that move the runner on and change no file.                       *)
LEMMA OtherStepsKeep ==
  ASSUME IInv, SkipTesting \/ StartTesting \/ InstrumentRefuses
  PROVE  IInv'
<1>1. /\ UNCHANGED <<inputs, disk, request, fresh, built, invocations>>
      /\ silent' \in BOOLEAN
  BY DEF SkipTesting, StartTesting, InstrumentRefuses, IInv, TypeOK
<1>2. TypeOK'
  BY <1>1 DEF IInv, TypeOK, inputs, disk, SkipTesting, StartTesting,
              InstrumentRefuses
<1>. QED
  BY <1>1, <1>2 DEF IInv, RunnerInv, StageInv, BuiltAsWanted,
     ReportIsOfLastBuild, ClearedIsFresh, inputs, disk, SkipTesting,
     StartTesting, InstrumentRefuses

LEMMA EditKeeps ==
  ASSUME IInv, EditSource
  PROVE  IInv'
<1>1. /\ pc = "idle" /\ source' \in Versions
      /\ UNCHANGED <<nearby, disk, request, pc, exit, silent, fresh, built,
                     invocations>>
  BY DEF EditSource
<1>2. TypeOK'  BY <1>1 DEF IInv, TypeOK, disk
<1>. QED
  BY <1>1, <1>2 DEF IInv, RunnerInv, StageInv, BuiltAsWanted,
                    ReportIsOfLastBuild, ClearedIsFresh, disk

LEMMA ClearOutputKeeps ==
  ASSUME IInv, ClearOutput
  PROVE  IInv'
<1>1. /\ pc = "idle" /\ built' = [code |-> NoFile, honest |-> FALSE]
      /\ ll' = NoFile /\ instrumented_ll' = NoFile
      /\ target' = NoFile /\ result' = NoFile /\ extracted' = FALSE
      /\ UNCHANGED <<inputs, request, pc, exit, silent, fresh, invocations>>
  BY DEF ClearOutput, NotBuilt
<1>2. TypeOK'  BY <1>1 DEF IInv, TypeOK, inputs
<1>. QED
  BY <1>1, <1>2 DEF IInv, RunnerInv, StageInv, BuiltAsWanted,
                    ReportIsOfLastBuild, ClearedIsFresh

(* A driver that refuses has cleared the directory if it was told to.      *)
LEMMA DriverRefusesKeeps ==
  ASSUME IInv, DriverRefuses
  PROVE  IInv'
<1>1. /\ pc = "drive" /\ pc' = "idle" /\ exit' = "ok" /\ silent' = TRUE
      /\ UNCHANGED <<inputs, disk, request, fresh, built, invocations>>
  BY DEF DriverRefuses
<1>2. TypeOK'  BY <1>1 DEF IInv, TypeOK, inputs, disk
<1>3. ClearedIsFresh'  BY <1>1 DEF IInv, StageInv, ClearedIsFresh, disk
<1>. QED
  BY <1>1, <1>2, <1>3 DEF IInv, RunnerInv, StageInv, BuiltAsWanted,
                          ReportIsOfLastBuild, disk

LEMMA StutterKeeps == IInv /\ UNCHANGED vars => IInv'
BY DEF vars, inputs, disk, IInv, TypeOK, RunnerInv, StageInv, HasTarget, Chosen,
       BuiltAsWanted, ReportIsOfLastBuild, ClearedIsFresh

LEMMA StepKeeps == IInv /\ [Next]_vars => IInv'
<1>. SUFFICES ASSUME IInv, [Next]_vars PROVE IInv'  OBVIOUS
<1>1. ASSUME NEW r \in Requests, Invoke(r) \/ Reject(r) PROVE IInv'
  BY <1>1, StartKeeps
<1>2. CASE EditSource  BY <1>2, EditKeeps
<1>3. CASE StageFails  BY <1>3, StageFailsKeeps
<1>4. CASE CompileSource \/ CompileLabelled  BY <1>4, CompileKeeps
<1>5. CASE Instrument  BY <1>5, InstrumentKeeps
<1>6. CASE Link  BY <1>6, LinkKeeps
<1>7. CASE StartDriver  BY <1>7, StartDriverKeeps
<1>8. CASE Drive  BY <1>8, DriveKeeps
<1>9. CASE DriverRefuses  BY <1>9, DriverRefusesKeeps
<1>10. CASE SkipTesting \/ StartTesting \/ InstrumentRefuses
  BY <1>10, OtherStepsKeep
<1>11. CASE ClearOutput  BY <1>11, ClearOutputKeeps
<1>12. CASE UNCHANGED vars  BY <1>12, StutterKeeps
<1>13. CASE PrepareSuite  BY <1>13, PrepareSuiteKeeps
<1>. QED
  BY <1>1, <1>2, <1>3, <1>4, <1>5, <1>6, <1>7, <1>8, <1>9, <1>10, <1>11, <1>12,
     <1>13 DEF Next

-----------------------------------------------------------------------------
(* The strengthened invariant holds in every state.                        *)
THEOREM Invariance == Spec => []IInv
BY InitHolds, StepKeeps, PTL DEF Spec

(* The files, the runner and its histories keep their types.               *)
THEOREM TypeCorrect == Spec => []TypeOK
<1>1. IInv => TypeOK  BY DEF IInv
<1>. QED  BY <1>1, Invariance, PTL

(* Unless a tool failed without saying so, the target is the source as it  *)
(* was when it was built last (TestCoCa.py:115-230).                       *)
THEOREM TargetIsBuiltAsWanted == Spec => []BuiltAsWanted
<1>1. IInv => BuiltAsWanted  BY DEF IInv
<1>. QED  BY <1>1, Invariance, PTL

(* What a successful run reports is of the last build, under the same      *)
(* condition, and of the tests it was given, if the driver did not clear   *)
(* them away (TestCoCa.py:383-407, run.cpp:178-189).                       *)
THEOREM ReportsTheLastBuild == Spec => []ReportIsOfLastBuild
<1>1. IInv => ReportIsOfLastBuild  BY DEF IInv
<1>. QED  BY <1>1, Invariance, PTL

(* A cleared directory holds no result of an earlier run that this one     *)
(* could be taken to have written (run.cpp:178-189).                       *)
THEOREM ClearedDirectoriesAreFresh == Spec => []ClearedIsFresh
<1>1. IInv => ClearedIsFresh  BY DEF IInv
<1>. QED  BY <1>1, Invariance, PTL
=============================================================================
