------------------------------ MODULE Pipeline ------------------------------
(***************************************************************************)
(* The runner: it compiles a source file, instruments it, links it with    *)
(* the target library and starts the driver, passing files in an output    *)
(* directory from one tool to the next and trusting their exit codes.      *)
(* Builds and tests may be invocations of their own, as the benchmark      *)
(* manager makes them, so that files of earlier ones are always around.    *)
(***************************************************************************)
EXTENDS Naturals

CONSTANTS
  Versions,   \* states the source file has
  Beside,     \* targets to find in the directory of the source file
  NoFile,
  MaxInvocations  \* bound

(* What a file holds: the version of the source it stems from, and how far *)
(* it has come.  "calls" has a call for every goal, not numbered yet;      *)
(* "br", "err" and "goals" are instrumented.                               *)
Kinds == {"bare", "calls", "empty", "br", "err", "goals"}
Probed == {"br", "err", "goals"}
Code(version, kind) == [version |-> version, kind |-> kind]
Codes == [version : Versions, kind : Kinds]

ASSUME BesideAssumption == Beside \subseteq {NoFile} \cup Codes
ASSUME MaxInvocationsAssumption == MaxInvocations \in Nat

(* archive: the tests come as test-suite.zip, which is extracted to the     *)
(* directory test-suite of the output directory.                           *)
Requests ==
  [ goal : {"coverage", "call"}, testcomp : BOOLEAN,
    skip_building : BOOLEAN, skip_testing : BOOLEAN,
    clear_output_dir : BOOLEAN, archive : BOOLEAN ]

(* --testcomp is ignored for error calls.                                  *)
Effective(r) == [r EXCEPT !.testcomp = @ /\ r.goal = "coverage"]

(* What the instrumenter is asked for, and what the driver takes the       *)
(* target for.                                                             *)
Wanted(r) ==
  IF r.goal = "call" THEN "err" ELSE IF r.testcomp THEN "goals" ELSE "br"

VARIABLES
  source, nearby,       \* version of the input file; a target beside it
  ll, instrumented_ll, target, result,  \* in the output directory
  extracted,            \* ... as are tests, in its test-suite
  request, pc, exit,    \* the runner
  silent,               \* history: a tool failed and did not say so
  fresh,                \* history: this invocation wrote the result
  built,                \* history: what the target was to be when linked
  invocations           \* bound: how often the runner was started

disk   == <<ll, instrumented_ll, target, result, extracted>>
inputs == <<source, nearby>>
vars   == <<inputs, disk, request, pc, exit, silent, fresh, built,
            invocations>>

NotBuilt == [code |-> NoFile, honest |-> FALSE]

Init ==
  /\ source \in Versions
  /\ nearby \in Beside
  /\ ll = NoFile /\ instrumented_ll = NoFile
  /\ target = NoFile /\ result = NoFile /\ extracted = FALSE
  /\ request = [ goal |-> "coverage", testcomp |-> FALSE,
                 skip_building |-> FALSE, skip_testing |-> FALSE,
                 clear_output_dir |-> FALSE, archive |-> FALSE ]
  /\ pc = "idle" /\ exit = "none"
  /\ silent = FALSE /\ fresh = FALSE /\ built = NotBuilt /\ invocations = 0

-----------------------------------------------------------------------------
EditSource ==
  /\ pc = "idle" /\ source' \in Versions \ {source}
  /\ UNCHANGED <<nearby, disk, request, pc, exit, silent, fresh, built,
                 invocations>>

(* The benchmark manager clears a benchmark: the output directory goes.    *)
ClearOutput ==
  /\ pc = "idle"
  /\ ll' = NoFile /\ instrumented_ll' = NoFile
  /\ target' = NoFile /\ result' = NoFile /\ extracted' = FALSE
  /\ built' = NotBuilt
  /\ UNCHANGED <<inputs, request, pc, exit, silent, fresh, invocations>>

Invoke(r) ==
  /\ pc = "idle"
  /\ invocations < MaxInvocations /\ invocations' = invocations + 1
  /\ request' = Effective(r)
  /\ pc' = IF r.skip_building THEN "test" ELSE "build"
  /\ exit' = "running" /\ silent' = FALSE /\ fresh' = FALSE
  /\ UNCHANGED <<inputs, disk, built>>

(* Without an input file or a goal that it knows the runner does nothing.  *)
Reject(r) ==
  /\ pc = "idle"
  /\ invocations < MaxInvocations /\ invocations' = invocations + 1
  /\ request' = Effective(r)
  /\ exit' = "failed" /\ silent' = FALSE /\ fresh' = FALSE
  /\ UNCHANGED <<inputs, pc, disk, built>>

Bug_LinksAnyway == IF pc = "instrument" THEN "link" ELSE "idle"
AfterFailure    == "idle"

(* A tool that says that it failed, or that could not be started, ends the *)
(* runner; the file it was to write is as it was, or of no use any more.   *)
Spoiled ==
  \/ pc = "build" /\ ll' = NoFile /\ UNCHANGED <<instrumented_ll, target, extracted>>
  \/ pc = "instrument" /\ instrumented_ll' = NoFile /\ UNCHANGED <<ll, target, extracted>>
  \/ pc = "link" /\ target' = NoFile /\ UNCHANGED <<ll, instrumented_ll, extracted>>
  \/ /\ pc = "suite" /\ request.archive /\ extracted' = FALSE
     /\ UNCHANGED <<ll, instrumented_ll, target>>

StageFails ==
  /\ pc \in {"build", "instrument", "link", "suite", "start", "drive"}
  /\ pc' = AfterFailure
  /\ exit' = IF AfterFailure = "idle" THEN "failed" ELSE exit
  /\ Spoiled \/ UNCHANGED <<ll, instrumented_ll, target, extracted>>
  /\ UNCHANGED <<inputs, result, request, silent, fresh, built, invocations>>

-----------------------------------------------------------------------------
CompileSource ==
  /\ pc = "build" /\ ~request.testcomp /\ pc' = "instrument"
  /\ ll' = Code(source, "bare")
  /\ UNCHANGED <<inputs, instrumented_ll, target, result, extracted, request, exit,
                 silent, fresh, built, invocations>>

(* transform_goals makes a call of every label.                            *)
Transformed == Code(source, "calls")

(* Whatever label-adder prints is taken for the labelled source, and that  *)
(* transform_goals returned False is not looked at: then there are labels  *)
(* without calls, which are nothing to the compiler.                       *)
CompileLabelled ==
  /\ pc = "build" /\ request.testcomp /\ pc' = "instrument"
  /\ \/ ll' = Transformed /\ UNCHANGED silent
     \/ ll' \in {Code(source, "empty"), Code(source, "bare")} /\ silent' = TRUE
  /\ UNCHANGED <<inputs, instrumented_ll, target, result, extracted, request, exit, fresh,
                 built, invocations>>

(* A program without goal calls has no goals to number.                    *)
Instrumented(code, option) ==
  [code EXCEPT !.kind =
     CASE @ = "bare" /\ option # "goals" -> option
       [] @ = "calls" /\ option = "goals" -> "goals"
       [] OTHER -> @]

Instrument ==
  /\ pc = "instrument" /\ pc' = "link"
  /\ instrumented_ll' = Instrumented(ll, Wanted(request))
  /\ UNCHANGED <<inputs, ll, target, result, extracted, request, exit, silent,
                 fresh, built, invocations>>

(* Every early return of the instrumenter is an exit code of 0.            *)
InstrumentRefuses ==
  /\ pc = "instrument" /\ pc' = "link" /\ silent' = TRUE
  /\ UNCHANGED <<inputs, disk, request, exit, fresh, built, invocations>>

(* The linker finds a program without main() incomplete.                   *)
Linkable(code) == code # NoFile /\ code.kind # "empty"

Link ==
  /\ pc = "link" /\ Linkable(instrumented_ll) /\ pc' = "test"
  /\ target' = instrumented_ll
  /\ built' = [code |-> Code(source, Wanted(request)), honest |-> ~silent]
  /\ UNCHANGED <<inputs, ll, instrumented_ll, result, extracted, request, exit,
                 silent, fresh, invocations>>

-----------------------------------------------------------------------------
SkipTesting ==
  /\ pc = "test" /\ request.skip_testing
  /\ pc' = "idle" /\ exit' = "ok"
  /\ UNCHANGED <<inputs, disk, request, silent, fresh, built, invocations>>

StartTesting ==
  /\ pc = "test" /\ ~request.skip_testing /\ pc' = "suite"
  /\ UNCHANGED <<inputs, disk, request, exit, silent, fresh, built,
                 invocations>>

(* prepare_test_suite: tests of before are replaced by those of the archive.*)
PrepareSuite ==
  /\ pc = "suite" /\ pc' = "start"
  /\ extracted' = (extracted \/ request.archive)
  /\ UNCHANGED <<inputs, ll, instrumented_ll, target, result, request, exit,
                 silent, fresh, built, invocations>>

(* A target beside the source file is taken when there is none to find.    *)
Bug_BesideFirst == IF nearby # NoFile THEN nearby ELSE target
Chosen == IF target # NoFile THEN target ELSE nearby

Bug_NoCheck == TRUE
HasTarget   == Chosen # NoFile

Bug_KeepsOld == result
Cleared == IF request.clear_output_dir THEN NoFile ELSE result

(* The driver clears the directory before it looks at the target, and with *)
(* it the tests that have just been extracted there.                       *)
StartDriver ==
  /\ pc = "start" /\ HasTarget /\ pc' = "drive"
  /\ result' = Cleared
  /\ extracted' = (extracted /\ ~request.clear_output_dir)
  /\ UNCHANGED <<inputs, ll, instrumented_ll, target, request, exit,
                 silent, fresh, built, invocations>>

Drive ==
  /\ pc = "drive" /\ pc' = "idle" /\ exit' = "ok"
  /\ result' = [program |-> Chosen, as |-> Wanted(request),
                tests |-> extracted \/ ~request.archive]
  /\ fresh' = TRUE
  /\ UNCHANGED <<inputs, ll, instrumented_ll, target, extracted, request, silent,
                 built, invocations>>

(* Every early return of the driver is an exit code of 0 as well.          *)
DriverRefuses ==
  /\ pc = "drive" /\ pc' = "idle" /\ exit' = "ok" /\ silent' = TRUE
  /\ UNCHANGED <<inputs, disk, request, fresh, built, invocations>>

Next ==
  \/ EditSource \/ ClearOutput \/ (\E r \in Requests : Invoke(r) \/ Reject(r)) \/ StageFails
  \/ CompileSource \/ CompileLabelled
  \/ Instrument \/ InstrumentRefuses \/ Link
  \/ SkipTesting \/ StartTesting \/ PrepareSuite \/ StartDriver \/ Drive \/ DriverRefuses

Spec == Init /\ [][Next]_vars

-----------------------------------------------------------------------------
(* Every variable has its type.                                            *)
TypeOK ==
  /\ source \in Versions
  /\ nearby \in {NoFile} \cup Codes
  /\ {ll, instrumented_ll, target} \subseteq {NoFile} \cup Codes
  /\ result \in {NoFile} \cup [program : Codes, as : Probed, tests : BOOLEAN]
  /\ extracted \in BOOLEAN
  /\ request \in Requests
  /\ pc \in {"idle", "build", "instrument", "link", "test", "suite", "start",
            "drive"}
  /\ exit \in {"none", "running", "ok", "failed"}
  /\ silent \in BOOLEAN /\ fresh \in BOOLEAN
  /\ invocations \in 0..MaxInvocations
  /\ built \in [code : {NoFile} \cup Codes, honest : BOOLEAN]

(* Unless a tool failed without saying so, the target is the source as it  *)
(* was when it was built last, with the probes asked for, whatever files   *)
(* earlier builds that failed have left (TestCoCa.py:115-230).             *)
BuiltAsWanted == target # NoFile /\ built.honest => target = built.code

(* Under the same condition, what a successful run reports is of the last  *)
(* build, and of the kind it asked for if it built (TestCoCa.py:383-407);  *)
(* and it is of the tests given, unless they were extracted to where the   *)
(* driver was told to clear: then it is of none (run.cpp:183-186).         *)
ReportIsOfLastBuild ==
  /\ exit = "ok" /\ ~silent /\ ~request.skip_testing
  /\ target # NoFile /\ built.honest
  => /\ result = [program |-> built.code, as |-> Wanted(request),
                  tests |-> ~(request.archive /\ request.clear_output_dir)]
     /\ ~request.skip_building => built.code.kind = Wanted(request)

(* A run told to clear the directory, and that did not fail, does not      *)
(* leave the result of an earlier one (run.cpp:178-189).                   *)
ClearedIsFresh ==
  exit = "ok" /\ ~request.skip_testing /\ request.clear_output_dir
    => fresh \/ result = NoFile
=============================================================================
