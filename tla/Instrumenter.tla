---------------------------- MODULE Instrumenter ----------------------------
(***************************************************************************)
(* The instrumenter's walk over the basic blocks of a benchmark: which     *)
(* decisions, goals and functions get a probe, under which number, and     *)
(* what the two constants say that the target library reports as counts.   *)
(*                                                                         *)
(* The blocks of all defined functions stand in one sequence, in the order *)
(* of the module.  Switches have been lowered to branches before.          *)
(***************************************************************************)
EXTENDS Integers, Sequences

CONSTANTS
  Modules,       \* the benchmarks that may be given
  targetFunc     \* the function of option inst_err

Option == {"br", "err", "goals"}
Block  == [function : STRING, entry : BOOLEAN,
           conditional : BOOLEAN,   \* ends in a conditional branch
           selects : Nat,           \* select instructions
           calls : Nat,             \* of __testcoca_process_goal, declared only
           succs : SUBSET Nat]      \* where it may branch to
Module == [declared : SUBSET STRING, blocks : Seq(Block)]

WellFormed(m) ==
  /\ m \in Module
  /\ \A b \in 1..Len(m.blocks) :
       /\ m.blocks[b].function \notin m.declared
       /\ m.blocks[b].succs \subseteq 1..Len(m.blocks)
       /\ \A s \in m.blocks[b].succs :
            ~m.blocks[s].entry /\ m.blocks[s].function = m.blocks[b].function

ASSUME ModulesAssumption == \A m \in Modules : WellFormed(m)
ASSUME TargetAssumption == targetFunc \in STRING

VARIABLES
  options, module,               \* the command line and the benchmark
  pc,                            \* the walk, or the part of it, that is next
  at, call,                      \* the block it is at, goal calls done in it
  name,                          \* of each function
  condBrCounter, goalCounter,
  location,                      \* argument of the probe of each decision
  goal,                          \* new argument of each goal call
  probed,                        \* functions with an error probe
  to_remove, removed,            \* blocks to delete, and deleted
  cond_br_count, goal_count      \* the constants as main() reads them

input  == <<options, module>>
walk   == <<pc, at, call>>
branch == <<condBrCounter, location, cond_br_count>>
goals  == <<goalCounter, goal, goal_count, to_remove, removed>>
vars   == <<input, walk, name, branch, goals, probed>>

Blocks    == 1..Len(module.blocks)
block(b)  == module.blocks[b]
Defined   == { block(b).function : b \in Blocks }
Functions == Defined \cup module.declared

(* A name is a prefix, perhaps empty, and what follows it.                 *)
renamePrefix == "__testcoca_rename_prefix__"
OriginalMain == "__testcoca_original_main"
Plain(f) == <<"", f>>

Init ==
  /\ options \in SUBSET Option /\ module \in Modules
  /\ pc = "rename" /\ at = 1 /\ call = 0
  /\ name = [f \in Functions |-> Plain(f)]
  /\ condBrCounter = 0 /\ location = [site \in {} |-> 0] /\ cond_br_count = 0
  /\ goalCounter = 0 /\ goal = [site \in {} |-> 0] /\ goal_count = 0
  /\ probed = {} /\ to_remove = {} /\ removed = {}

ToGoals == IF "goals" \in options THEN "goals" ELSE "print"
ToErr   == IF "err" \in options THEN "err" ELSE ToGoals
ToBr    == IF "br" \in options THEN "br" ELSE ToErr

Start(stage) == pc' = stage /\ at' = 1 /\ call' = 0
NextBlock(stage) == pc' = stage /\ at' = at + 1 /\ call' = 0
Stay(stage) == pc' = stage /\ UNCHANGED <<at, call>>

-----------------------------------------------------------------------------
NewName(f) ==
  IF f = "main" THEN Plain(OriginalMain)
  ELSE IF f \in Defined THEN <<renamePrefix, f>> ELSE Plain(f)

RenameFunctions ==
  /\ pc = "rename" /\ Start(ToBr)
  /\ name' = [f \in Functions |-> NewName(f)]
  /\ UNCHANGED <<input, branch, goals, probed>>

-----------------------------------------------------------------------------
Bug_CountsLater == condBrCounter
FreshLocation == condBrCounter + 1

(* ++condBrCounter, and the probe is told its value.                       *)
instrumentCondBr(site) ==
  /\ condBrCounter' = condBrCounter + 1
  /\ location' = [s \in DOMAIN location \cup {site} |->
                    IF s = site THEN FreshLocation ELSE location[s]]
  /\ UNCHANGED cond_br_count

Terminator ==
  /\ pc = "br" /\ at \in Blocks /\ Stay("select")
  /\ IF block(at).conditional THEN instrumentCondBr(<<at, "branch">>)
     ELSE UNCHANGED branch
  /\ UNCHANGED <<input, name, goals, probed>>

(* The first select of a block is instrumented, and no other.              *)
FirstSelect ==
  /\ pc = "select" /\ NextBlock("br")
  /\ IF block(at).selects > 0 THEN instrumentCondBr(<<at, "select">>)
     ELSE UNCHANGED branch
  /\ UNCHANGED <<input, name, goals, probed>>

BranchesDone ==
  /\ pc = "br" /\ at \notin Blocks /\ Start(ToErr)
  /\ cond_br_count' = condBrCounter
  /\ UNCHANGED <<input, name, condBrCounter, location, goals, probed>>

-----------------------------------------------------------------------------
Bug_PlainName == Plain(targetFunc)
SoughtName == <<renamePrefix, targetFunc>>

InstrumentErr ==
  /\ pc = "err" /\ Start(ToGoals)
  /\ probed' = { f \in Defined : name[f] = SoughtName }
  /\ UNCHANGED <<input, name, branch, goals>>

-----------------------------------------------------------------------------
Bug_NoneBefore(b) == \A p \in 1..b : b \notin block(p).succs
pred_empty(b) == \A p \in Blocks : b \notin block(p).succs

Bug_NoContinue(b) == block(b).entry
Skipped(b) == block(b).entry \/ pred_empty(b)

VisitBlock ==
  /\ pc = "goals" /\ at \in Blocks
  /\ to_remove' = IF ~block(at).entry /\ pred_empty(at)
                  THEN to_remove \cup {at} ELSE to_remove
  /\ IF Skipped(at) THEN NextBlock("goals") ELSE Stay("calls")
  /\ UNCHANGED <<input, name, branch, goalCounter, goal, goal_count, removed,
                 probed>>

Bug_FromMinusOne == goalCounter - 1
FreshGoal == goalCounter

NumberGoal ==
  /\ pc = "calls" /\ call < block(at).calls
  /\ call' = call + 1
  /\ goal' = [s \in DOMAIN goal \cup {<<at, call>>} |->
                IF s = <<at, call>> THEN FreshGoal ELSE goal[s]]
  /\ goalCounter' = goalCounter + 1
  /\ UNCHANGED <<input, pc, at, name, branch, goal_count, to_remove, removed,
                 probed>>

CallsDone ==
  /\ pc = "calls" /\ call >= block(at).calls /\ NextBlock("goals")
  /\ UNCHANGED <<input, name, branch, goals, probed>>

GoalsDone ==
  /\ pc = "goals" /\ at \notin Blocks /\ Start("print")
  /\ goal_count' = goalCounter
  /\ removed' = to_remove
  /\ UNCHANGED <<input, name, branch, goalCounter, goal, to_remove, probed>>

Next ==
  \/ RenameFunctions
  \/ Terminator \/ FirstSelect \/ BranchesDone
  \/ InstrumentErr
  \/ VisitBlock \/ NumberGoal \/ CallsDone \/ GoalsDone

Spec == Init /\ [][Next]_vars

-----------------------------------------------------------------------------
Printed == pc = "print"

Decisions ==
  { <<b, "branch">> : b \in { c \in Blocks : block(c).conditional } }
    \cup { <<b, "select">> : b \in { c \in Blocks : block(c).selects > 0 } }

GoalCalls == UNION { {b} \X (0..(block(b).calls - 1)) : b \in Blocks }

Numbers(f, S, T) ==
  /\ DOMAIN f = S
  /\ \A s \in S : f[s] \in T
  /\ \A s, t \in S : f[s] = f[t] => s = t
  /\ \A n \in T : \E s \in S : f[s] = n

(* What is reached from the entry blocks is in every set that has them and *)
(* is closed under successors.                                             *)
Reached(b) ==
  \A S \in SUBSET Blocks :
    /\ \A e \in Blocks : block(e).entry => e \in S
    /\ \A s \in S : block(s).succs \subseteq S
    => b \in S

(* Every variable has its type.                                            *)
TypeOK ==
  /\ options \subseteq Option /\ WellFormed(module)
  /\ pc \in {"rename", "br", "select", "err", "goals", "calls", "print"}
  /\ at \in 1..(Len(module.blocks) + 1) /\ call \in Nat
  /\ name \in [Functions -> {"", renamePrefix} \X (Functions \cup {OriginalMain})]
  /\ condBrCounter \in Nat /\ cond_br_count \in Nat
  /\ goalCounter \in Nat /\ goal_count \in Nat
  /\ DOMAIN location \subseteq Decisions
  /\ \A s \in DOMAIN location : location[s] \in Nat
  /\ DOMAIN goal \subseteq GoalCalls
  /\ \A s \in DOMAIN goal : goal[s] \in Nat
  /\ probed \subseteq Defined
  /\ to_remove \subseteq Blocks /\ removed \subseteq Blocks

(* Every decision has a number of its own, and the numbers are those from  *)
(* 1 to what the target announces as its branch count: zero stays free for *)
(* the end of the records, and no two branches share a record              *)
(* (llvm_instrumenter.cpp:101-124).                                        *)
BranchIdsAreDense ==
  Printed /\ "br" \in options => Numbers(location, Decisions, 1..cond_br_count)

(* The goals that are left after unreachable blocks were deleted, but for  *)
(* those in an entry block, have the numbers below the announced count, so *)
(* that no flag of a deleted goal is waited for in vain                    *)
(* (llvm_instrumenter.cpp:126-161).                                        *)
GoalIdsAreDense ==
  Printed /\ "goals" \in options =>
    Numbers(goal,
            { site \in GoalCalls :
                site[1] \notin removed /\ ~block(site[1]).entry },
            0..(goal_count - 1))

(* Deleting blocks deletes nothing the benchmark can reach, neither its    *)
(* goals nor the decisions that were probed before                         *)
(* (llvm_instrumenter.cpp:135-138, 158-160).                               *)
ReachableIsKept == \A b \in removed : ~Reached(b)

(* The error function is found under the name renameFunctions gave it, and *)
(* nothing else is; main, and a function without a body, cannot be one.    *)
ErrorIsProbed ==
  Printed /\ "err" \in options => probed = (Defined \cap {targetFunc}) \ {"main"}
=============================================================================
