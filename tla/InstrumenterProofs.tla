------------------------- MODULE InstrumenterProofs -------------------------
(***************************************************************************)
(* The numbers of branches and goals are without gap or repetition, and    *)
(* nothing reachable is deleted: proofs, for any benchmark and any options.*)
(***************************************************************************)
EXTENDS Instrumenter, TLAPS

(* Decisions that have been given a number so far.                         *)
Placed ==
  { s \in Decisions :
      \/ pc \notin {"rename", "br", "select"} /\ "br" \in options
      \/ pc \in {"br", "select"} /\ s[1] < at
      \/ pc = "select" /\ s = <<at, "branch">> }

BranchInv ==
  /\ Numbers(location, Placed, 1..condBrCounter)
  /\ pc \in {"br", "select"} => "br" \in options
  /\ pc = "select" => at \in Blocks
  /\ IF pc \in {"rename", "br", "select"} THEN cond_br_count = 0
     ELSE cond_br_count = condBrCounter

Live == { site \in GoalCalls : ~Skipped(site[1]) }
Dead == { b \in Blocks : ~block(b).entry /\ pred_empty(b) }

(* Goal calls that have been given a number so far.                        *)
Numbered ==
  { s \in Live :
      \/ pc = "print" /\ "goals" \in options
      \/ pc \in {"goals", "calls"} /\ s[1] < at
      \/ pc = "calls" /\ s[1] = at /\ s[2] < call }

GoalInv ==
  /\ Numbers(goal, Numbered, 0..(goalCounter - 1))
  /\ pc \in {"goals", "calls"} => "goals" \in options
  /\ pc = "goals" => call = 0
  /\ pc = "calls" => at \in Blocks /\ ~Skipped(at) /\ call <= block(at).calls
  /\ IF pc \in {"goals", "calls"} THEN to_remove = { b \in Dead : b < at }
     ELSE pc # "print" => to_remove = {}
  /\ removed = IF pc = "print" /\ "goals" \in options THEN Dead ELSE {}
  /\ pc = "print" /\ "goals" \in options => goal_count = goalCounter

ErrInv ==
  /\ pc # "rename" => name = [f \in Functions |-> NewName(f)]
  /\ pc \in {"goals", "calls", "print"} /\ "err" \in options
       => probed = (Defined \cap {targetFunc}) \ {"main"}

IInv == TypeOK /\ BranchInv /\ GoalInv /\ ErrInv

-----------------------------------------------------------------------------
(* Giving the next number to something new keeps a numbering one.          *)
LEMMA OneMore ==
  ASSUME NEW f, NEW g, NEW S, NEW x, NEW first \in Nat, NEW next \in Nat,
         first <= next, x \notin S,
         Numbers(f, S, first..(next - 1)),
         g = [s \in DOMAIN f \cup {x} |-> IF s = x THEN next ELSE f[s]]
  PROVE  Numbers(g, S \cup {x}, first..next)
<1>1. DOMAIN g = S \cup {x}  BY DEF Numbers
<1>2. \A s \in S : g[s] = f[s] /\ f[s] \in first..(next - 1)
  BY DEF Numbers
<1>3. g[x] = next  OBVIOUS
<1>4. \A s \in S \cup {x} : g[s] \in first..next
  <2>1. next \in first..next  OBVIOUS
  <2>2. \A n \in first..(next - 1) : n \in first..next  OBVIOUS
  <2>3. \A s \in S : g[s] \in first..next  BY <1>2, <2>2
  <2>. QED  BY <2>1, <2>3, <1>3
<1>5. \A s, t \in S \cup {x} : g[s] = g[t] => s = t
  BY <1>2, <1>3 DEF Numbers
<1>6. \A n \in first..next : \E s \in S \cup {x} : g[s] = n
  <2>. SUFFICES ASSUME NEW n \in first..next
                PROVE  \E s \in S \cup {x} : g[s] = n
    OBVIOUS
  <2>1. CASE n = next  BY <2>1, <1>3
  <2>2. CASE n # next
    <3>1. n \in first..(next - 1)  BY <2>2
    <3>2. PICK s \in S : f[s] = n  BY <3>1 DEF Numbers
    <3>. QED  BY <3>2, <1>2
  <2>. QED  BY <2>1, <2>2
<1>. QED  BY <1>1, <1>4, <1>5, <1>6 DEF Numbers

(* What the walks go over stays the same.                                  *)
LEMMA SameBenchmark ==
  ASSUME UNCHANGED input
  PROVE  /\ options' = options /\ module' = module
         /\ Blocks' = Blocks /\ Defined' = Defined /\ Functions' = Functions
         /\ Decisions' = Decisions /\ GoalCalls' = GoalCalls
         /\ Live' = Live /\ Dead' = Dead
         /\ \A b : block(b)' = block(b) /\ Skipped(b)' = Skipped(b)
         /\ \A f : NewName(f)' = NewName(f)
BY DEF input, Blocks, Defined, Functions, Decisions, GoalCalls, Live, Dead,
       block, Skipped, pred_empty, NewName

LEMMA BlockType ==
  ASSUME TypeOK
  PROVE  /\ Len(module.blocks) \in Nat
         /\ Blocks = 1..Len(module.blocks)
         /\ \A b \in Blocks :
              /\ block(b) \in Block
              /\ block(b).calls \in Nat /\ block(b).selects \in Nat
              /\ block(b).entry \in BOOLEAN /\ block(b).conditional \in BOOLEAN
              /\ block(b).succs \subseteq Blocks
              /\ \A s \in block(b).succs : ~block(s).entry
<1>1. module.blocks \in Seq(Block)  BY DEF TypeOK, WellFormed, Module
<1>2. \A b \in 1..Len(module.blocks) : module.blocks[b] \in Block  BY <1>1
<1>3. Len(module.blocks) \in Nat /\ Blocks = 1..Len(module.blocks)
  BY <1>1 DEF Blocks
<1>4. ASSUME NEW b \in Blocks
      PROVE  /\ block(b) \in Block
             /\ block(b).succs \subseteq Blocks
             /\ \A s \in block(b).succs : ~block(s).entry
  <2>1. block(b) \in Block  BY <1>2 DEF Blocks, block
  <2>2. /\ module.blocks[b].succs \subseteq 1..Len(module.blocks)
        /\ \A s \in module.blocks[b].succs : ~module.blocks[s].entry
    BY DEF TypeOK, WellFormed, Blocks
  <2>. QED  BY <2>1, <2>2 DEF Blocks, block
<1>5. \A c \in Block : /\ c.calls \in Nat /\ c.selects \in Nat
                       /\ c.entry \in BOOLEAN /\ c.conditional \in BOOLEAN
  BY DEF Block
<1>. QED  BY <1>3, <1>4, <1>5

LEMMA AtType ==
  ASSUME TypeOK
  PROVE  at \in Nat /\ at >= 1 /\ at <= Len(module.blocks) + 1
<1>1. at \in 1..(Len(module.blocks) + 1)  BY Zenon DEF TypeOK
<1>2. Len(module.blocks) \in Nat  BY BlockType
<1>. QED  BY <1>1, <1>2

LEMMA DecisionType ==
  ASSUME TypeOK
  PROVE  /\ \A s \in Decisions : s[1] \in Blocks /\ s[1] \in Nat
         /\ \A s \in Decisions : s = <<s[1], "branch">> \/ s = <<s[1], "select">>
         /\ \A b \in Blocks : /\ <<b, "branch">> \in Decisions <=> block(b).conditional
                              /\ <<b, "select">> \in Decisions <=> block(b).selects > 0
<1>. "branch" # "select"  OBVIOUS
<1>. QED  BY BlockType DEF Decisions

LEMMA CallType ==
  ASSUME TypeOK
  PROVE  /\ \A s \in GoalCalls : /\ s[1] \in Blocks /\ s[1] \in Nat /\ s[2] \in Nat
                                 /\ s[2] < block(s[1]).calls
                                 /\ s = <<s[1], s[2]>>
         /\ \A b \in Blocks, k \in Nat :
              k < block(b).calls => <<b, k>> \in GoalCalls
BY BlockType DEF GoalCalls

-----------------------------------------------------------------------------
LEMMA NameType ==
  ASSUME NEW f \in Functions
  PROVE  /\ Plain(f) \in {"", renamePrefix} \X (Functions \cup {OriginalMain})
         /\ NewName(f) \in {"", renamePrefix} \X (Functions \cup {OriginalMain})
BY DEF NewName, Plain

LEMMA NameSought ==
  ASSUME NEW f \in Defined
  PROVE  (NewName(f) = SoughtName) <=> (f = targetFunc /\ f # "main")
BY DEF NewName, SoughtName, Plain, OriginalMain, renamePrefix

-----------------------------------------------------------------------------
LEMMA InitHolds == Init => IInv
<1>. SUFFICES ASSUME Init PROVE IInv  OBVIOUS
<1>1. TypeOK
  <2>1. WellFormed(module)  BY ModulesAssumption DEF Init
  <2>2. Len(module.blocks) \in Nat  BY <2>1 DEF WellFormed, Module
  <2>3. name \in [Functions -> {"", renamePrefix} \X (Functions \cup {OriginalMain})]
    BY NameType DEF Init
  <2>4. 1 \in 1..(Len(module.blocks) + 1)  BY <2>2
  <2>5. options \subseteq Option  BY DEF Init
  <2>6. DOMAIN location = {} /\ DOMAIN goal = {}  BY DEF Init
  <2>. QED  BY <2>1, <2>3, <2>4, <2>5, <2>6 DEF Init, TypeOK
<1>2. Placed = {} /\ Numbered = {}  BY DEF Init, Placed, Numbered
<1>3. BranchInv  BY <1>2 DEF Init, BranchInv, Numbers
<1>4. GoalInv  BY <1>2 DEF Init, GoalInv, Numbers
<1>5. ErrInv  BY DEF Init, ErrInv
<1>. QED  BY <1>1, <1>3, <1>4, <1>5 DEF IInv

LEMMA Stages ==
  /\ ToGoals \in {"goals", "print"} /\ (ToGoals = "goals" <=> "goals" \in options)
  /\ ToErr \in {"err", ToGoals} /\ (ToErr = "err" <=> "err" \in options)
  /\ ToBr \in {"br", ToErr} /\ (ToBr = "br" <=> "br" \in options)
BY DEF ToGoals, ToErr, ToBr

LEMMA TypeKeeps ==
  ASSUME IInv, Next
  PROVE  TypeOK'
<1>. USE DEF Start, NextBlock, Stay, branch, goals, IInv
<1>0. /\ TypeOK
      /\ condBrCounter \in Nat /\ cond_br_count \in Nat
      /\ goalCounter \in Nat /\ call \in Nat
      /\ DOMAIN location \subseteq Decisions
      /\ \A s \in DOMAIN location : location[s] \in Nat
      /\ DOMAIN goal \subseteq GoalCalls
      /\ \A s \in DOMAIN goal : goal[s] \in Nat
      /\ to_remove \subseteq Blocks
  BY DEF TypeOK
<1>1. UNCHANGED input
  BY DEF Next, RenameFunctions, Terminator, FirstSelect, BranchesDone,
         InstrumentErr, VisitBlock, NumberGoal, CallsDone, GoalsDone
<1>2. /\ options' \subseteq Option /\ WellFormed(module)'
      /\ Blocks' = Blocks /\ Functions' = Functions /\ Defined' = Defined
      /\ Decisions' = Decisions /\ GoalCalls' = GoalCalls /\ module' = module
  BY <1>1, SameBenchmark DEF TypeOK
<1>3. 1 \in 1..(Len(module.blocks) + 1) /\ Blocks = 1..Len(module.blocks)
      /\ Len(module.blocks) \in Nat
  BY BlockType
<1>4. \A b \in Blocks : b + 1 \in 1..(Len(module.blocks) + 1)
  BY <1>3
<1>5. CASE RenameFunctions
  <2>1. name' \in [Functions -> {"", renamePrefix} \X (Functions \cup {OriginalMain})]
    BY <1>5, NameType DEF RenameFunctions
  <2>. QED  BY <1>2, <1>3, <1>5, <2>1, Stages DEF RenameFunctions, TypeOK
<1>6. ASSUME NEW site \in Decisions, instrumentCondBr(site)
      PROVE  /\ condBrCounter' \in Nat /\ cond_br_count' \in Nat
             /\ DOMAIN location' \subseteq Decisions
             /\ \A s \in DOMAIN location' : location'[s] \in Nat
  <2>1. condBrCounter \in Nat /\ condBrCounter + 1 \in Nat /\ cond_br_count \in Nat
    BY <1>0
  <2>2. DOMAIN location' = DOMAIN location \cup {site}
    BY <1>6 DEF instrumentCondBr
  <2>3. \A s \in DOMAIN location' : location'[s] \in Nat
    BY <1>6, <2>1, <1>0 DEF instrumentCondBr, FreshLocation
  <2>. QED  BY <1>6, <2>1, <2>2, <2>3, <1>0 DEF instrumentCondBr
<1>7. CASE Terminator
  <2>1. block(at).conditional => <<at, "branch">> \in Decisions
    BY <1>7, DecisionType DEF Terminator
  <2>. QED  BY <1>2, <1>6, <1>7, <2>1 DEF Terminator, TypeOK
<1>8. CASE FirstSelect
  <2>1. at \in Blocks  BY <1>8 DEF FirstSelect, BranchInv
  <2>2. block(at).selects > 0 => <<at, "select">> \in Decisions
    BY <2>1, DecisionType
  <2>. QED  BY <1>2, <1>4, <1>6, <1>8, <2>1, <2>2 DEF FirstSelect, TypeOK
<1>9. CASE BranchesDone
  BY <1>2, <1>3, <1>9, Stages DEF BranchesDone, TypeOK
<1>10. CASE InstrumentErr
  BY <1>2, <1>3, <1>10, Stages DEF InstrumentErr, TypeOK
<1>11. CASE VisitBlock
  <2>1. to_remove' \subseteq Blocks  BY <1>0, <1>11 DEF VisitBlock
  <2>2. at' \in 1..(Len(module.blocks) + 1) /\ call' \in Nat
        /\ pc' \in {"goals", "calls"}
    <3>1. at \in Blocks /\ at \in 1..(Len(module.blocks) + 1)
      BY <1>0, <1>11 DEF VisitBlock, TypeOK
    <3>2. at + 1 \in 1..(Len(module.blocks) + 1)  BY <1>4, <3>1
    <3>3. CASE Skipped(at)  BY <1>11, <3>2, <3>3 DEF VisitBlock
    <3>4. CASE ~Skipped(at)  BY <1>0, <1>11, <3>1, <3>4 DEF VisitBlock
    <3>. QED  BY <3>3, <3>4
  <2>. QED  BY <1>0, <1>2, <1>11, <2>1, <2>2 DEF VisitBlock, TypeOK
<1>12. CASE NumberGoal
  <2>1. at \in Blocks /\ call \in Nat /\ call + 1 \in Nat
    BY <1>0, <1>12 DEF NumberGoal, GoalInv
  <2>2. <<at, call>> \in GoalCalls  BY <1>12, <2>1, CallType DEF NumberGoal
  <2>3. DOMAIN goal' = DOMAIN goal \cup {<<at, call>>}  BY <1>12 DEF NumberGoal
  <2>4. \A s \in DOMAIN goal' : goal'[s] \in Nat
    BY <1>0, <1>12 DEF NumberGoal, FreshGoal
  <2>5. goalCounter' \in Nat  BY <1>0, <1>12 DEF NumberGoal
  <2>. QED
    BY <1>0, <1>2, <1>12, <2>1, <2>2, <2>3, <2>4, <2>5 DEF NumberGoal, TypeOK
<1>13. CASE CallsDone
  <2>1. at \in Blocks  BY <1>13 DEF CallsDone, GoalInv
  <2>. QED  BY <1>2, <1>4, <1>13, <2>1 DEF CallsDone, TypeOK
<1>14. CASE GoalsDone
  BY <1>2, <1>3, <1>14 DEF GoalsDone, TypeOK
<1>. QED
  BY <1>5, <1>7, <1>8, <1>9, <1>10, <1>11, <1>12, <1>13, <1>14 DEF Next

(* The names given are those looked up.                                    *)
LEMMA ErrKeeps ==
  ASSUME IInv, Next, UNCHANGED input
  PROVE  ErrInv'
<1>. USE DEF Start, NextBlock, Stay, IInv
<1>1. CASE RenameFunctions
  BY <1>1, SameBenchmark, Stages DEF RenameFunctions, ErrInv
<1>2. CASE InstrumentErr
  <2>1. \A f \in Defined : f \in Functions  BY DEF Functions
  <2>2. \A f \in Defined : name[f] = SoughtName <=> (f = targetFunc /\ f # "main")
    BY <1>2, <2>1, NameSought DEF InstrumentErr, ErrInv
  <2>3. probed' = (Defined \cap {targetFunc}) \ {"main"}
    BY <1>2, <2>2 DEF InstrumentErr
  <2>. QED
    BY <1>2, <2>3, SameBenchmark, Stages DEF InstrumentErr, ErrInv
<1>3. CASE Terminator \/ FirstSelect \/ VisitBlock \/ NumberGoal \/ CallsDone \/ GoalsDone
  BY <1>3, SameBenchmark DEF ErrInv, Terminator, FirstSelect, VisitBlock,
                             NumberGoal, CallsDone, GoalsDone
<1>4. CASE BranchesDone
  BY <1>4, SameBenchmark, Stages DEF ErrInv, BranchesDone
<1>. QED  BY <1>1, <1>2, <1>3, <1>4 DEF Next

-----------------------------------------------------------------------------
LEMMA PlaceDecision ==
  ASSUME IInv, NEW site \in Decisions, site \notin Placed, instrumentCondBr(site)
  PROVE  Numbers(location', Placed \cup {site}, 1..condBrCounter')
<1>1. condBrCounter \in Nat  BY DEF IInv, TypeOK
<1>2. Numbers(location, Placed, 1..((condBrCounter + 1) - 1))
  BY <1>1 DEF IInv, BranchInv
<1>3. 1 \in Nat /\ condBrCounter + 1 \in Nat /\ 1 <= condBrCounter + 1
  BY <1>1
<1>4. location' = [s \in DOMAIN location \cup {site} |->
                     IF s = site THEN condBrCounter + 1 ELSE location[s]]
  BY DEF instrumentCondBr, FreshLocation
<1>5. Numbers(location', Placed \cup {site}, 1..(condBrCounter + 1))
  BY <1>2, <1>3, <1>4, OneMore
<1>. QED  BY <1>5 DEF instrumentCondBr

LEMMA BranchKeeps ==
  ASSUME IInv, Next, UNCHANGED input
  PROVE  BranchInv'
<1>. USE DEF Start, NextBlock, Stay
<1>0. TypeOK /\ BranchInv /\ condBrCounter \in Nat /\ at \in Nat
      /\ Blocks = 1..Len(module.blocks) /\ Len(module.blocks) \in Nat
  <2>1. TypeOK /\ BranchInv  BY DEF IInv
  <2>2. condBrCounter \in Nat  BY <2>1 DEF TypeOK
  <2>. QED  BY <2>1, <2>2, BlockType, AtType
<1>1. Decisions' = Decisions /\ options' = options /\ Blocks' = Blocks
  BY SameBenchmark
<1>2. "branch" # "select"  OBVIOUS
<1>3. CASE RenameFunctions
  <2>1. Placed = {}  BY <1>3 DEF RenameFunctions, Placed
  <2>2. condBrCounter = 0
    BY <1>0, <2>1 DEF BranchInv, Numbers
  <2>3. cond_br_count = 0  BY <1>0, <1>3 DEF RenameFunctions, BranchInv
  <2>4. Numbers(location, {}, 1..0)  BY <1>0, <2>1, <2>2 DEF BranchInv
  <2>5. Placed' = {}
    BY <1>0, <1>1, <1>3, Stages, DecisionType DEF RenameFunctions, Placed
  <2>6. pc' \in {"br", "err", "goals", "print"} /\ (pc' = "br" => "br" \in options)
    BY <1>3, Stages DEF RenameFunctions
  <2>. QED
    BY <1>1, <1>3, <2>2, <2>3, <2>4, <2>5, <2>6
    DEF RenameFunctions, branch, BranchInv
<1>4. CASE Terminator
  <2>1. pc = "br" /\ at \in Blocks /\ pc' = "select" /\ at' = at
    BY <1>4 DEF Terminator
  <2>2. <<at, "branch">> \in Decisions <=> block(at).conditional
    BY <1>0, <2>1, DecisionType
  <2>3. <<at, "branch">> \notin Placed  BY <1>0, <2>1 DEF Placed
  <2>4. Placed' = Placed \cup ({<<at, "branch">>} \cap Decisions)
    BY <1>0, <1>1, <2>1 DEF Placed
  <2>5. CASE block(at).conditional
    <3>1. instrumentCondBr(<<at, "branch">>)  BY <1>4, <2>5 DEF Terminator
    <3>2. Numbers(location', Placed', 1..condBrCounter')
      BY <2>2, <2>3, <2>4, <2>5, <3>1, PlaceDecision
    <3>. QED
      BY <1>0, <1>1, <2>1, <3>1, <3>2 DEF instrumentCondBr, BranchInv
  <2>6. CASE ~block(at).conditional
    <3>1. Placed' = Placed  BY <2>2, <2>4, <2>6
    <3>2. UNCHANGED branch  BY <1>4, <2>6 DEF Terminator
    <3>. QED  BY <1>0, <1>1, <2>1, <3>1, <3>2 DEF branch, BranchInv
  <2>. QED  BY <2>5, <2>6
<1>5. CASE FirstSelect
  <2>1. pc = "select" /\ at \in Blocks /\ pc' = "br" /\ at' = at + 1
    BY <1>0, <1>5 DEF FirstSelect, BranchInv
  <2>2. <<at, "select">> \in Decisions <=> block(at).selects > 0
    BY <1>0, <2>1, DecisionType
  <2>3. <<at, "select">> \notin Placed  BY <1>0, <1>2, <2>1 DEF Placed
  <2>4. Placed' = Placed \cup ({<<at, "select">>} \cap Decisions)
    <3>1. \A s \in Decisions :
            /\ s[1] \in Nat
            /\ s[1] < at + 1 <=> s[1] < at \/ s[1] = at
            /\ s[1] = at <=> s = <<at, "branch">> \/ s = <<at, "select">>
      BY <1>0, DecisionType
    <3>. QED  BY <1>1, <2>1, <3>1 DEF Placed
  <2>5. CASE block(at).selects > 0
    <3>1. instrumentCondBr(<<at, "select">>)  BY <1>5, <2>5 DEF FirstSelect
    <3>2. Numbers(location', Placed', 1..condBrCounter')
      BY <2>2, <2>3, <2>4, <2>5, <3>1, PlaceDecision
    <3>. QED
      BY <1>0, <1>1, <2>1, <3>1, <3>2 DEF instrumentCondBr, BranchInv
  <2>6. CASE ~(block(at).selects > 0)
    <3>1. Placed' = Placed  BY <2>2, <2>4, <2>6
    <3>2. UNCHANGED branch  BY <1>5, <2>6 DEF FirstSelect
    <3>. QED  BY <1>0, <1>1, <2>1, <3>1, <3>2 DEF branch, BranchInv
  <2>. QED  BY <2>5, <2>6
<1>6. CASE BranchesDone
  <2>1. pc = "br" /\ at \notin Blocks /\ pc' \in {"err", "goals", "print"}
    BY <1>6, Stages DEF BranchesDone
  <2>2. \A s \in Decisions : s[1] < at
    <3>1. at = Len(module.blocks) + 1  BY <1>0, <2>1, AtType
    <3>. QED  BY <1>0, <3>1, DecisionType
  <2>3. "br" \in options  BY <1>0, <2>1 DEF BranchInv
  <2>4. Placed = Decisions /\ Placed' = Decisions
    BY <1>1, <2>1, <2>2, <2>3 DEF Placed
  <2>. QED  BY <1>0, <1>6, <2>1, <2>4 DEF BranchesDone, BranchInv
<1>7. CASE InstrumentErr \/ VisitBlock \/ NumberGoal \/ CallsDone \/ GoalsDone
  <2>1. /\ UNCHANGED branch
        /\ pc \in {"err", "goals", "calls"} /\ pc' \in {"goals", "calls", "print"}
    BY <1>7, Stages DEF InstrumentErr, VisitBlock, NumberGoal, CallsDone, GoalsDone
  <2>2. Placed' = Placed  BY <1>1, <2>1 DEF Placed
  <2>. QED  BY <1>0, <1>1, <2>1, <2>2 DEF BranchInv, branch
<1>. QED  BY <1>3, <1>4, <1>5, <1>6, <1>7 DEF Next

-----------------------------------------------------------------------------
LEMMA GoalKeeps ==
  ASSUME IInv, Next, UNCHANGED input
  PROVE  GoalInv'
<1>. USE DEF Start, NextBlock, Stay
<1>0. TypeOK /\ GoalInv /\ goalCounter \in Nat /\ at \in Nat /\ call \in Nat
      /\ Blocks = 1..Len(module.blocks) /\ Len(module.blocks) \in Nat
  <2>1. TypeOK /\ GoalInv  BY DEF IInv
  <2>2. goalCounter \in Nat /\ call \in Nat  BY <2>1 DEF TypeOK
  <2>. QED  BY <2>1, <2>2, BlockType, AtType
<1>1. /\ options' = options /\ Blocks' = Blocks /\ Live' = Live /\ Dead' = Dead
      /\ \A b : block(b)' = block(b) /\ Skipped(b)' = Skipped(b)
  BY SameBenchmark
<1>2. /\ \A b \in Dead : b \in Blocks /\ b \in Nat /\ Skipped(b)
      /\ \A s \in Live : /\ s[1] \in Blocks /\ s[1] \in Nat /\ s[2] \in Nat
                         /\ s[2] < block(s[1]).calls /\ ~Skipped(s[1])
                         /\ s = <<s[1], s[2]>>
  BY <1>0, CallType DEF Dead, Live, Skipped
<1>3. CASE RenameFunctions \/ Terminator \/ FirstSelect \/ BranchesDone \/ InstrumentErr
  <2>1. /\ UNCHANGED goals /\ pc \in {"rename", "br", "select", "err"}
        /\ pc' \in {"br", "select", "err", "goals", "print"}
        /\ pc' = "goals" => at' = 1 /\ call' = 0 /\ "goals" \in options
        /\ pc' = "print" => "goals" \notin options
    BY <1>3, Stages DEF RenameFunctions, Terminator, FirstSelect, BranchesDone,
                        InstrumentErr
  <2>2. Numbered = {}  BY <2>1 DEF Numbered
  <2>3. \A b \in Blocks : ~(b < 1)  BY <1>0
  <2>4. Numbered' = {}
    BY <1>1, <1>2, <2>1, <2>3 DEF Numbered
  <2>5. to_remove = {} /\ removed = {}  BY <1>0, <2>1 DEF GoalInv
  <2>6. { b \in Dead : b < 1 } = {}  BY <1>2, <2>3
  <2>. QED
    BY <1>0, <1>1, <2>1, <2>2, <2>4, <2>5, <2>6 DEF GoalInv, goals
<1>4. CASE VisitBlock
  <2>1. /\ pc = "goals" /\ at \in Blocks /\ "goals" \in options
        /\ UNCHANGED <<goal, goalCounter, goal_count, removed>>
    BY <1>0, <1>4 DEF VisitBlock, GoalInv
  <2>2. to_remove' = { b \in Dead : b < at + 1 }
    <3>1. \A b \in Dead : b < at + 1 <=> b < at \/ b = at  BY <1>0, <1>2
    <3>2. to_remove = { b \in Dead : b < at }  BY <1>0, <2>1 DEF GoalInv
    <3>. QED  BY <1>4, <2>1, <3>1, <3>2 DEF VisitBlock, Dead
  <2>3. CASE Skipped(at)
    <3>1. pc' = "goals" /\ at' = at + 1 /\ call' = 0
      BY <1>4, <2>3 DEF VisitBlock
    <3>2. \A s \in Live : s[1] < at + 1 <=> s[1] < at  BY <1>0, <1>2, <2>3
    <3>3. Numbered' = Numbered  BY <1>1, <2>1, <3>1, <3>2 DEF Numbered
    <3>. QED  BY <1>0, <1>1, <2>1, <2>2, <3>1, <3>3 DEF GoalInv
  <2>4. CASE ~Skipped(at)
    <3>1. pc' = "calls" /\ at' = at /\ call' = 0
      BY <1>0, <1>4, <2>1, <2>4 DEF VisitBlock, GoalInv
    <3>2. to_remove' = { b \in Dead : b < at }
      <4>1. \A b \in Dead : b < at + 1 <=> b < at  BY <1>0, <1>2, <2>4
      <4>. QED  BY <2>2, <4>1
    <3>3. \A s \in Live : ~(s[2] < 0)  BY <1>2
    <3>4. Numbered' = Numbered  BY <1>1, <2>1, <3>1, <3>3 DEF Numbered
    <3>5. 0 <= block(at).calls  BY <1>0, <2>1, BlockType
    <3>. QED
      BY <1>0, <1>1, <2>1, <2>4, <3>1, <3>2, <3>4, <3>5 DEF GoalInv
  <2>. QED  BY <2>3, <2>4
<1>5. CASE NumberGoal
  <2>1. /\ pc = "calls" /\ pc' = "calls" /\ at' = at /\ call' = call + 1
        /\ at \in Blocks /\ ~Skipped(at) /\ call < block(at).calls
        /\ goalCounter' = goalCounter + 1
        /\ UNCHANGED <<to_remove, removed, goal_count>>
    BY <1>0, <1>5 DEF NumberGoal, GoalInv
  <2>2. <<at, call>> \in Live
    BY <1>0, <2>1, CallType DEF Live
  <2>3. <<at, call>> \notin Numbered  BY <1>0, <2>1 DEF Numbered
  <2>4. Numbered' = Numbered \cup {<<at, call>>}
    <3>1. \A s \in Live : s[1] = at =>
            (s[2] < call + 1 <=> s[2] < call \/ s = <<at, call>>)
      BY <1>0, <1>2
    <3>2. \A s \in Live : s = <<at, call>> => s[1] = at  OBVIOUS
    <3>. QED  BY <1>1, <2>1, <2>2, <3>1, <3>2 DEF Numbered
  <2>5. Numbers(goal', Numbered', 0..(goalCounter' - 1))
    <3>1. 0 \in Nat /\ 0 <= goalCounter /\ goalCounter + 1 - 1 = goalCounter
      BY <1>0
    <3>2. Numbers(goal, Numbered, 0..(goalCounter - 1))  BY <1>0 DEF GoalInv
    <3>3. goal' = [s \in DOMAIN goal \cup {<<at, call>>} |->
                     IF s = <<at, call>> THEN goalCounter ELSE goal[s]]
      BY <1>5 DEF NumberGoal, FreshGoal
    <3>4. Numbers(goal', Numbered \cup {<<at, call>>}, 0..goalCounter)
      BY <1>0, <2>3, <3>1, <3>2, <3>3, OneMore
    <3>5. goalCounter' - 1 = goalCounter  BY <1>0, <2>1
    <3>. QED  BY <2>4, <3>4, <3>5
  <2>6. call + 1 <= block(at).calls  BY <1>0, <2>1, BlockType
  <2>. QED  BY <1>0, <1>1, <2>1, <2>5, <2>6 DEF GoalInv
<1>6. CASE CallsDone
  <2>1. /\ pc = "calls" /\ pc' = "goals" /\ at' = at + 1 /\ call' = 0
        /\ at \in Blocks /\ ~Skipped(at) /\ call = block(at).calls
        /\ UNCHANGED goals
    <3>1. at \in Blocks /\ call <= block(at).calls /\ call >= block(at).calls
      BY <1>0, <1>6 DEF CallsDone, GoalInv
    <3>2. call = block(at).calls  BY <1>0, <3>1, BlockType
    <3>. QED  BY <1>0, <1>6, <3>1, <3>2 DEF CallsDone, GoalInv
  <2>2. Numbered' = Numbered
    <3>1. \A s \in Live : s[1] < at + 1 <=> s[1] < at \/ s[1] = at
      BY <1>0, <1>2
    <3>2. \A s \in Live : s[1] = at => s[2] < call  BY <1>2, <2>1
    <3>. QED  BY <1>1, <2>1, <3>1, <3>2 DEF Numbered
  <2>3. \A b \in Dead : b < at + 1 <=> b < at  BY <1>0, <1>2, <2>1
  <2>4. to_remove = { b \in Dead : b < at }  BY <1>0, <2>1 DEF GoalInv
  <2>5. to_remove' = { b \in Dead' : b < at' }
    BY <1>1, <2>1, <2>3, <2>4 DEF goals
  <2>. QED  BY <1>0, <1>1, <2>1, <2>2, <2>5 DEF GoalInv, goals
<1>7. CASE GoalsDone
  <2>1. /\ pc = "goals" /\ pc' = "print" /\ at \notin Blocks
        /\ "goals" \in options /\ goal_count' = goalCounter
        /\ removed' = to_remove /\ UNCHANGED <<goal, goalCounter>>
    BY <1>0, <1>7 DEF GoalsDone, GoalInv
  <2>2. at = Len(module.blocks) + 1  BY <1>0, <2>1, AtType
  <2>3. \A b \in Blocks : b < at  BY <1>0, <2>2
  <2>4. removed' = Dead  BY <1>0, <1>2, <2>1, <2>3 DEF GoalInv
  <2>5. Numbered = Live /\ Numbered' = Live
    BY <1>1, <1>2, <2>1, <2>3 DEF Numbered
  <2>. QED  BY <1>0, <1>1, <2>1, <2>4, <2>5 DEF GoalInv
<1>. QED  BY <1>3, <1>4, <1>5, <1>6, <1>7 DEF Next

-----------------------------------------------------------------------------
LEMMA StepKeeps == IInv /\ [Next]_vars => IInv'
<1>. SUFFICES ASSUME IInv, [Next]_vars PROVE IInv'  OBVIOUS
<1>1. CASE Next
  <2>1. UNCHANGED input
    BY <1>1 DEF Next, RenameFunctions, Terminator, FirstSelect, BranchesDone,
         InstrumentErr, VisitBlock, NumberGoal, CallsDone, GoalsDone
  <2>. QED
    BY <1>1, <2>1, TypeKeeps, BranchKeeps, GoalKeeps, ErrKeeps DEF IInv
<1>2. CASE UNCHANGED vars
  <2>1. UNCHANGED input  BY <1>2 DEF vars
  <2>2. UNCHANGED <<pc, at, call, name, condBrCounter, location, cond_br_count,
                    goalCounter, goal, goal_count, to_remove, removed, probed>>
    BY <1>2 DEF vars, walk, branch, goals
  <2>3. TypeOK'  BY <2>1, <2>2, SameBenchmark DEF IInv, TypeOK
  <2>4. Placed' = Placed /\ Numbered' = Numbered
    BY <2>1, <2>2, SameBenchmark DEF Placed, Numbered
  <2>5. BranchInv'  BY <2>1, <2>2, <2>4, SameBenchmark DEF IInv, BranchInv
  <2>6. GoalInv'  BY <2>1, <2>2, <2>4, SameBenchmark DEF IInv, GoalInv
  <2>7. ErrInv'  BY <2>1, <2>2, SameBenchmark DEF IInv, ErrInv
  <2>. QED  BY <2>3, <2>5, <2>6, <2>7 DEF IInv
<1>. QED  BY <1>1, <1>2

(* The inductive invariant holds for any benchmark and any options.        *)
THEOREM Invariance == Spec => []IInv
BY InitHolds, StepKeeps, PTL DEF Spec

(* The instrumenter's variables keep their types.                          *)
THEOREM TypeCorrect == Spec => []TypeOK
<1>1. IInv => TypeOK  BY DEF IInv
<1>. QED  BY <1>1, Invariance, PTL

(* For any benchmark, the numbers of decisions are those from 1 to the     *)
(* count the target will announce, each given once                         *)
(* (llvm_instrumenter.cpp:101-124).                                        *)
THEOREM DecisionsAreNumbered == Spec => []BranchIdsAreDense
<1>1. ASSUME IInv PROVE BranchIdsAreDense
  <2>. SUFFICES ASSUME Printed, "br" \in options
                PROVE  Numbers(location, Decisions, 1..cond_br_count)
    BY DEF BranchIdsAreDense
  <2>1. Placed = Decisions  BY DEF Placed, Printed
  <2>. QED  BY <1>1, <2>1 DEF IInv, BranchInv, Printed
<1>. QED  BY <1>1, Invariance, PTL

(* For any benchmark, the numbers of the goals left outside entry blocks   *)
(* are those below the announced count, each given once                    *)
(* (llvm_instrumenter.cpp:126-161).                                        *)
THEOREM GoalsAreNumbered == Spec => []GoalIdsAreDense
<1>1. ASSUME IInv PROVE GoalIdsAreDense
  <2>. SUFFICES ASSUME Printed, "goals" \in options
                PROVE  Numbers(goal,
                         { site \in GoalCalls :
                             site[1] \notin removed /\ ~block(site[1]).entry },
                         0..(goal_count - 1))
    BY DEF GoalIdsAreDense
  <2>1. Numbered = Live  BY DEF Numbered, Printed
  <2>2. removed = Dead /\ goal_count = goalCounter
        /\ Numbers(goal, Numbered, 0..(goalCounter - 1))
    BY <1>1 DEF IInv, GoalInv, Printed
  <2>3. Live = { site \in GoalCalls :
                   site[1] \notin removed /\ ~block(site[1]).entry }
    BY <1>1, <2>2, CallType DEF IInv, Live, Dead, Skipped
  <2>. QED  BY <2>1, <2>2, <2>3
<1>. QED  BY <1>1, Invariance, PTL

(* For any benchmark, a block that is deleted cannot be reached: all other *)
(* blocks are a set with the entries in it that no branch leaves           *)
(* (llvm_instrumenter.cpp:135-138, 158-160).                               *)
THEOREM OnlyDeadBlocksGo == Spec => []ReachableIsKept
<1>1. ASSUME IInv, NEW b \in removed PROVE ~Reached(b)
  <2>1. b \in Dead  BY <1>1 DEF IInv, GoalInv
  <2>2. b \in Blocks /\ ~block(b).entry /\ pred_empty(b)  BY <2>1 DEF Dead
  <2>. DEFINE S == Blocks \ {b}
  <2>3. \A e \in Blocks : block(e).entry => e \in S  BY <2>2
  <2>4. \A s \in S : block(s).succs \subseteq S
    BY <1>1, <2>2, BlockType DEF IInv, pred_empty
  <2>5. S \in SUBSET Blocks /\ b \notin S  OBVIOUS
  <2>. QED  BY <2>3, <2>4, <2>5 DEF Reached
<1>2. IInv => ReachableIsKept  BY <1>1 DEF ReachableIsKept
<1>. QED  BY <1>2, Invariance, PTL

(* For any benchmark that defines the error function, under any name but   *)
(* main, it is probed, and no other function is                            *)
(* (llvm_instrumenter.cpp:30-40, 90-99).                                   *)
THEOREM ErrorFunctionIsFound == Spec => []ErrorIsProbed
<1>1. IInv => ErrorIsProbed  BY DEF IInv, ErrInv, ErrorIsProbed, Printed
<1>. QED  BY <1>1, Invariance, PTL
=============================================================================
