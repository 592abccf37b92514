--------------------------- MODULE TxBlocksProofs ----------------------------
(***************************************************************************)
(* For blocks with any sections nested to any depth: control is where the  *)
(* thread's stage says, the nest of blocks implements TxNest, and a block  *)
(* runs its sections in their order.                                       *)
(***************************************************************************)
EXTENDS TxBlocks, SequenceTheorems, TLAPS

Stages == {"NONE", "WORK", "ONABORT", "ONCOMMIT", "FINALLY"}
Places == {"loop", "default", "WORK"} \cup Sections

Block ==
  [sections : SUBSET Sections, at : Places, ran : Seq(Stages)]

TypeOK ==
  /\ stage \in Stages /\ failed \in BOOLEAN
  /\ blocks \in Seq(Block)
  /\ outcome \in {"none", "committed", "aborted"} /\ begun \in Nat

(* Outside all blocks nothing is under way.  The rest is inductive as it stands. *)
BInv ==
  /\ TypeOK
  /\ ControlFollowsStage
  /\ blocks = <<>> => stage = "NONE" /\ ~failed
-----------------------------------------------------------------------------
(* What the steps do to the blocks. *)

(* A jump of the innermost block leaves all other blocks as they are. *)
LEMMA Jump ==
  ASSUME TypeOK, blocks # <<>>, NEW where \in Places, NEW r \in Seq(Stages)
  PROVE  LET jumped == [MoveTo(where) EXCEPT ![Len(blocks)].ran = r]
         IN  /\ MoveTo(where) \in Seq(Block) /\ jumped \in Seq(Block)
             /\ Len(MoveTo(where)) = Len(blocks) /\ Len(jumped) = Len(blocks)
             /\ \A i \in 1 .. Len(blocks) - 1 :
                  MoveTo(where)[i] = blocks[i] /\ jumped[i] = blocks[i]
             /\ MoveTo(where)[Len(blocks)].at = where
             /\ jumped[Len(blocks)].at = where
<1> DEFINE n == Len(blocks)
           moved == MoveTo(where)
           jumped == [moved EXCEPT ![n].ran = r]
<1>1. n \in Nat \ {0} /\ blocks \in [1 .. n -> Block]
  BY DEF TypeOK
<1>2. blocks[n] \in Block
  BY <1>1
<1>3. [blocks[n] EXCEPT !.at = where] \in Block
  BY <1>2 DEF Block
<1>4. moved \in [1 .. n -> Block] /\ moved[n].at = where
      /\ \A i \in 1 .. n - 1 : moved[i] = blocks[i]
  <2>1. moved = [blocks EXCEPT ![n] = [blocks[n] EXCEPT !.at = where]]
    BY DEF MoveTo
  <2>2. [blocks[n] EXCEPT !.at = where].at = where
    BY <1>2 DEF Block
  <2> HIDE DEF moved
  <2> QED
    BY <1>1, <1>3, <2>1, <2>2
<1>5. [moved[n] EXCEPT !.ran = r] \in Block /\ [moved[n] EXCEPT !.ran = r].at = where
  BY <1>1, <1>4 DEF Block
<1>6. jumped \in [1 .. n -> Block] /\ jumped[n].at = where
      /\ \A i \in 1 .. n - 1 : jumped[i] = blocks[i]
  BY <1>1, <1>4, <1>5
<1>7. moved \in Seq(Block) /\ Len(moved) = n /\ jumped \in Seq(Block) /\ Len(jumped) = n
  BY <1>1, <1>4, <1>6
<1> QED
  BY <1>4, <1>6, <1>7

(* The innermost block ends; the enclosing one goes on, or jumps to its loop. *)
LEMMA Ending ==
  ASSUME TypeOK, blocks # <<>>
  PROVE  /\ Front(blocks) \in Seq(Block) /\ Len(Front(blocks)) = Len(blocks) - 1
         /\ \A i \in 1 .. Len(blocks) - 1 : Front(blocks)[i] = blocks[i]
         /\ Len(blocks) > 1 =>
              LET jumped == [Front(blocks) EXCEPT ![Len(blocks) - 1].at = "loop"]
              IN  /\ jumped \in Seq(Block) /\ Len(jumped) = Len(blocks) - 1
                  /\ \A i \in 1 .. Len(blocks) - 2 : jumped[i] = blocks[i]
                  /\ jumped[Len(blocks) - 1].at = "loop"
<1> DEFINE n == Len(blocks)
           rest == Front(blocks)
           jumped == [rest EXCEPT ![n - 1].at = "loop"]
<1>1. n \in Nat \ {0} /\ blocks \in [1 .. n -> Block]
  BY DEF TypeOK
<1>2. rest \in Seq(Block) /\ Len(rest) = n - 1 /\ \A i \in 1 .. n - 1 : rest[i] = blocks[i]
  BY <1>1, SubSeqProperties DEF Front, TypeOK
<1>3. ASSUME n > 1
      PROVE  /\ jumped \in Seq(Block) /\ Len(jumped) = n - 1
             /\ \A i \in 1 .. n - 2 : jumped[i] = blocks[i]
             /\ jumped[n - 1].at = "loop"
  <2>1. rest \in [1 .. n - 1 -> Block] /\ n - 1 \in 1 .. n - 1
    BY <1>1, <1>2, <1>3
  <2>2. [rest[n - 1] EXCEPT !.at = "loop"] \in Block
        /\ [rest[n - 1] EXCEPT !.at = "loop"].at = "loop"
    BY <2>1 DEF Block, Places
  <2>3. jumped = [rest EXCEPT ![n - 1] = [rest[n - 1] EXCEPT !.at = "loop"]]
    OBVIOUS
  <2> HIDE DEF jumped, rest
  <2>4. jumped \in [1 .. n - 1 -> Block] /\ jumped[n - 1].at = "loop"
        /\ \A i \in 1 .. n - 2 : jumped[i] = rest[i]
    BY <1>1, <1>3, <2>1, <2>2, <2>3
  <2>5. jumped \in Seq(Block) /\ Len(jumped) = n - 1
    <3>1. n - 1 \in Nat /\ DOMAIN jumped = 1 .. n - 1
      BY <1>1, <2>4
    <3> QED
      BY <2>4, <3>1
  <2> QED
    BY <1>1, <1>2, <1>3, <2>4, <2>5
<1> QED
  BY <1>2, <1>3
-----------------------------------------------------------------------------
(* No block and no transaction: the invariant holds at the start. *)
LEMMA InitBInv == Init => BInv
<1> SUFFICES ASSUME Init
             PROVE  BInv
  OBVIOUS
<1>1. TypeOK /\ Len(blocks) = 0
  <2>1. <<>> \in Seq(Block) /\ Len(<<>>) = 0
    OBVIOUS
  <2> QED
    BY <2>1 DEF Init, TypeOK, Stages
<1>2. ControlFollowsStage
  BY <1>1 DEF Init, TypeOK, ControlFollowsStage
<1> QED
  BY <1>1, <1>2 DEF Init, BInv

(* A new block enters WORK, or pmemobj_tx_begin fails and the transaction aborts. *)
LEMMA BeginBInv == BInv /\ TX_BEGIN => BInv'
<1> SUFFICES ASSUME BInv, TX_BEGIN
             PROVE  BInv'
  OBVIOUS
<1> DEFINE n == Len(blocks)
<1>1. PICK s \in SectionSets : blocks' = Append(blocks, NewBlock(s))
  BY DEF TX_BEGIN
<1>2. NewBlock(s) \in Block /\ NewBlock(s).at = "loop"
  BY BlocksAssumption DEF NewBlock, Block, Places
<1>3. /\ blocks' \in Seq(Block) /\ n \in Nat /\ Len(blocks') = n + 1
      /\ blocks'[n + 1] = NewBlock(s)
      /\ \A i \in 1 .. n : blocks'[i] = blocks[i]
  BY <1>1, <1>2 DEF BInv, TypeOK
<1>4. TypeOK'
  <2>1. begun' \in Nat
    BY DEF BInv, TypeOK, TX_BEGIN
  <2>2. stage' \in Stages /\ failed' \in BOOLEAN
        /\ outcome' \in {"none", "committed", "aborted"}
    BY DEF BInv, TypeOK, TX_BEGIN, AbortTx, Stages
  <2> QED
    BY <1>3, <2>1, <2>2 DEF TypeOK
<1>5. \A i \in 1 .. n : blocks[i].at = "WORK"
  BY <1>3 DEF BInv, TypeOK, ControlFollowsStage, TX_BEGIN, InnerAt, Inner, Last
<1>6. (failed => ~InnerAt("WORK") /\ stage \notin {"WORK", "ONCOMMIT"})'
  <2>1. ~InnerAt("WORK")'
    BY <1>2, <1>3 DEF InnerAt, Inner, Last
  <2>2. ~failed
    BY DEF BInv, TX_BEGIN, ControlFollowsStage
  <2> QED
    BY <2>1, <2>2 DEF TX_BEGIN, AbortTx
<1>7. ControlFollowsStage'
  BY <1>2, <1>3, <1>5, <1>6 DEF ControlFollowsStage, Sections
<1> QED
  BY <1>3, <1>4, <1>7 DEF BInv

(* The switch takes the section of the stage and leaves the stage alone. *)
LEMMA SwitchBInv == BInv /\ Switch => BInv'
<1> SUFFICES ASSUME BInv, Switch
             PROVE  BInv'
  OBVIOUS
<1> DEFINE n == Len(blocks)
           r == IF Case(stage) = "default" THEN Inner.ran ELSE Append(Inner.ran, stage)
<1>1. blocks # <<>> /\ n \in Nat \ {0} /\ Inner \in Block
  BY DEF Switch, InnerAt, Inner, Last, BInv, TypeOK
<1>2. Case(stage) \in Places
  BY DEF Switch, Case, Places, Sections, Stages, BInv, TypeOK
<1>3. r \in Seq(Stages)
  BY <1>1 DEF BInv, TypeOK, Block
<1>4. MoveTo(Case(stage))[n].ran = Inner.ran
  BY <1>1 DEF MoveTo, Inner, Last, BInv, TypeOK, Block
<1>5. blocks' = [MoveTo(Case(stage)) EXCEPT ![n].ran = r]
  BY <1>4 DEF Switch
<1>6. /\ blocks' \in Seq(Block) /\ Len(blocks') = n
      /\ \A i \in 1 .. n - 1 : blocks'[i] = blocks[i]
      /\ blocks'[n].at = Case(stage)
  <2> HIDE DEF r
  <2> QED
    BY <1>1, <1>2, <1>3, <1>5, Jump DEF BInv
<1>7. TypeOK'
  BY <1>6 DEF BInv, TypeOK, Switch
<1>8. InnerAt("WORK")' => stage = "WORK"
  BY <1>1, <1>6 DEF InnerAt, Inner, Last, Case
<1>9. ControlFollowsStage'
  BY <1>1, <1>6, <1>8 DEF BInv, ControlFollowsStage, Switch, Case, Sections
<1> QED
  BY <1>1, <1>6, <1>7, <1>9 DEF BInv

(* The innermost block goes back to its loop. *)
LEMMA ToLoopBInv ==
  ASSUME BInv, blocks # <<>>, blocks' = MoveTo("loop"),
         stage' \in Stages, failed' \in BOOLEAN,
         outcome' \in {"none", "committed", "aborted"}, UNCHANGED begun,
         failed' => stage' \notin {"WORK", "ONCOMMIT"}
  PROVE  BInv'
<1> DEFINE n == Len(blocks)
<1>1. n \in Nat \ {0} /\ "loop" \in Places /\ <<>> \in Seq(Stages)
  BY DEF BInv, TypeOK, Places
<1>2. /\ blocks' \in Seq(Block) /\ Len(blocks') = n
      /\ \A i \in 1 .. n - 1 : blocks'[i] = blocks[i]
      /\ blocks'[n].at = "loop"
  BY <1>1, Jump DEF BInv
<1>3. TypeOK'
  BY <1>2 DEF BInv, TypeOK
<1>4. ~InnerAt("WORK")'
  BY <1>1, <1>2 DEF InnerAt, Inner, Last
<1>5. ControlFollowsStage'
  BY <1>1, <1>2, <1>4 DEF BInv, ControlFollowsStage, Sections
<1> QED
  BY <1>1, <1>2, <1>3, <1>5 DEF BInv

(* pmemobj_tx_process never leads to WORK, and to ONCOMMIT only from there. *)
LEMMA ProcessStage ==
  ASSUME BInv, pmemobj_tx_process
  PROVE  /\ stage' \in Stages /\ failed' \in BOOLEAN
         /\ outcome' \in {"none", "committed", "aborted"}
         /\ failed' => stage' \notin {"WORK", "ONCOMMIT"}
  BY DEF BInv, TypeOK, Stages, ControlFollowsStage, pmemobj_tx_process

(* The end of a block, alone or nested. *)
LEMMA EndBInv == BInv /\ TX_END => BInv'
<1> SUFFICES ASSUME BInv, TX_END
             PROVE  BInv'
  OBVIOUS
<1> DEFINE n == Len(blocks)
<1>1. blocks # <<>> /\ n \in Nat \ {0}
  BY DEF TX_END, InnerAt, BInv, TypeOK
<1>2. \A i \in 1 .. n - 1 : blocks[i].at = "WORK"
  BY <1>1 DEF BInv, TypeOK, ControlFollowsStage
<1>3. CASE n = 1
  <2>1. blocks' = Front(blocks) /\ Len(Front(blocks)) = 0 /\ Front(blocks) \in Seq(Block)
    BY <1>1, <1>3, Ending DEF TX_END, Resumed, Outermost, BInv
  <2>2. blocks' = <<>> /\ stage' = "NONE" /\ failed' = FALSE
        /\ UNCHANGED <<outcome, begun>>
    BY <1>3, <2>1 DEF TX_END, Outermost
  <2>3. TypeOK'
    BY <2>1, <2>2 DEF BInv, TypeOK, Stages
  <2>4. ControlFollowsStage'
    BY <2>2 DEF ControlFollowsStage
  <2> QED
    BY <2>2, <2>3, <2>4 DEF BInv
<1>4. CASE n # 1 /\ failed
  <2>1. /\ blocks' \in Seq(Block) /\ Len(blocks') = n - 1
        /\ \A i \in 1 .. n - 2 : blocks'[i] = blocks[i]
        /\ blocks'[n - 1].at = "loop"
    BY <1>1, <1>4, Ending DEF TX_END, Resumed, Outermost, BInv
  <2>2. stage' = "ONABORT" /\ failed' = TRUE /\ begun' = begun
        /\ outcome' \in {"none", "committed", "aborted"}
    BY <1>4 DEF TX_END, Outermost, AbortTx, BInv, TypeOK
  <2>3. TypeOK'
    BY <2>1, <2>2 DEF BInv, TypeOK, Stages
  <2>4. ~InnerAt("WORK")'
    BY <1>1, <1>4, <2>1 DEF InnerAt, Inner, Last
  <2>5. ControlFollowsStage'
    BY <1>1, <1>2, <1>4, <2>1, <2>2, <2>4 DEF ControlFollowsStage, Sections
  <2> QED
    BY <1>1, <1>4, <2>1, <2>3, <2>5 DEF BInv
<1>5. CASE n # 1 /\ ~failed
  <2>1. /\ blocks' \in Seq(Block) /\ Len(blocks') = n - 1
        /\ \A i \in 1 .. n - 1 : blocks'[i] = blocks[i]
    BY <1>1, <1>5, Ending DEF TX_END, Resumed, Outermost, BInv
  <2>2. stage' = "WORK" /\ failed' = FALSE /\ UNCHANGED <<outcome, begun>>
    BY <1>5 DEF TX_END, Outermost, BInv, TypeOK
  <2>3. TypeOK'
    BY <2>1, <2>2 DEF BInv, TypeOK, Stages
  <2>4. ControlFollowsStage'
    BY <1>1, <1>2, <1>5, <2>1, <2>2 DEF ControlFollowsStage, Sections
  <2> QED
    BY <1>1, <1>5, <2>1, <2>3, <2>4 DEF BInv
<1> QED
  BY <1>3, <1>4, <1>5

(* Every step keeps the invariant. *)
LEMMA NextBInv == BInv /\ [Next]_vars => BInv'
<1> SUFFICES ASSUME BInv, [Next]_vars
             PROVE  BInv'
  OBVIOUS
<1>1. CASE TX_BEGIN
  BY <1>1, BeginBInv
<1>2. CASE Switch
  BY <1>2, SwitchBInv
<1>3. CASE EndOfSection
  <2>1. blocks # <<>> /\ blocks' = MoveTo("loop") /\ pmemobj_tx_process /\ begun' = begun
    BY <1>3 DEF EndOfSection, InnerAt, AfterSection
  <2> QED
    BY <2>1, ToLoopBInv, ProcessStage
<1>4. CASE Default
  <2>1. blocks # <<>> /\ blocks' = MoveTo("loop") /\ pmemobj_tx_process /\ begun' = begun
    BY <1>4 DEF Default, InnerAt, ProcessByDefault
  <2> QED
    BY <2>1, ToLoopBInv, ProcessStage
<1>5. CASE pmemobj_tx_abort
  <2>1. blocks # <<>> /\ blocks' = MoveTo("loop") /\ begun' = begun
        /\ stage' = "ONABORT" /\ failed' = TRUE
        /\ outcome' \in {"none", "committed", "aborted"}
    BY <1>5 DEF pmemobj_tx_abort, InnerAt, AbortTx, BInv, TypeOK
  <2> QED
    BY <2>1, ToLoopBInv DEF Stages
<1>6. CASE TX_END
  BY <1>6, EndBInv
<1>7. CASE UNCHANGED vars
  BY <1>7 DEF BInv, TypeOK, ControlFollowsStage, InnerAt, Inner, vars
<1> QED
  BY <1>1, <1>2, <1>3, <1>4, <1>5, <1>6, <1>7 DEF Next

(* The inductive invariant holds for blocks with any sections, at any depth. *)
THEOREM BlocksInvariant == Spec => []BInv
<1>1. Init => BInv
  BY InitBInv
<1>2. BInv /\ [Next]_vars => BInv'
  BY NextBInv
<1> QED
  BY <1>1, <1>2, PTL DEF Spec

(* Control is in a section only at that section's stage, every enclosing block waits in
   WORK, and after an abort no WORK section goes on, at any depth of nesting. *)
THEOREM BlocksControlFollowsStage == Spec => []ControlFollowsStage
<1>1. BInv => ControlFollowsStage
  BY DEF BInv
<1> QED
  BY <1>1, BlocksInvariant, PTL
-----------------------------------------------------------------------------
(* The refinement. *)

(* Both start with no block. *)
LEMMA NestInit == Init => Nest!Init
  BY DEF Init, Nest!Init

(* Every step of the macros is a step of nested transactions, or none. *)
LEMMA NestStep == BInv /\ [Next]_vars => [Nest!Next]_(Nest!vars)
<1> SUFFICES ASSUME BInv, [Next]_vars
             PROVE  [Nest!Next]_(Nest!vars)
  OBVIOUS
<1> DEFINE n == Len(blocks)
<1>0. n \in Nat /\ (blocks # <<>> => n # 0) /\ failed \in BOOLEAN /\ "loop" \in Places
      /\ <<>> \in Seq(Stages)
  BY DEF BInv, TypeOK, Places
<1>1. InnerAt("WORK") => stage = "WORK"
  BY <1>0 DEF BInv, ControlFollowsStage, InnerAt, Inner, Last
<1>2. stage = "WORK" => ~failed
  BY DEF BInv, ControlFollowsStage
<1>3. ASSUME NEW where \in Places, blocks # <<>>, blocks' = MoveTo(where)
      PROVE  Len(blocks') = n
  BY <1>0, <1>3, Jump DEF BInv
<1>4. ASSUME pmemobj_tx_process, blocks' = MoveTo("loop"), blocks # <<>>
      PROVE  [Nest!Next]_(Nest!vars)
  <2>1. Len(blocks') = n
    BY <1>0, <1>3, <1>4
  <2>2. CASE stage = "WORK"
    BY <1>0, <1>2, <1>4, <2>1, <2>2
    DEF pmemobj_tx_process, Outermost, Nest!Finish, Nest!Next
  <2>3. CASE stage # "WORK"
    <3>1. stage' # "WORK" /\ outcome' = outcome /\ failed' = failed
      BY <1>4, <2>3 DEF pmemobj_tx_process, BInv, TypeOK, Stages
    <3> QED
      BY <2>1, <2>3, <3>1 DEF Nest!vars
  <2> QED
    BY <2>2, <2>3
<1>5. CASE TX_BEGIN
  <2>1. Len(blocks') = n + 1
    BY <1>5 DEF TX_BEGIN, BInv, TypeOK
  <2>2. n = 0 \/ stage = "WORK"
    BY <1>1, <1>5 DEF TX_BEGIN
  <2>3. CASE stage' = "WORK" /\ UNCHANGED <<failed, outcome>>
    BY <2>1, <2>2, <2>3 DEF Nest!Enter, Nest!Next
  <2>4. CASE AbortTx(n + 1)
    BY <1>0, <2>1, <2>2, <2>4 DEF AbortTx, Nest!EnterFails, Nest!Next
  <2> QED
    BY <1>5, <2>3, <2>4 DEF TX_BEGIN
<1>6. CASE Switch
  <2>1. Len(blocks') = n
    BY <1>6 DEF Switch, MoveTo, BInv, TypeOK
  <2> QED
    BY <1>6, <2>1 DEF Switch, Nest!vars
<1>7. CASE EndOfSection
  BY <1>4, <1>7 DEF EndOfSection, InnerAt, AfterSection
<1>8. CASE Default
  BY <1>4, <1>8 DEF Default, InnerAt, ProcessByDefault
<1>9. CASE pmemobj_tx_abort
  <2>1. Len(blocks') = n /\ stage = "WORK" /\ AbortTx(n)
    BY <1>0, <1>1, <1>3, <1>9 DEF pmemobj_tx_abort, InnerAt
  <2> QED
    BY <2>1 DEF AbortTx, Nest!Fail, Nest!Next
<1>10. CASE TX_END
  <2>1. n > 0 /\ stage = "NONE" /\ Len(blocks') = n - 1
    BY <1>0, <1>10, Ending DEF TX_END, InnerAt, Resumed, Outermost, BInv
  <2>2. SUFFICES Nest!Leave
    BY DEF Nest!Next
  <2>3. CASE n = 1
    <3>1. stage' = "NONE" /\ failed' = FALSE /\ outcome' = outcome
      BY <1>10, <2>3 DEF TX_END, Outermost
    <3>2. (stage = "WORK")' = FALSE /\ (n > 1 /\ ~failed) = FALSE
          /\ (n > 1 /\ failed) = FALSE
      BY <2>3, <3>1
    <3>3. outcome' = IF n = 2 /\ failed THEN "aborted" ELSE outcome
      BY <2>3, <3>1
    <3> QED
      BY <2>1, <3>1, <3>2, <3>3 DEF Nest!Leave
  <2>4. CASE n > 1 /\ failed
    <3>1. stage' = "ONABORT" /\ failed' = TRUE
          /\ outcome' = IF n - 1 = 1 THEN "aborted" ELSE outcome
      BY <1>0, <1>10, <2>4 DEF TX_END, Outermost, AbortTx
    <3>2. (stage = "WORK")' = FALSE /\ (n > 1 /\ ~failed) = FALSE
          /\ (n > 1 /\ failed) = TRUE
      BY <2>4, <3>1
    <3>3. outcome' = IF n = 2 /\ failed THEN "aborted" ELSE outcome
      BY <1>0, <2>4, <3>1
    <3> QED
      BY <2>1, <3>1, <3>2, <3>3 DEF Nest!Leave
  <2>5. CASE n > 1 /\ ~failed
    <3>0. failed = FALSE
      BY <1>0, <2>5
    <3>1. stage' = "WORK" /\ failed' = FALSE /\ outcome' = outcome
      <4>1. n \in Nat /\ n > 1
        BY <1>0, <2>5
      <4>2. ~(n = 1)
        BY <4>1
      <4>3. stage' = "WORK" /\ UNCHANGED <<failed, outcome>>
        BY <1>10, <3>0, <4>2, Zenon DEF TX_END, Outermost
      <4> QED
        BY <3>0, <4>3
    <3>2. (stage = "WORK")' = TRUE /\ (n > 1 /\ ~failed) = TRUE
          /\ (n > 1 /\ failed) = FALSE
      BY <2>5, <3>1
    <3> QED
      BY <2>1, <2>5, <3>1, <3>2 DEF Nest!Leave
  <2> QED
    BY <1>0, <2>1, <2>3, <2>4, <2>5
<1>11. CASE UNCHANGED vars
  BY <1>11 DEF vars, Nest!vars
<1> QED
  BY <1>5, <1>6, <1>7, <1>8, <1>9, <1>10, <1>11 DEF Next

(* The macros of nested blocks implement nested transactions, to any depth and
   whatever sections the blocks have. *)
THEOREM BlocksImplementNest == Spec => ImplementsNest
<1>1. Init => Nest!Init
  BY NestInit
<1>2. BInv /\ [Next]_vars => [Nest!Next]_(Nest!vars)
  BY NestStep
<1> QED
  BY <1>1, <1>2, BlocksInvariant, PTL DEF Spec, ImplementsNest, Nest!Spec
-----------------------------------------------------------------------------
(***************************************************************************)
(* The sections that a block runs.                                         *)
(***************************************************************************)

Then(sections, ran, s) == IF s \in sections THEN Append(ran, s) ELSE ran

(* What a block with these sections can have run when the stage is s and its switch has
   not yet looked at s. *)
RanBefore(sections, s) ==
  LET worked == <<"WORK">>
      over == {Then(sections, worked, "ONCOMMIT"), Then(sections, worked, "ONABORT"),
               Then(sections, <<>>, "ONABORT")}
  IN  CASE s = "WORK"     -> {<<>>}
        [] s = "ONCOMMIT" -> {worked}
        [] s = "ONABORT"  -> {worked, <<>>}
        [] s = "FINALLY"  -> over
        [] s = "NONE"     -> {Then(sections, r, "FINALLY") : r \in over}

(* The innermost block has run what it should when control is where it is. *)
RanAsFar(b, s) ==
  CASE b.at = "loop"    -> b.ran \in RanBefore(b.sections, s)
    [] b.at = "default" -> s \in Sections \ b.sections /\ b.ran \in RanBefore(b.sections, s)
    [] OTHER            -> /\ s = b.at /\ s \in b.sections \cup {"WORK"}
                           /\ \E r \in RanBefore(b.sections, s) : b.ran = Append(r, s)

(* Every enclosing block is in its WORK section. *)
RanInv ==
  /\ BInv
  /\ blocks # <<>> => RanAsFar(blocks[Len(blocks)], stage)
  /\ \A i \in 1 .. Len(blocks) - 1 : blocks[i].ran = <<"WORK">>
  /\ SectionsInOrder
-----------------------------------------------------------------------------
(* What a jump makes of the innermost block. *)
LEMMA JumpInner ==
  ASSUME TypeOK, blocks # <<>>, NEW where \in Places
  PROVE  MoveTo(where)[Len(blocks)] =
           [sections |-> blocks[Len(blocks)].sections, at |-> where,
            ran |-> blocks[Len(blocks)].ran]
<1> DEFINE n == Len(blocks)
<1>1. n \in Nat \ {0} /\ blocks \in [1 .. n -> Block] /\ blocks[n] \in Block
  BY DEF TypeOK
<1>2. MoveTo(where) = [blocks EXCEPT ![n] = [blocks[n] EXCEPT !.at = where]]
  BY DEF MoveTo
<1>3. [blocks[n] EXCEPT !.at = where]
        = [sections |-> blocks[n].sections, at |-> where, ran |-> blocks[n].ran]
  BY <1>1 DEF Block
<1> QED
  BY <1>1, <1>2, <1>3

(* And a jump to a section that is noted as run. *)
LEMMA JumpRan ==
  ASSUME TypeOK, blocks # <<>>, NEW where \in Places, NEW r
  PROVE  [MoveTo(where) EXCEPT ![Len(blocks)].ran = r][Len(blocks)] =
           [sections |-> blocks[Len(blocks)].sections, at |-> where, ran |-> r]
<1> DEFINE n == Len(blocks)
           moved == MoveTo(where)
<1>1. n \in DOMAIN moved
  BY DEF TypeOK, MoveTo
<1>2. moved[n] = [sections |-> blocks[n].sections, at |-> where, ran |-> blocks[n].ran]
  BY JumpInner
<1> HIDE DEF moved
<1>3. [moved EXCEPT ![n].ran = r][n] = [moved[n] EXCEPT !.ran = r]
  BY <1>1
<1> QED
  BY <1>2, <1>3 DEF moved

(* The library does not lead to a section before its turn. *)
LEMMA RanNext ==
  ASSUME BInv, blocks # <<>>, pmemobj_tx_process, NEW S \in SUBSET Sections,
         NEW ran, NEW b, b = [sections |-> S, at |-> "loop", ran |-> ran],
         \/ stage \in S \cup {"WORK"} /\ \E r \in RanBefore(S, stage) : ran = Append(r, stage)
         \/ stage \in Sections \ S /\ ran \in RanBefore(S, stage)
  PROVE  RanAsFar(b, stage')
<1>1. stage # "NONE" /\ stage \in Stages
  BY DEF BInv, TypeOK, Sections
<1>2. ran \in RanBefore(S, stage')
  <2>1. CASE stage = "WORK"
    <3>1. stage' = "ONCOMMIT"
      BY <2>1 DEF pmemobj_tx_process
    <3>2. ran = Append(<<>>, "WORK")
      BY <2>1 DEF RanBefore, Sections
    <3> QED
      BY <3>1, <3>2 DEF RanBefore
  <2>2. CASE stage = "ONCOMMIT"
    <3>1. stage' = "FINALLY"
      BY <2>2 DEF pmemobj_tx_process
    <3>2. ran = Then(S, <<"WORK">>, "ONCOMMIT")
      BY <2>2 DEF RanBefore, Then, Sections
    <3> QED
      BY <3>1, <3>2 DEF RanBefore
  <2>3. CASE stage = "ONABORT"
    <3>1. stage' = "FINALLY"
      BY <2>3 DEF pmemobj_tx_process
    <3>2. ran \in {Then(S, <<"WORK">>, "ONABORT"), Then(S, <<>>, "ONABORT")}
      BY <2>3 DEF RanBefore, Then, Sections
    <3> QED
      BY <3>1, <3>2 DEF RanBefore
  <2>4. CASE stage = "FINALLY"
    <3>1. stage' = "NONE"
      BY <2>4 DEF pmemobj_tx_process
    <3>2. \E r \in RanBefore(S, "FINALLY") : ran = Then(S, r, "FINALLY")
      BY <2>4 DEF Then, Sections
    <3> QED
      BY <3>1, <3>2 DEF RanBefore
  <2> QED
    BY <1>1, <2>1, <2>2, <2>3, <2>4 DEF Stages
<1> QED
  BY <1>2 DEF RanAsFar

(* Every step keeps RanInv. *)
LEMMA NextRanInv == RanInv /\ [Next]_vars => RanInv'
<1> SUFFICES ASSUME RanInv, [Next]_vars PROVE RanInv'
  OBVIOUS
<1> DEFINE n == Len(blocks)
<1>0. /\ BInv /\ BInv' /\ TypeOK /\ n \in Nat /\ stage \in Stages
      /\ "loop" \in Places /\ <<>> \in Seq(Stages)
  BY NextBInv DEF RanInv, BInv, TypeOK, Places
<1>1. blocks # <<>> =>
        /\ n \in Nat \ {0} /\ blocks[n] \in Block /\ Inner = blocks[n]
        /\ RanAsFar(blocks[n], stage)
        /\ \A i \in 1 .. n - 1 : blocks[i].ran = <<"WORK">>
  BY DEF RanInv, BInv, TypeOK, Inner, Last
<1>2. ended' = ended => SectionsInOrder'
  BY DEF RanInv, SectionsInOrder
<1>3. InnerAt("WORK") => blocks[n].ran = <<"WORK">> /\ stage = "WORK"
  <2> SUFFICES ASSUME InnerAt("WORK") PROVE blocks[n].ran = Append(<<>>, "WORK") /\ stage = "WORK"
    BY DEF InnerAt
  <2>1. blocks[n].at = "WORK" /\ RanAsFar(blocks[n], stage)
    BY <1>1 DEF InnerAt
  <2> QED
    BY <2>1 DEF RanAsFar, RanBefore
<1>4. ASSUME blocks # <<>>, blocks' = MoveTo("loop"), ended' = ended,
             RanAsFar([sections |-> blocks[n].sections, at |-> "loop", ran |-> blocks[n].ran],
                      stage')
      PROVE  RanInv'
  <2>1. /\ Len(blocks') = n
        /\ \A i \in 1 .. n - 1 : blocks'[i] = blocks[i]
        /\ blocks'[n] = [sections |-> blocks[n].sections, at |-> "loop", ran |-> blocks[n].ran]
    <3>1. Len(blocks') = n /\ \A i \in 1 .. n - 1 : blocks'[i] = blocks[i]
      BY <1>0, <1>4, Jump
    <3>2. blocks'[n]
            = [sections |-> blocks[n].sections, at |-> "loop", ran |-> blocks[n].ran]
      BY <1>0, <1>4, JumpInner
    <3> QED
      BY <3>1, <3>2
  <2> QED
    BY <1>0, <1>1, <1>2, <1>4, <2>1 DEF RanInv
<1>5. CASE TX_BEGIN
  <2>1. PICK s \in SectionSets : blocks' = Append(blocks, NewBlock(s))
    BY <1>5 DEF TX_BEGIN
  <2>2. /\ Len(blocks') = n + 1 /\ blocks'[n + 1] = NewBlock(s)
        /\ \A i \in 1 .. n : blocks'[i] = blocks[i]
    BY <2>1, <1>0 DEF TypeOK
  <2>3. RanAsFar(NewBlock(s), stage')
    BY <1>5 DEF TX_BEGIN, AbortTx, RanAsFar, RanBefore, NewBlock
  <2>4. \A i \in 1 .. n : blocks[i].ran = <<"WORK">>
    BY <1>0, <1>1, <1>3, <1>5 DEF TX_BEGIN
  <2> QED
    BY <1>0, <1>2, <1>5, <2>2, <2>3, <2>4 DEF RanInv, TX_BEGIN
<1>6. CASE Switch
  <2> DEFINE S == blocks[n].sections
             r == IF Case(stage) = "default" THEN blocks[n].ran ELSE Append(blocks[n].ran, stage)
             jumped == [MoveTo(Case(stage)) EXCEPT ![n].ran = r]
  <2>1. blocks # <<>> /\ blocks[n].at = "loop" /\ stage # "NONE" /\ ended' = ended
        /\ stage' = stage
    BY <1>1, <1>6 DEF Switch, InnerAt
  <2>2. Case(stage) \in Places /\ r \in Seq(Stages)
    BY <1>0, <1>1, <2>1 DEF Case, Places, Sections, Stages, Block
  <2>3. blocks' = jumped
    <3>1. MoveTo(Case(stage))[n].ran = blocks[n].ran
      <4>1. MoveTo(Case(stage))[n] = [sections |-> S, at |-> Case(stage),
                                      ran |-> blocks[n].ran]
        BY <1>0, <2>1, <2>2, JumpInner
      <4> QED
        BY <4>1
    <3> QED
      BY <1>6, <3>1 DEF Switch
  <2> HIDE DEF r
  <2>4. /\ Len(blocks') = n
        /\ \A i \in 1 .. n - 1 : blocks'[i] = blocks[i]
        /\ blocks'[n] = [sections |-> S, at |-> Case(stage), ran |-> r]
    <3>1. Len(blocks') = n /\ \A i \in 1 .. n - 1 : blocks'[i] = blocks[i]
      BY <1>0, <2>1, <2>2, <2>3, Jump
    <3>2. blocks'[n] = [sections |-> S, at |-> Case(stage), ran |-> r]
      BY <1>0, <2>1, <2>2, <2>3, JumpRan
    <3> QED
      BY <3>1, <3>2
  <2>5. blocks[n].ran \in RanBefore(S, stage)
    BY <1>1, <2>1 DEF RanAsFar
  <2>6. RanAsFar([sections |-> S, at |-> Case(stage), ran |-> r], stage')
    <3>1. CASE stage \in S \cup {"WORK"}
      <4>1. Case(stage) = stage /\ stage # "default" /\ stage # "loop"
        BY <1>0, <1>1, <2>1, <3>1 DEF Case, Stages
      <4>2. r = Append(blocks[n].ran, stage)
        BY <4>1 DEF r
      <4> QED
        BY <2>1, <2>5, <3>1, <4>1, <4>2 DEF RanAsFar
    <3>2. CASE stage \notin S \cup {"WORK"}
      <4>1. Case(stage) = "default" /\ stage \in Sections \ S
        BY <1>0, <1>1, <2>1, <3>2 DEF Case, Stages, Sections
      <4>2. r = blocks[n].ran
        BY <4>1 DEF r
      <4> QED
        BY <2>1, <2>5, <4>1, <4>2 DEF RanAsFar
    <3> QED
      BY <3>1, <3>2
  <2> QED
    BY <1>0, <1>1, <1>2, <2>1, <2>4, <2>6 DEF RanInv
<1>7. CASE EndOfSection
  <2>1. PICK s \in Sections \cup {"WORK"} : InnerAt(s) /\ blocks' = MoveTo("loop")
    BY <1>7 DEF EndOfSection, AfterSection
  <2>2. blocks # <<>> /\ blocks[n].at = s /\ pmemobj_tx_process /\ ended' = ended
    BY <1>1, <1>7, <2>1 DEF InnerAt, EndOfSection
  <2>3. /\ s # "loop" /\ s # "default" /\ blocks[n].sections \in SUBSET Sections
    BY <1>1, <2>2 DEF Sections, Block
  <2>4. /\ stage = s /\ stage \in blocks[n].sections \cup {"WORK"}
        /\ \E r \in RanBefore(blocks[n].sections, stage) : blocks[n].ran = Append(r, stage)
    BY <1>1, <2>2, <2>3 DEF RanAsFar
  <2>5. RanAsFar([sections |-> blocks[n].sections, at |-> "loop", ran |-> blocks[n].ran],
                 stage')
    BY <1>0, <2>2, <2>3, <2>4, RanNext
  <2> QED
    BY <1>4, <2>1, <2>2, <2>5
<1>8. CASE Default
  <2>1. blocks # <<>> /\ blocks[n].at = "default" /\ pmemobj_tx_process /\ ended' = ended
        /\ blocks' = MoveTo("loop")
    BY <1>1, <1>8 DEF InnerAt, Default, ProcessByDefault
  <2>2. /\ stage \in Sections \ blocks[n].sections
        /\ blocks[n].ran \in RanBefore(blocks[n].sections, stage)
        /\ blocks[n].sections \in SUBSET Sections
    BY <1>1, <2>1 DEF RanAsFar, Block
  <2>3. RanAsFar([sections |-> blocks[n].sections, at |-> "loop", ran |-> blocks[n].ran],
                 stage')
    BY <1>0, <2>1, <2>2, RanNext
  <2> QED
    BY <1>4, <2>1, <2>3
<1>9. CASE pmemobj_tx_abort
  <2>1. blocks # <<>> /\ stage' = "ONABORT" /\ ended' = ended /\ blocks' = MoveTo("loop")
        /\ blocks[n].ran = <<"WORK">>
    BY <1>3, <1>9 DEF pmemobj_tx_abort, AbortTx, InnerAt
  <2>2. RanAsFar([sections |-> blocks[n].sections, at |-> "loop", ran |-> blocks[n].ran],
                 stage')
    BY <2>1 DEF RanAsFar, RanBefore
  <2> QED
    BY <1>4, <2>1, <2>2
<1>10. CASE TX_END
  <2>1. /\ blocks # <<>> /\ blocks[n].at = "loop" /\ stage = "NONE"
        /\ ended' = blocks[n]
    BY <1>1, <1>10 DEF TX_END, InnerAt
  <2>2. SectionsInOrder'
    <3>1. blocks[n].ran \in RanBefore(blocks[n].sections, "NONE")
      BY <1>1, <2>1 DEF RanAsFar
    <3> QED
      BY <2>1, <3>1 DEF SectionsInOrder, RanBefore, Then
  <2>3. CASE n = 1
    <3>1. Len(blocks') = 0
      BY <1>0, <1>10, <2>1, <2>3, Ending DEF TX_END, Resumed, Outermost
    <3>2. blocks' = <<>>
      BY <1>0, <3>1 DEF BInv, TypeOK
    <3> QED
      BY <1>0, <2>2, <3>1, <3>2 DEF RanInv
  <2>4. CASE n # 1 /\ failed
    <3> DEFINE rest == Front(blocks)
               jumped == [rest EXCEPT ![n - 1].at = "loop"]
    <3>1. /\ blocks' = jumped /\ stage' = "ONABORT"
      BY <1>10, <2>4 DEF TX_END, Resumed, Outermost, AbortTx
    <3>2. /\ rest \in Seq(Block) /\ Len(rest) = n - 1
          /\ \A i \in 1 .. n - 1 : rest[i] = blocks[i]
      BY <1>0, <2>1, Ending
    <3>3. n - 1 \in 1 .. n - 1 /\ rest \in [1 .. n - 1 -> Block]
      BY <1>1, <2>1, <2>4, <3>2
    <3>4. /\ Len(blocks') = n - 1
          /\ \A i \in 1 .. n - 2 : blocks'[i] = blocks[i]
      BY <1>0, <1>1, <2>1, <2>4, <3>1, Ending
    <3>5. blocks'[n - 1] = [rest[n - 1] EXCEPT !.at = "loop"]
      BY <3>1, <3>3
    <3>6. blocks'[n - 1].at = "loop" /\ blocks'[n - 1].ran = <<"WORK">>
      BY SMTT(30), <1>1, <2>1, <3>2, <3>3, <3>5 DEF Block
    <3>7. RanAsFar(blocks'[n - 1], stage')
      <4>1. <<"WORK">> \in RanBefore(blocks'[n - 1].sections, "ONABORT")
        BY DEF RanBefore
      <4> QED
        BY <3>1, <3>6, <4>1 DEF RanAsFar
    <3> QED
      BY <1>0, <1>1, <2>1, <2>2, <3>4, <3>7 DEF RanInv
  <2>5. CASE n # 1 /\ ~failed
    <3>1. blocks' = Front(blocks) /\ stage' = "WORK"
      BY <1>10, <2>5 DEF TX_END, Resumed, Outermost
    <3>2. /\ Len(blocks') = n - 1 /\ n - 1 \in 1 .. n - 1
          /\ \A i \in 1 .. n - 1 : blocks'[i] = blocks[i]
      BY <1>0, <1>1, <2>1, <2>5, <3>1, Ending
    <3>3. blocks[n - 1].at = "WORK" /\ blocks[n - 1].ran = <<"WORK">>
      BY <1>0, <1>1, <2>1, <3>2 DEF BInv, TypeOK, ControlFollowsStage
    <3>4. RanAsFar(blocks'[n - 1], stage')
      <4>1. <<"WORK">> = Append(<<>>, "WORK")
        OBVIOUS
      <4> QED
        BY <3>1, <3>2, <3>3, <4>1 DEF RanAsFar, RanBefore
    <3> QED
      BY <1>0, <1>1, <2>1, <2>2, <3>2, <3>4 DEF RanInv
  <2> QED
    BY <2>3, <2>4, <2>5
<1>11. CASE UNCHANGED vars
  <2>1. blocks' = blocks /\ stage' = stage /\ ended' = ended
    BY <1>11 DEF vars
  <2> QED
    BY <1>0, <1>2, <2>1 DEF RanInv
<1> QED
  BY <1>5, <1>6, <1>7, <1>8, <1>9, <1>10, <1>11 DEF Next

(* SectionsInOrder for blocks with any sections, nested to any depth: however a block
   and those inside it fail, it runs the sections it has in their order, each at most
   once. *)
THEOREM BlocksSectionsInOrder == Spec => []SectionsInOrder
<1>1. Init => RanInv
  BY InitBInv DEF Init, RanInv, SectionsInOrder, NewBlock
<1>2. RanInv => SectionsInOrder
  BY DEF RanInv
<1> QED
  BY <1>1, <1>2, NextRanInv, PTL DEF Spec
=============================================================================
