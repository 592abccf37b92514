------------------------------ MODULE TxBlocks -------------------------------
(***************************************************************************)
(* The control flow that the macros TX_BEGIN ... TX_END of libpmemobj/tx.h *)
(* put around the code: setjmp, pmemobj_tx_begin, and a loop with a switch *)
(* on the stage of the thread's transaction, whose cases are the sections  *)
(* that the block has.  Each case ends in pmemobj_tx_process and break, and*)
(* one without a section is done by the default case.                      *)
(*                                                                         *)
(* The stage belongs to the thread, not to the block, and the functions    *)
(* pmemobj_tx_* that change it are external: what they do is stated in     *)
(* libpmemobj/tx_base.h.  Every change to ONABORT is followed by a longjmp *)
(* to the setjmp of the innermost block.                                   *)
(***************************************************************************)
EXTENDS Naturals, Sequences, SequencesExt

CONSTANTS
  SectionSets,  \* sets of sections that blocks of the code have besides WORK
  MaxBlocks     \* bound: the blocks begun while one is open

Sections == {"ONABORT", "ONCOMMIT", "FINALLY"}

ASSUME BlocksAssumption ==
  SectionSets \subseteq SUBSET Sections /\ MaxBlocks \in Nat \ {0}

VARIABLES
  stage,    \* pmemobj_tx_stage()
  failed,   \* the transaction's last error number is not 0
  blocks,   \* the open blocks, the innermost last
  outcome,  \* "committed" or "aborted": what became of the pool the last time
  begun,    \* the blocks begun since none was open
  ended     \* history: the block that ended last

vars == <<stage, failed, blocks, outcome, begun, ended>>

(* at: "loop", or the case control is in; ran: history, the sections it ran. *)
NewBlock(s) == [sections |-> s, at |-> "loop", ran |-> <<>>]

Init ==
  /\ stage = "NONE" /\ failed = FALSE
  /\ blocks = <<>>
  /\ outcome = "none" /\ begun = 0
  /\ ended = NewBlock({})

Inner == Last(blocks)
InnerAt(where) == blocks # <<>> /\ Inner.at = where
MoveTo(where) == [blocks EXCEPT ![Len(blocks)].at = where]
Outermost == Len(blocks) = 1
-----------------------------------------------------------------------------
(* The library: what becomes of stage, failed and outcome. *)

AbortTx(depth) ==
  /\ stage' = "ONABORT" /\ failed' = TRUE
  /\ outcome' = IF depth = 1 THEN "aborted" ELSE outcome

pmemobj_tx_process ==
  /\ stage' = CASE stage = "WORK" -> "ONCOMMIT"
                [] stage \in {"ONCOMMIT", "ONABORT"} -> "FINALLY"
                [] stage = "FINALLY" -> "NONE"
                [] stage = "NONE" -> "NONE"
  /\ outcome' = IF stage = "WORK" /\ Outermost THEN "committed" ELSE outcome
  /\ UNCHANGED failed
-----------------------------------------------------------------------------
(* Code in a WORK section, or outside all blocks, comes to a TX_BEGIN. *)
TX_BEGIN ==
  /\ blocks = <<>> \/ InnerAt("WORK")
  /\ begun < MaxBlocks \/ blocks = <<>>
  /\ \E s \in SectionSets : blocks' = Append(blocks, NewBlock(s))
  /\ begun' = IF blocks = <<>> THEN 1 ELSE begun + 1
  /\ \/ stage' = "WORK" /\ UNCHANGED <<failed, outcome>>
     \/ AbortTx(Len(blocks) + 1)
  /\ UNCHANGED ended

CaseWithoutDefault(s) == s
Case(s) == IF s = "WORK" \/ s \in Inner.sections THEN s ELSE "default"

(* while ((_stage = pmemobj_tx_stage()) != TX_STAGE_NONE) switch (_stage) *)
Switch ==
  /\ InnerAt("loop") /\ stage # "NONE"
  /\ blocks' = [MoveTo(Case(stage)) EXCEPT
                  ![Len(blocks)].ran = IF Case(stage) = "default" THEN @
                                       ELSE Append(@, stage)]
  /\ UNCHANGED <<stage, failed, outcome, begun, ended>>

(* A section's code has come to its end: pmemobj_tx_process(); break; *)
AfterSectionNoBreak(s) ==
  IF s = "WORK" /\ "ONABORT" \in Inner.sections THEN "ONABORT" ELSE "loop"
AfterSection(s) == "loop"

(* The sections follow each other in the order of the macros: the next TX_ON*
   ends the one before it, TX_END the last. *)
EndOfSection ==
  /\ \E s \in Sections \cup {"WORK"} : InnerAt(s) /\ blocks' = MoveTo(AfterSection(s))
  /\ pmemobj_tx_process
  /\ UNCHANGED <<begun, ended>>

NothingByDefault == UNCHANGED <<stage, failed, outcome>>
ProcessByDefault == pmemobj_tx_process

(* default: TX_ONABORT_CHECK, which is empty in this build, and the same. *)
Default ==
  /\ InnerAt("default") /\ blocks' = MoveTo("loop")
  /\ ProcessByDefault
  /\ UNCHANGED <<begun, ended>>

(* pmemobj_tx_abort in a WORK section, or in a call made there that fails. *)
pmemobj_tx_abort ==
  /\ InnerAt("WORK") /\ blocks' = MoveTo("loop")
  /\ AbortTx(Len(blocks))
  /\ UNCHANGED <<begun, ended>>

(* After the loop: pmemobj_tx_end, which aborts the enclosing transaction too if
   this one failed, and otherwise lets its WORK section go on. *)
ResumedAlways == blocks' = Front(blocks)
Resumed ==
  blocks' = IF failed /\ ~Outermost
            THEN [Front(blocks) EXCEPT ![Len(blocks) - 1].at = "loop"]
            ELSE Front(blocks)

TX_END ==
  /\ InnerAt("loop") /\ stage = "NONE"
  /\ ended' = Inner
  /\ Resumed
  /\ \/ /\ Outermost
        /\ stage' = "NONE" /\ failed' = FALSE /\ UNCHANGED outcome
     \/ /\ ~Outermost /\ failed
        /\ AbortTx(Len(blocks) - 1)
     \/ /\ ~Outermost /\ ~failed
        /\ stage' = "WORK" /\ UNCHANGED <<failed, outcome>>
  /\ UNCHANGED begun

Next ==
  \/ TX_BEGIN \/ Switch \/ EndOfSection \/ Default \/ pmemobj_tx_abort \/ TX_END

Spec == Init /\ [][Next]_vars

(* The thread goes on, and its sections come to an end: a WORK section that could
   begin another block stops doing so at the bound, which counts all of them. *)
FairSpec == Spec /\ WF_vars(Switch \/ EndOfSection \/ Default \/ TX_END)
-----------------------------------------------------------------------------
(* Properties. *)

(* The sections a finished block has run: WORK unless TX_BEGIN failed, then, of
   those it has, one of ONCOMMIT and ONABORT and never both, and FINALLY last, once. *)
SectionsInOrder ==
  LET then(ran, s) == IF s \in ended.sections THEN Append(ran, s) ELSE ran
      finished(ran, s) == then(then(ran, s), "FINALLY")
  IN  ended.ran \in {finished(<<"WORK">>, "ONCOMMIT"), finished(<<"WORK">>, "ONABORT"),
                     finished(<<>>, "ONABORT")}

(* Control is in a section only while the thread's stage is that section's, and
   every enclosing block is in its WORK section, at the call that began the next one.
   After an abort at any depth no WORK section of any enclosing block goes on: it is
   why the code never sees a call that aborted return. *)
ControlFollowsStage ==
  /\ \A i \in DOMAIN blocks :
       IF i < Len(blocks) THEN blocks[i].at = "WORK"
       ELSE blocks[i].at \in Sections \cup {"WORK"} => blocks[i].at = stage
  /\ failed => ~InnerAt("WORK") /\ stage \notin {"WORK", "ONCOMMIT"}

(* Every block that is begun ends. *)
BlocksEnd == blocks # <<>> ~> blocks = <<>>

(* The nest of blocks is a nest of transactions. *)
Nest == INSTANCE TxNest WITH
  depth <- Len(blocks),
  working <- stage = "WORK"
ImplementsNest == Nest!Spec
=============================================================================
