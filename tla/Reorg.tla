------------------------------- MODULE Reorg -------------------------------
(***************************************************************************)
(* The reorganisation walk at the start of MemPool::reset_full             *)
(* (crates/mem-pool/src/pool.rs).  Given the mem pool's old tip and the    *)
(* new tip, the walk climbs parent pointers: first the higher old side     *)
(* down to the new tip's height, then the higher new side down to the old  *)
(* side's height, then both sides together until they meet.  Blocks left  *)
(* on the old side are discarded: their transactions and withdrawals are   *)
(* front-inserted so block order survives.  Blocks passed on the new side  *)
(* are included: their content is collected into sets that are finally    *)
(* subtracted from the discarded lists.  The result is what reset_full     *)
(* re-injects into the next mem block.                                     *)
(*                                                                         *)
(* The block store is a constant tree; a transaction or a withdrawal is a  *)
(* model value, compared for equality like the packed L2Transaction and    *)
(* WithdrawalRequest the code puts into its HashSets.                      *)
(***************************************************************************)
EXTENDS Integers, Sequences, SequencesExt

CONSTANTS
    Blocks,       \* hashes of the blocks in the local store
    Genesis,      \* the genesis block, the root of every chain
    NoBlock,      \* the parent hash of the genesis block (not in Blocks)
    Parent,       \* Parent[b]: raw().parent_block_hash() of block b
    Number,       \* Number[b]: raw().number() of block b
    BlockTxs,     \* BlockTxs[b]: transactions() of b, in block order
    BlockWds,     \* BlockWds[b]: withdrawals() of b, in block order
    DepthLimit    \* the literal 64 of pool.rs: deeper reorgs are not walked

ASSUME /\ Genesis \in Blocks /\ NoBlock \notin Blocks
       /\ Parent \in [Blocks -> Blocks \cup {NoBlock}]
       /\ Parent[Genesis] = NoBlock
       /\ Number \in [Blocks -> Nat] /\ Number[Genesis] = 0
       /\ \A b \in Blocks \ {Genesis} : Number[b] = Number[Parent[b]] + 1
       /\ DepthLimit \in Nat

VARIABLES
    oldTip,        \* argument old_tip of reset_full
    newTip,        \* argument new_tip of reset_full
    pc,            \* which loop of the walk runs next
    rem,           \* the block reached on the old (discarded) side
    add,           \* the block reached on the new (included) side
    discardedTxs,  \* VecDeque<L2Transaction> discarded_txs
    includedTxs,   \* HashSet<L2Transaction> included_txs
    discardedWds,  \* VecDeque<WithdrawalRequestExtra> discarded_withdrawals
    includedWds,   \* HashSet<WithdrawalRequest> included_withdrawals
    reinjectTxs,   \* reinject_txs handed to the rest of reset_full
    reinjectWds    \* reinject_withdrawals handed to the rest of reset_full

vars == <<oldTip, newTip, pc, rem, add, discardedTxs, includedTxs,
          discardedWds, includedWds, reinjectTxs, reinjectWds>>

walkVars == <<discardedTxs, includedTxs, discardedWds, includedWds>>

Depth == IF Number[newTip] >= Number[oldTip]
         THEN Number[newTip] - Number[oldTip]
         ELSE Number[oldTip] - Number[newTip]

\* s with the elements of the set S removed, order kept (VecDeque::retain)
Retain(s, S) == SelectSeq(s, LAMBDA x : x \notin S)

----------------------------------------------------------------------------
(* The walk, one loop iteration per step.                                  *)

Init ==
    /\ oldTip \in Blocks
    /\ newTip \in Blocks
    /\ pc = "start"
    /\ rem = oldTip
    /\ add = newTip
    /\ discardedTxs = <<>> /\ includedTxs = {}
    /\ discardedWds = <<>> /\ includedWds = {}
    /\ reinjectTxs = <<>> /\ reinjectWds = <<>>

\* The new tip extends the old one, or the reorg is deeper than the limit:
\* nothing is walked and nothing is re-injected.
SkipWalk ==
    /\ pc = "start"
    /\ \/ oldTip = Parent[newTip]
       \/ Depth > DepthLimit
    /\ pc' = "done"
    /\ UNCHANGED <<oldTip, newTip, rem, add, walkVars, reinjectTxs, reinjectWds>>

BeginWalk ==
    /\ pc = "start"
    /\ oldTip /= Parent[newTip]
    /\ Depth <= DepthLimit
    /\ pc' = "walkRem"
    /\ UNCHANGED <<oldTip, newTip, rem, add, walkVars, reinjectTxs, reinjectWds>>

\* Variant for mutation checking: the first loop also runs while the two
\* sides have equal numbers (>= for >).
WalkRemPastEqual ==
    /\ pc = "walkRem"
    /\ \/ /\ Number[rem] >= Number[add]
          /\ discardedTxs' = BlockTxs[rem] \o discardedTxs
          /\ discardedWds' = BlockWds[rem] \o discardedWds
          /\ rem' = Parent[rem]
          /\ UNCHANGED <<pc, includedTxs, includedWds>>
       \/ /\ Number[rem] < Number[add]
          /\ pc' = "walkAdd"
          /\ UNCHANGED <<rem, walkVars>>
    /\ UNCHANGED <<oldTip, newTip, add, reinjectTxs, reinjectWds>>

\* while rem.number > add.number: discard rem, step to its parent
WalkRem ==
    /\ pc = "walkRem"
    /\ \/ /\ Number[rem] > Number[add]
          /\ discardedTxs' = BlockTxs[rem] \o discardedTxs
          /\ discardedWds' = BlockWds[rem] \o discardedWds
          /\ rem' = Parent[rem]
          /\ UNCHANGED <<pc, includedTxs, includedWds>>
       \/ /\ Number[rem] <= Number[add]
          /\ pc' = "walkAdd"
          /\ UNCHANGED <<rem, walkVars>>
    /\ UNCHANGED <<oldTip, newTip, add, reinjectTxs, reinjectWds>>

\* while add.number > rem.number: include add, step to its parent.  The
\* source extends included_withdrawals with rem.withdrawals() here (line
\* 658), not with add's.
WalkAdd ==
    /\ pc = "walkAdd"
    /\ \/ /\ Number[add] > Number[rem]
          /\ includedTxs' = includedTxs \cup ToSet(BlockTxs[add])
          /\ includedWds' = includedWds \cup ToSet(BlockWds[rem])
          /\ add' = Parent[add]
          /\ UNCHANGED <<pc, discardedTxs, discardedWds>>
       \/ /\ Number[add] <= Number[rem]
          /\ pc' = "walkBoth"
          /\ UNCHANGED <<add, walkVars>>
    /\ UNCHANGED <<oldTip, newTip, rem, reinjectTxs, reinjectWds>>

\* Variant for mutation checking: the third loop pushes discarded
\* transactions at the back instead of the front.
WalkBothAppend ==
    /\ pc = "walkBoth"
    /\ rem /= add
    /\ discardedTxs' = discardedTxs \o BlockTxs[rem]
    /\ discardedWds' = BlockWds[rem] \o discardedWds
    /\ includedTxs' = includedTxs \cup ToSet(BlockTxs[add])
    /\ includedWds' = includedWds \cup ToSet(BlockWds[add])
    /\ rem' = Parent[rem]
    /\ add' = Parent[add]
    /\ UNCHANGED <<oldTip, newTip, pc, reinjectTxs, reinjectWds>>

\* while rem.hash != add.hash: discard rem and include add, both step up
WalkBoth ==
    /\ pc = "walkBoth"
    /\ rem /= add
    /\ discardedTxs' = BlockTxs[rem] \o discardedTxs
    /\ discardedWds' = BlockWds[rem] \o discardedWds
    /\ includedTxs' = includedTxs \cup ToSet(BlockTxs[add])
    /\ includedWds' = includedWds \cup ToSet(BlockWds[add])
    /\ rem' = Parent[rem]
    /\ add' = Parent[add]
    /\ UNCHANGED <<oldTip, newTip, pc, reinjectTxs, reinjectWds>>

\* The sides met: remove the included content from the discarded lists.
FinishWalk ==
    /\ pc = "walkBoth"
    /\ rem = add
    /\ reinjectTxs' = Retain(discardedTxs, includedTxs)
    /\ reinjectWds' = Retain(discardedWds, includedWds)
    /\ pc' = "done"
    /\ UNCHANGED <<oldTip, newTip, rem, add, walkVars>>

Next ==
    \/ SkipWalk
    \/ BeginWalk
    \/ WalkRem
    \/ WalkAdd
    \/ WalkBoth
    \/ FinishWalk

Spec == Init /\ [][Next]_vars

----------------------------------------------------------------------------
(* Reference definition of what a reorg must re-inject (spec.md 4.3, 8).   *)

RECURSIVE PathTo(_)
\* the blocks from the genesis block up to b, in chain order
PathTo(b) == IF b = Genesis THEN <<b>> ELSE Append(PathTo(Parent[b]), b)

\* the highest block on both chains
ForkPoint ==
    LET common == ToSet(PathTo(oldTip)) \cap ToSet(PathTo(newTip))
    IN  CHOOSE f \in common : \A g \in common : Number[g] <= Number[f]

\* the blocks of a chain above the fork point, in chain order
BranchOf(tip) == SelectSeq(PathTo(tip), LAMBDA b : Number[b] > Number[ForkPoint])

\* the content F[b] of every block of a branch, in chain and block order
ContentOf(branch, F) == FlattenSeq([i \in DOMAIN branch |-> F[branch[i]]])

\* the content of the old branch that the new branch does not carry
ExpectedReinject(F) ==
    IF Depth > DepthLimit THEN <<>>
    ELSE Retain(ContentOf(BranchOf(oldTip), F), ToSet(ContentOf(BranchOf(newTip), F)))

----------------------------------------------------------------------------
(* Properties                                                              *)

TypeOK ==
    /\ oldTip \in Blocks /\ newTip \in Blocks
    /\ pc \in {"start", "walkRem", "walkAdd", "walkBoth", "done"}
    /\ rem \in Blocks /\ add \in Blocks
    /\ includedTxs \subseteq UNION {ToSet(BlockTxs[b]) : b \in Blocks}
    /\ includedWds \subseteq UNION {ToSet(BlockWds[b]) : b \in Blocks}

\* Once the walk of reset_full ends, reinject_txs holds exactly the
\* transactions of the discarded branch that the new branch does not
\* include again, in their original block and in-block order (nothing
\* lost, nothing duplicated, nothing re-ordered), and is empty when the
\* reorg is deeper than the depth limit.
ReinjectTxsMatchFork ==
    pc = "done" => reinjectTxs = ExpectedReinject(BlockTxs)

\* The same for reinject_withdrawals: exactly the withdrawals of the
\* discarded branch that the new branch does not include again, in order.
ReinjectWdsMatchFork ==
    pc = "done" => reinjectWds = ExpectedReinject(BlockWds)

=============================================================================
