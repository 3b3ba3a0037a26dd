---------------------------- MODULE MemPoolSpec ----------------------------
(***************************************************************************)
(* What the mem pool promises its readers and the block producer          *)
(* (spec.md 4.4, 4.5 and 5), with no pending queue, store or cycles pool. *)
(* The state is the chain, the tip the candidate block builds on, the     *)
(* candidate block and the published account state.  Readers always see   *)
(* the tip state with the candidate block applied; the block producer     *)
(* always gets a prefix of the candidate block, withdrawals first.        *)
(*                                                                         *)
(*   Admit    a transaction with its sender's next nonce is appended to   *)
(*            the candidate block and applied to the published state;     *)
(*   Produce  a packaged prefix of the candidate block becomes the next   *)
(*            block of the chain; the candidate block is untouched;       *)
(*   Rebase   the candidate block is replaced wholesale by one that       *)
(*            applies on the chain's tip, within the block limits, with   *)
(*            no deposit the chain already has, and published with it;   *)
(*   Revert   the chain loses its blocks above some block; the candidate  *)
(*            block and the published state wait for the next Rebase.     *)
(***************************************************************************)
EXTENDS Integers, Sequences, SequencesExt

CONSTANTS Accounts, Deposits, DepositTo, MaxNonce, MaxTxs, MaxWithdrawals

VARIABLES
    chain,   \* the blocks above genesis
    tip,     \* the number of the block the candidate block builds on
    block,   \* the candidate block [wds, deps, txs]
    state    \* the published state: account -> [nonce, balance]

avars == <<chain, tip, block, state>>

Txs == [from : Accounts, nonce : 0..MaxNonce]
Wds == [from : Accounts, nonce : 0..MaxNonce]
Blocks == [wds : Seq(Wds), deps : Seq(Deposits), txs : Seq(Txs)]

Genesis == [a \in Accounts |-> [nonce |-> 0, balance |-> 0]]

\* a block's items in application order: withdrawals, deposits, transactions
Items(b) ==
    [i \in 1..Len(b.wds) |-> [kind |-> "wd", who |-> b.wds[i].from, nonce |-> b.wds[i].nonce]]
    \o [i \in 1..Len(b.deps) |-> [kind |-> "dep", who |-> DepositTo[b.deps[i]], nonce |-> 0]]
    \o [i \in 1..Len(b.txs) |-> [kind |-> "tx", who |-> b.txs[i].from, nonce |-> b.txs[i].nonce]]

\* one item applied to [ok, st]: a withdrawal needs the next nonce and one
\* unit of balance, a transaction the next nonce; a deposit credits a unit
ApplyItem(r, x) ==
    LET acc == r.st[x.who]
        valid == x.kind = "dep" \/ (x.nonce = acc.nonce /\ (x.kind = "wd" => acc.balance >= 1))
        next == [nonce |-> IF x.kind = "dep" THEN acc.nonce ELSE acc.nonce + 1,
                 balance |-> acc.balance + (CASE x.kind = "wd" -> -1
                                              [] x.kind = "dep" -> 1
                                              [] OTHER -> 0)]
    IN  [ok |-> r.ok /\ valid, st |-> [r.st EXCEPT ![x.who] = next]]

Apply(st, b) == FoldLeft(ApplyItem, [ok |-> TRUE, st |-> st], Items(b))

\* the state after blocks 1..n of the chain
StateAt(n) == FoldLeft(LAMBDA st, b : Apply(st, b).st, Genesis, SubSeq(chain, 1, n))

ChainDeposits == UNION {ToSet(chain[i].deps) : i \in DOMAIN chain}

\* the first k items of b, withdrawals first, then deposits, then transactions
Prefix(b, k) ==
    LET nw == IF k < Len(b.wds) THEN k ELSE Len(b.wds)
        nd == IF k - nw < Len(b.deps) THEN k - nw ELSE Len(b.deps)
    IN  [wds |-> SubSeq(b.wds, 1, nw), deps |-> SubSeq(b.deps, 1, nd),
         txs |-> SubSeq(b.txs, 1, k - nw - nd)]

Init ==
    /\ chain = <<>>
    /\ tip = 0
    /\ block = [wds |-> <<>>, deps |-> <<>>, txs |-> <<>>]
    /\ state = Genesis

Admit ==
    \E t \in Txs :
        /\ t \notin ToSet(block.txs)
        /\ Len(block.txs) < MaxTxs
        /\ t.nonce = state[t.from].nonce
        /\ block' = [block EXCEPT !.txs = Append(@, t)]
        /\ state' = [state EXCEPT ![t.from].nonce = @ + 1]
        /\ UNCHANGED <<chain, tip>>

Produce ==
    LET n == Len(block.wds) + Len(block.deps) + Len(block.txs) IN
    /\ tip = Len(chain)
    /\ \E k \in IF n = 0 THEN {0} ELSE 1..n : chain' = Append(chain, Prefix(block, k))
    /\ UNCHANGED <<tip, block, state>>

Rebase ==
    /\ tip' = Len(chain)
    /\ block' \in Blocks
    /\ Len(block'.wds) <= MaxWithdrawals /\ Len(block'.txs) <= MaxTxs
    /\ IsInjective(block'.deps)
    /\ ToSet(block'.deps) \cap ChainDeposits = {}
    /\ LET r == Apply(StateAt(Len(chain)), block') IN
           /\ r.ok
           /\ \A a \in Accounts : state'[a].nonce = r.st[a].nonce
                                  /\ state'[a].balance = r.st[a].balance
    /\ UNCHANGED chain

Revert ==
    /\ \E k \in 0..Len(chain) - 1 : chain' = SubSeq(chain, 1, k)
    /\ UNCHANGED <<tip, block, state>>

Next == Admit \/ Produce \/ Rebase \/ Revert

Spec == Init /\ [][Next]_avars

=============================================================================
