------------------------------ MODULE MC_Reorg ------------------------------
(***************************************************************************)
(* A block store with three branches off block A1 and the genesis block:  *)
(*                                                                         *)
(*   G(0) - A1(1) - A2(2) - A3(3)                                          *)
(*              \- B2(2) - B3(3) - B4(4)                                   *)
(*      \- C1(1) - C2(2) - C3(3)                                           *)
(*                                                                         *)
(* Some content is carried by both branches (t2, t3, w2), so the walk must *)
(* subtract it; every (old tip, new tip) pair is an initial state.         *)
(***************************************************************************)
EXTENDS Reorg

CONSTANTS G, A1, A2, A3, B2, B3, B4, C1, C2, C3,
          t1, t2, t3, t4, t5, t6, t7,
          w1, w2, w3, w4, w5, w6

MCBlocks == {G, A1, A2, A3, B2, B3, B4, C1, C2, C3}

MCParent == [b \in MCBlocks |->
    CASE b = G  -> NoBlock
      [] b = A1 -> G  [] b = A2 -> A1 [] b = A3 -> A2
      [] b = B2 -> A1 [] b = B3 -> B2 [] b = B4 -> B3
      [] b = C1 -> G  [] b = C2 -> C1 [] b = C3 -> C2]

MCNumber == [b \in MCBlocks |->
    CASE b = G -> 0
      [] b \in {A1, C1} -> 1
      [] b \in {A2, B2, C2} -> 2
      [] b \in {A3, B3, C3} -> 3
      [] b = B4 -> 4]

MCBlockTxs == [b \in MCBlocks |->
    CASE b = A1 -> <<t1>>
      [] b = A2 -> <<t2, t3>>
      [] b = A3 -> <<t4>>
      [] b = B2 -> <<t3>>
      [] b = B3 -> <<t5>>
      [] b = B4 -> <<t2>>
      [] b = C1 -> <<t6>>
      [] b = C3 -> <<t7>>
      [] OTHER  -> <<>>]

MCBlockWds == [b \in MCBlocks |->
    CASE b = A1 -> <<w5>>
      [] b = A2 -> <<w1>>
      [] b = A3 -> <<w2>>
      [] b = B3 -> <<w2>>
      [] b = B4 -> <<w3>>
      [] b = C1 -> <<w4>>
      [] b = C2 -> <<w6>>
      [] OTHER  -> <<>>]

=============================================================================
