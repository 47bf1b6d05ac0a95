-------------------------- MODULE MCAccountStore --------------------------
EXTENDS AccountStore, TLC

Fresh(A) == [a \in A |-> [nickname |-> NoName, paid |-> {}, owned |-> {}]]

\* The demo seed: nobody has bought anything yet.
MCSeeds == {Fresh(Accounts)}

\* And one without accounts.
MCTwoSeeds == {Fresh(Accounts), Fresh({})}

MCSymmetry == Permutations(Sessions)
=============================================================================
