---------------------------- MODULE StableStore ----------------------------
(***************************************************************************)
(* What a file server promises about the blocks of a file: a write         *)
(* promised stable is not lost, whatever is lost in a power failure.       *)
(* Contents are version numbers: a later write has a greater one.          *)
(***************************************************************************)
EXTENDS Integers

CONSTANT Block

VARIABLES
    contents,   \* what a READ of each block returns
    promised    \* the newest version of each block that was promised stable

storeVars == <<contents, promised>>

StoreInit ==
    /\ contents = [b \in Block |-> 0]
    /\ promised = [b \in Block |-> 0]

StoreWrite ==
    /\ \E b \in Block :
          /\ contents'[b] > contents[b]
          /\ contents' = [contents EXCEPT ![b] = contents'[b]]
    /\ UNCHANGED promised

StorePromise ==
    /\ \E b \in Block :
          /\ promised'[b] >= promised[b]
          /\ promised'[b] <= contents[b]
          /\ promised' = [promised EXCEPT ![b] = promised'[b]]
    /\ UNCHANGED contents

\* A power failure takes blocks back, but not behind a promise.
StoreLoss ==
    /\ contents' = [b \in Block |-> contents'[b]]
    /\ \A b \in Block : promised[b] <= contents'[b] /\ contents'[b] <= contents[b]
    /\ UNCHANGED promised

StoreNext == StoreWrite \/ StorePromise \/ StoreLoss

StoreSpec == StoreInit /\ [][StoreNext]_storeVars
=============================================================================
