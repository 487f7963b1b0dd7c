--------------------------- MODULE MCChainMonitor ---------------------------
(* Instances of ChainMonitor: two managed validators and a third one, and   *)
(* chains of a few blocks through up to three epochs.                       *)
EXTENDS ChainMonitor

CONSTANTS v1, v2, x

TwoManaged == {v1, v2}
ThreeEpochs == <<{v1, x}, {v2, x}, {v1, v2, x}>>
TwoMonths == 1 .. 2

B(n, e, p, s) == [nonce |-> n, epoch |-> e, producer |-> p, signers |-> s]

\* One block an epoch, and a number is skipped.
Quick == <<B(1, 1, v1, {v1, x}), B(3, 2, x, {v2})>>

\* An epoch begins with a block without consensus data, and a validator that
\* stays elected misses a block.
Late == <<B(1, 2, v2, {v2, x}), B(2, 3, x, {}), B(3, 3, x, {v1, x})>>

SomeChains == {Quick, Late}
=============================================================================
