---------------------------- MODULE RewardWallet ----------------------------
(***************************************************************************)
(* What the chip counter promises, whatever the order of cleanups, credits *)
(* and collections: one chip for every CoinBytes of credited space, with   *)
(* smaller amounts carried forward, and each chip collected once.          *)
(* (README "The chips"; store.rs Wallet, collect; accounting.rs allocate.) *)
(***************************************************************************)
EXTENDS Integers

CONSTANT CoinBytes   \* accounting.rs COIN_BYTES, at least 1

VARIABLES credited,  \* every byte ever credited
          collected  \* the chips the user has collected

Earned == credited \div CoinBytes

Init == credited = 0 /\ collected = 0

\* A finished permanent cleanup adds what its bounds support.
Credit ==
    /\ credited' \in Nat /\ credited' > credited
    /\ UNCHANGED collected

\* Every chip earned so far and not yet collected is collected at once.
Collect ==
    /\ collected < Earned
    /\ collected' = Earned
    /\ UNCHANGED credited

Next == Credit \/ Collect
Spec == Init /\ [][Next]_<<credited, collected>>

=============================================================================
