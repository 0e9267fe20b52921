---------------------------- MODULE NonceLedger ----------------------------
(***************************************************************************)
(* What the nonce machinery of GRPO-Guard promises, without any process,   *)
(* log or checkpoint: a nonce is burnt once, and a burnt nonce feeds at    *)
(* most one optimizer step.  GuardedStep implements this ledger.           *)
(***************************************************************************)
EXTENDS Naturals

CONSTANT Nonce

VARIABLES
  burnt,   \* nonces some caller has consumed
  uses     \* uses[n]: how many optimizer steps nonce n has fed

ledgerVars == <<burnt, uses>>

LedgerInit ==
  /\ burnt = {}
  /\ uses = [n \in Nonce |-> 0]

Burn(n) ==
  /\ n \notin burnt
  /\ burnt' = burnt \cup {n}
  /\ UNCHANGED uses

\* One optimizer step takes a non-empty set of burnt, unspent nonces.
Spend(S) ==
  /\ S # {}
  /\ S \subseteq burnt
  /\ \A n \in S : uses[n] = 0
  /\ uses' = [n \in Nonce |-> IF n \in S THEN 1 ELSE uses[n]]
  /\ UNCHANGED burnt

LedgerNext ==
  \/ \E n \in Nonce : Burn(n)
  \/ \E S \in SUBSET Nonce : Spend(S)

LedgerSpec == LedgerInit /\ [][LedgerNext]_ledgerVars
=============================================================================
