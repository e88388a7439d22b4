----------------------------- MODULE SwapDecoding -----------------------------
(***************************************************************************)
(* What crates/domain/src/decoded.rs makes of the payload of a transaction  *)
(* and crates/storage/src/swaps.rs of the swap: the changes of the token    *)
(* balances, the two legs of a swap, the row of table swaps.                *)
(*                                                                          *)
(* A payload is {} when it has no token_balances array and {balances} when  *)
(* it has.  An entry is a record [mint, pre, post]; its account takes no    *)
(* part in what is inferred.  A mint that is missing is read as "".  Token  *)
(* amounts are not negative, so pre - post never overflows.                 *)
(***************************************************************************)
EXTENDS Integers, Sequences, FiniteSets

CONSTANTS
    MaxAmount,      \* i64::MAX, for as_i64 and for the BIGINT columns
    MaxSlotColumn   \* the same for the slot

ASSUME DecodingAssumption == MaxAmount \in Nat /\ MaxSlotColumn \in Nat

-----------------------------------------------------------------------------
\* Value::as_i64 of a field is Some: it is there, a number and not too large.
IsAmount(value) == value \in 0..MaxAmount

\* TokenBalanceDelta::delta: positive where tokens were lost.
Delta(entry) == entry.pre - entry.post

Changed(balances) == {i \in DOMAIN balances : Delta(balances[i]) # 0}

\* Sender and receiver, wherever they stand in the array.
Legs(balances) ==
    {leg \in Changed(balances) \X Changed(balances) :
        Delta(balances[leg[1]]) > 0 /\ Delta(balances[leg[2]]) < 0}

\* Mutant: any number of accounts may change, as long as two of them oppose.
DecodeErrorManyLegs(payload) ==
    CASE payload = {} -> "missing_token_balances"
      [] \E balances \in payload : \E i \in DOMAIN balances :
            ~IsAmount(balances[i].pre) \/ ~IsAmount(balances[i].post) -> "invalid_token_balance"
      [] \E balances \in payload :
            \/ Legs(balances) = {}
            \/ \E leg \in Legs(balances) : balances[leg[1]].mint = balances[leg[2]].mint
         -> "ambiguous_swap"
      [] OTHER -> "none"

\* extract_token_balance_deltas, then infer_swap_from_balance_deltas.
DecodeError(payload) ==
    CASE payload = {} -> "missing_token_balances"
      [] \E balances \in payload : \E i \in DOMAIN balances :
            ~IsAmount(balances[i].pre) \/ ~IsAmount(balances[i].post) -> "invalid_token_balance"
      [] \E balances \in payload :
            \/ Cardinality(Changed(balances)) # 2
            \/ Legs(balances) = {}
            \/ \E leg \in Legs(balances) : balances[leg[1]].mint = balances[leg[2]].mint
         -> "ambiguous_swap"
      [] OTHER -> "none"

\* i64::try_from(value).unwrap_or(-1)
Column(value, max) == IF value <= max THEN value ELSE -1

\* The row write_swaps inserts for the swap inferred from the balances.
SwapRow(slot, signature, program, balances) ==
    LET leg == CHOOSE leg \in Legs(balances) : TRUE
        sender == balances[leg[1]]
        receiver == balances[leg[2]]
    IN  [slot |-> Column(slot, MaxSlotColumn), signature |-> signature, program |-> program,
         tokenIn |-> sender.mint, amountIn |-> Column(Delta(sender), MaxAmount),
         tokenOut |-> receiver.mint, amountOut |-> Column(-Delta(receiver), MaxAmount)]
=============================================================================
