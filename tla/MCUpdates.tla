------------------------------ MODULE MCUpdates ------------------------------
(***************************************************************************)
(* A provider's updates for one slot.  Of the transactions, one has an      *)
(* inner instruction of the program that also runs at top level, one names  *)
(* an account key there is none of, one has more instructions than an index *)
(* can count, one comes without its message; an update is empty, one is a   *)
(* ping, one is a block with a blank hash, and one is a slot status the     *)
(* service does not know.                                                   *)
(*                                                                          *)
(* The texts of the keys: all of up to two characters over the special ones *)
(* and a letter, a blank one, and two that imitate the fields of a          *)
(* transaction's key.                                                       *)
(***************************************************************************)
EXTENDS YellowstoneUpdates

MCCluster == <<"a", "|", "b">>

Tx(signature, instructions, inner) ==
    [kind |-> "transaction", slot |-> 1, signature |-> signature, index |-> 0,
     keys |-> <<<<"p">>>>, writable |-> <<<<"w">>>>, readonly |-> <<>>,
     hasMessage |-> TRUE, instructions |-> instructions, inner |-> inner]

MCUpdateLog ==
    <<Tx(<<"s">>, <<0, 1>>, <<[index |-> 0, instructions |-> <<0>>]>>),
      Tx(<<"t">>, <<0, 2>>, <<>>),
      [kind |-> "missing"],
      [kind |-> "block", slot |-> 1, blockhash |-> <<" ">>],
      [kind |-> "account", slot |-> 1, account |-> <<"s">>, write_version |-> 1,
       txn_signature |-> {}, is_startup |-> FALSE],
      Tx(<<"u">>, <<0, 0, 0>>, <<>>),
      [kind |-> "ignored"],
      [Tx(<<"v">>, <<>>, <<[index |-> 0, instructions |-> <<0>>]>>) EXCEPT !.hasMessage = FALSE],
      [kind |-> "slot", slot |-> 1, status |-> "first_shred_received"],
      [kind |-> "entry", slot |-> 1, index |-> 0],
      [kind |-> "slot", slot |-> 1, status |-> "finalized"]>>

ASSUME ProviderLog

ASSUME DecimalTexts(0..20)

Character == {"a", "\\", "|", "="}

Imitation(c, s) == <<c, "|", "slot", "=", "1", "|", "signature", "=", s>>

MCKeyTexts ==
    {<<>>} \cup {<<x>> : x \in Character} \cup {<<x, y>> : x, y \in Character}
    \cup {<<" ">>, Imitation("a", "a"), Imitation("|", "a")}
=============================================================================
