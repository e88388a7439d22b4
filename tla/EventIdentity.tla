---------------------------- MODULE EventIdentity ----------------------------
(***************************************************************************)
(* What identifies an event (crates/domain/src/event.rs): the canonical key *)
(* of its identity, whose SHA-256 is the event_id that the unique           *)
(* constraint of table events is on.  The hash is taken to be injective, so *)
(* the key stands for the event_id.                                         *)
(*                                                                          *)
(* A text is a sequence of tokens, a key a sequence of the tokens it        *)
(* consists of.  An absent Option is {}, a present one the set of its       *)
(* value.                                                                   *)
(***************************************************************************)
EXTENDS Integers, Sequences, SequencesExt

CONSTANT
    KeyTexts    \* texts a replay file holds in its free fields

ASSUME IdentityAssumption == KeyTexts \subseteq Seq(STRING) /\ IsFiniteSet(KeyTexts)

-----------------------------------------------------------------------------
Special == {"\\", "|", "="}

\* Mutant: the values go into the key as they are.
EscapeNothing(text) == text

\* escape_key_value
Escape(text) ==
    FlattenSeq([i \in DOMAIN text |->
        IF text[i] \in Special THEN <<"\\", text[i]>> ELSE <<text[i]>>])

\* encode_optional
EncodeOptional(option) ==
    IF option = {} THEN <<"none">>
    ELSE <<"some:">> \o Escape(CHOOSE text \in option : TRUE)

\* The optional index of an inner instruction.
EncodeIndex(option) ==
    IF option = {} THEN <<"<none>">> ELSE <<ToString(CHOOSE n \in option : TRUE)>>

Field(name, value) == <<"|", name, "=">> \o value

Number(name, n) == Field(name, <<ToString(n)>>)

\* canonical_key
CanonicalKey(id) ==
    Field("kind", <<id.kind>>) \o Field("cluster", Escape(id.cluster))
    \o Number("slot", id.slot) \o
    CASE id.kind = "account" ->
           Field("account", Escape(id.account))
           \o Number("write_version", id.write_version)
           \o Field("txn_signature", EncodeOptional(id.txn_signature))
           \o Number("is_startup", id.is_startup)
      [] id.kind = "block" -> Field("blockhash", Escape(id.blockhash))
      [] id.kind = "entry" -> Number("index", id.index)
      [] id.kind = "instruction" ->
           Field("signature", Escape(id.signature))
           \o Number("transaction_index", id.transaction_index)
           \o Number("instruction_index", id.instruction_index)
           \o Field("inner_instruction_index", EncodeIndex(id.inner_instruction_index))
           \o Field("program_id", Escape(id.program_id))
      [] id.kind = "slot" -> Field("status", <<id.status>>)
      [] id.kind = "transaction" ->
           Field("signature", Escape(id.signature)) \o Number("index", id.index)

(***************************************************************************)
(* What format! makes of a number or a boolean: one word, that no other     *)
(* number or boolean becomes.                                               *)
(***************************************************************************)
DecimalTexts(numbers) ==
    /\ \A n \in numbers : ToString(n) \in STRING \ {"<none>"}
    /\ \A m, n \in numbers : ToString(m) = ToString(n) => m = n
    /\ ToString(TRUE) \in STRING /\ ToString(FALSE) \in STRING
    /\ ToString(TRUE) # ToString(FALSE)

-----------------------------------------------------------------------------
Account(cluster, slot, account, version, signature, startup) ==
    [kind |-> "account", cluster |-> cluster, slot |-> slot, account |-> account,
     write_version |-> version, txn_signature |-> signature, is_startup |-> startup]

Block(cluster, slot, hash) ==
    [kind |-> "block", cluster |-> cluster, slot |-> slot, blockhash |-> hash]

Entry(cluster, slot, index) ==
    [kind |-> "entry", cluster |-> cluster, slot |-> slot, index |-> index]

Instruction(cluster, slot, signature, index, at, inner, program) ==
    [kind |-> "instruction", cluster |-> cluster, slot |-> slot,
     signature |-> signature, transaction_index |-> index,
     instruction_index |-> at, inner_instruction_index |-> inner,
     program_id |-> program]

Slot(cluster, slot, status) ==
    [kind |-> "slot", cluster |-> cluster, slot |-> slot, status |-> status]

Transaction(cluster, slot, signature, index) ==
    [kind |-> "transaction", cluster |-> cluster, slot |-> slot,
     signature |-> signature, index |-> index]

-----------------------------------------------------------------------------
\* validate_non_empty: something is left of the text when it is trimmed.
NonEmpty(text) == \E i \in DOMAIN text : text[i] # " "

\* The texts of an identity that must not be empty.
RequiredTexts(id) ==
    {id.cluster} \cup
    CASE id.kind = "account" -> {id.account} \cup id.txn_signature
      [] id.kind = "block" -> {id.blockhash}
      [] id.kind = "instruction" -> {id.signature, id.program_id}
      [] id.kind = "transaction" -> {id.signature}
      [] OTHER -> {}

\* validate
Valid(id) == \A text \in RequiredTexts(id) : NonEmpty(text)

\* The identities the free texts make.
Identities ==
    {Account(c, 1, <<"a">>, 1, s, TRUE) : c \in KeyTexts, s \in {{}} \cup {{t} : t \in KeyTexts}}
    \cup {Block(c, 1, t) : c, t \in KeyTexts}
    \cup {Transaction(c, 1, t, n) : c, t \in KeyTexts, n \in 0..1}
    \cup {Instruction(<<"a">>, 1, s, 0, 0, inner, p) :
            s, p \in KeyTexts, inner \in {{}, {0}, {1}}}

\* parse_normalized_event lets the valid ones through; their keys.
KeyIdentities == {id \in Identities : Valid(id)}

Keys == {CanonicalKey(id) : id \in KeyIdentities}
=============================================================================
