---------------------- MODULE YellowstoneUpdatesProofs ----------------------
(***************************************************************************)
(* The producer and the receiver behind it, for every log of updates: each  *)
(* event that is held, sent or stored comes from an update that was         *)
(* accepted, and no two of them share a key. While the pipeline works, what *)
(* is stored and what is on its way are together the events of whole        *)
(* updates (WholeInv), and from the table over the batch and the channel to *)
(* the producer's hand each event comes after the ones before it in its     *)
(* update (OrderInv), so that what a pipeline that stops leaves of a        *)
(* transaction is a beginning of it.                                        *)
(***************************************************************************)
EXTENDS YellowstoneUpdates, EventIdentityProofs

-----------------------------------------------------------------------------
(***************************************************************************)
(* What an update becomes: the events of its instructions, of the           *)
(* transaction itself and of the other kinds are events, and each belongs   *)
(* to the row of its transaction.                                           *)
(***************************************************************************)

\* The instruction, and its event, at a place of a transaction.
InstructionAt(u, c) ==
    IF Len(c) = 1
    THEN [at |-> c[1] - 1, inner |-> {}, program |-> u.instructions[c[1]]]
    ELSE [at |-> u.inner[c[1]].index, inner |-> {c[2] - 1},
          program |-> u.inner[c[1]].instructions[c[2]]]

EventAt(u, c) ==
    LET i == InstructionAt(u, c)
    IN  Instruction(Cluster, u.slot, u.signature, u.index, i.at, i.inner,
                    AccountKeys(u)[i.program + 1])

AnInstruction == [at : Nat, inner : SUBSET Nat, program : Nat]

Outer(u) == {<<i>> : i \in DOMAIN u.instructions}
Nested(u) == UNION {{<<g, j>> : j \in DOMAIN u.inner[g].instructions} : g \in DOMAIN u.inner}

LEMMA TransactionTypes ==
    ASSUME NEW n \in Transactions, NEW u, u = Updates[n]
    PROVE  /\ u.kind = "transaction" /\ u.hasMessage \in BOOLEAN /\ u.instructions \in Seq(Nat)
           /\ u.inner \in Seq([index : Nat, instructions : Seq(Nat)])
           /\ \A g \in DOMAIN u.inner : /\ u.inner[g].index \in Nat
                                        /\ u.inner[g].instructions \in Seq(Nat)
<1>1. /\ u.kind = "transaction" /\ u.hasMessage \in BOOLEAN /\ u.instructions \in Seq(Nat)
      /\ u.inner \in Seq([index : Nat, instructions : Seq(Nat)])
  BY UpdatesAssumption DEF Transactions
<1>2. ASSUME NEW g \in DOMAIN u.inner
      PROVE  u.inner[g].index \in Nat /\ u.inner[g].instructions \in Seq(Nat)
  <2>1. PICK R : R = [index : Nat, instructions : Seq(Nat)]
    OBVIOUS
  <2>2. u.inner \in Seq(R)
    BY <1>1, <2>1
  <2>3. u.inner[g] \in R
    BY <2>2
  <2> QED BY <2>1, <2>3
<1> QED BY <1>1, <1>2

\* The instructions of a transaction are those at its coordinates.
LEMMA InstructionFacts ==
    ASSUME NEW n \in Transactions, NEW u, u = Updates[n]
    PROVE  /\ Instructions(u) \in Seq(AnInstruction)
           /\ ToSet(Instructions(u)) = {InstructionAt(u, c) : c \in Coordinates(u)}
<1>1. /\ u.hasMessage \in BOOLEAN /\ u.instructions \in Seq(Nat)
      /\ u.inner \in Seq([index : Nat, instructions : Seq(Nat)])
      /\ \A g \in DOMAIN u.inner : /\ u.inner[g].index \in Nat
                                   /\ u.inner[g].instructions \in Seq(Nat)
  BY TransactionTypes
<1>2. CASE ~u.hasMessage
  <2>1. Instructions(u) = <<>> /\ Coordinates(u) = {}
    BY <1>2 DEF Instructions, Coordinates
  <2> QED BY <2>1 DEF ToSet
<1>3. CASE u.hasMessage
  <2> DEFINE groups == [g \in DOMAIN u.inner |-> Inner(u.inner[g])]
  <2>1. /\ TopLevel(u) \in Seq(AnInstruction)
        /\ ToSet(TopLevel(u)) = {InstructionAt(u, c) : c \in Outer(u)}
    <3>1. DOMAIN u.instructions = 1..Len(u.instructions) /\ Len(u.instructions) \in Nat
          /\ \A i \in DOMAIN u.instructions : u.instructions[i] \in Nat
      BY <1>1
    <3>2. ASSUME NEW i \in DOMAIN u.instructions
          PROVE  /\ TopLevel(u)[i] \in AnInstruction
                 /\ TopLevel(u)[i] = InstructionAt(u, <<i>>)
      <4>1. TopLevel(u)[i] = [at |-> i - 1, inner |-> {}, program |-> u.instructions[i]]
        BY DEF TopLevel
      <4>2. i - 1 \in Nat
        BY <3>1
      <4>3. Len(<<i>>) = 1 /\ <<i>>[1] = i
        OBVIOUS
      <4> QED BY <3>1, <4>1, <4>2, <4>3 DEF AnInstruction, InstructionAt
    <3>3. DOMAIN TopLevel(u) = 1..Len(u.instructions)
      BY <3>1 DEF TopLevel
    <3>4. TopLevel(u) \in Seq(AnInstruction)
      <4>1. TopLevel(u) \in [1..Len(u.instructions) -> AnInstruction]
        BY <3>1, <3>2, <3>3 DEF TopLevel
      <4> QED BY <3>1, <4>1
    <3>5. ToSet(TopLevel(u)) = {InstructionAt(u, <<i>>) : i \in DOMAIN u.instructions}
      BY <3>1, <3>2, <3>3 DEF ToSet
    <3> QED BY <3>4, <3>5 DEF Outer
  <2>2. ASSUME NEW g \in DOMAIN u.inner
        PROVE  /\ Inner(u.inner[g]) \in Seq(AnInstruction)
               /\ ToSet(Inner(u.inner[g])) =
                    {InstructionAt(u, <<g, j>>) : j \in DOMAIN u.inner[g].instructions}
    <3> DEFINE group == u.inner[g]
    <3>1. /\ DOMAIN group.instructions = 1..Len(group.instructions)
          /\ Len(group.instructions) \in Nat /\ group.index \in Nat
          /\ \A j \in DOMAIN group.instructions : group.instructions[j] \in Nat
      <4>1. group.instructions \in Seq(Nat) /\ group.index \in Nat
        BY <1>1
      <4> HIDE DEF group
      <4> QED BY <4>1
    <3>2. ASSUME NEW j \in DOMAIN group.instructions
          PROVE  /\ Inner(group)[j] \in AnInstruction
                 /\ Inner(group)[j] = InstructionAt(u, <<g, j>>)
      <4>1. Inner(group)[j] =
              [at |-> group.index, inner |-> {j - 1}, program |-> group.instructions[j]]
        BY DEF Inner
      <4>2. j - 1 \in Nat
        BY <3>1
      <4>3. Len(<<g, j>>) = 2 /\ <<g, j>>[1] = g /\ <<g, j>>[2] = j
        OBVIOUS
      <4> QED BY <3>1, <4>1, <4>2, <4>3 DEF AnInstruction, InstructionAt
    <3>3. DOMAIN Inner(group) = 1..Len(group.instructions)
      BY <3>1 DEF Inner
    <3>4. Inner(group) \in Seq(AnInstruction)
      <4>1. Inner(group) \in [1..Len(group.instructions) -> AnInstruction]
        BY <3>1, <3>2, <3>3 DEF Inner
      <4> QED BY <3>1, <4>1
    <3>5. ToSet(Inner(group)) = {InstructionAt(u, <<g, j>>) : j \in DOMAIN group.instructions}
      BY <3>1, <3>2, <3>3 DEF ToSet
    <3> QED BY <3>4, <3>5
  <2>3. groups \in Seq(Seq(AnInstruction)) /\ DOMAIN groups = DOMAIN u.inner
    <3>1. DOMAIN u.inner = 1..Len(u.inner) /\ Len(u.inner) \in Nat
      BY <1>1
    <3>2. groups \in [1..Len(u.inner) -> Seq(AnInstruction)]
      BY <2>2, <3>1
    <3> QED BY <3>1, <3>2
  <2>4. /\ FlattenSeq(groups) \in Seq(AnInstruction)
        /\ ToSet(FlattenSeq(groups)) = UNION {ToSet(groups[g]) : g \in DOMAIN groups}
    <3> HIDE DEF groups
    <3> QED BY <2>3, FlattenFacts
  <2>5. UNION {ToSet(groups[g]) : g \in DOMAIN groups} = {InstructionAt(u, c) : c \in Nested(u)}
    <3>1. \A g \in DOMAIN groups :
             ToSet(groups[g]) = {InstructionAt(u, <<g, j>>) : j \in DOMAIN u.inner[g].instructions}
      BY <2>2, <2>3
    <3> HIDE DEF groups
    <3>2. ASSUME NEW c \in Nested(u)
          PROVE  InstructionAt(u, c) \in UNION {ToSet(groups[g]) : g \in DOMAIN groups}
      <4>1. PICK g \in DOMAIN u.inner : \E j \in DOMAIN u.inner[g].instructions : c = <<g, j>>
        BY DEF Nested
      <4>2. PICK j \in DOMAIN u.inner[g].instructions : c = <<g, j>>
        BY <4>1
      <4>3. g \in DOMAIN groups /\ InstructionAt(u, c) \in ToSet(groups[g])
        BY <2>3, <3>1, <4>2
      <4> QED BY <4>3
    <3>3. ASSUME NEW g \in DOMAIN groups, NEW x \in ToSet(groups[g])
          PROVE  x \in {InstructionAt(u, c) : c \in Nested(u)}
      <4>1. PICK j \in DOMAIN u.inner[g].instructions : x = InstructionAt(u, <<g, j>>)
        BY <3>1
      <4>2. <<g, j>> \in Nested(u)
        BY <2>3 DEF Nested
      <4> QED BY <4>1, <4>2
    <3> QED BY <3>2, <3>3
  <2>6. Instructions(u) = TopLevel(u) \o FlattenSeq(groups)
    BY <1>3 DEF Instructions
  <2>7. Coordinates(u) = Outer(u) \cup Nested(u)
    BY <1>3 DEF Coordinates, Outer, Nested
  <2> HIDE DEF groups
  <2>8. ToSet(Instructions(u)) = ToSet(TopLevel(u)) \cup ToSet(FlattenSeq(groups))
        /\ Instructions(u) \in Seq(AnInstruction)
    BY <2>1, <2>4, <2>6, AppendedSets
  <2> QED BY <2>1, <2>4, <2>5, <2>7, <2>8
<1> QED BY <1>1, <1>2, <1>3

TransactionRow(u) == Transaction(Cluster, u.slot, u.signature, u.index)
RowsFor(u) == {TransactionRow(u)} \cup {EventAt(u, c) : c \in Coordinates(u)}

\* A transaction becomes an event of its own and one for each coordinate.
LEMMA TransactionEventFacts ==
    ASSUME NEW n \in Transactions, NEW u, u = Updates[n]
    PROVE  /\ \E E : TransactionEvents(u) \in Seq(E)
           /\ ToSet(TransactionEvents(u)) = RowsFor(u)
<1> DEFINE event(x) == Instruction(Cluster, u.slot, u.signature, u.index, x.at, x.inner,
                                   AccountKeys(u)[x.program + 1])
           instructions == Instructions(u)
           events == [i \in DOMAIN instructions |-> event(instructions[i])]
           E == {TransactionRow(u)} \cup {event(x) : x \in ToSet(instructions)}
<1>1. /\ instructions \in Seq(AnInstruction)
      /\ ToSet(instructions) = {InstructionAt(u, c) : c \in Coordinates(u)}
  BY InstructionFacts
<1>2. TransactionEvents(u) = <<TransactionRow(u)>> \o events
  BY DEF TransactionEvents, TransactionRow
<1>3. \A c : event(InstructionAt(u, c)) = EventAt(u, c)
  BY DEF EventAt
<1> HIDE DEF instructions, event
<1>4. DOMAIN instructions = 1..Len(instructions) /\ Len(instructions) \in Nat
  BY <1>1
<1>5. events \in Seq(E) /\ ToSet(events) = {event(x) : x \in ToSet(instructions)}
  <2>1. \A i \in DOMAIN instructions : event(instructions[i]) \in E
    BY DEF ToSet
  <2>2. events \in [1..Len(instructions) -> E]
    <3> HIDE DEF E
    <3> QED BY <1>4, <2>1
  <2>3. events \in Seq(E)
    <3> HIDE DEF E, events
    <3> QED BY <1>4, <2>2
  <2> QED BY <2>3 DEF ToSet
<1>6. <<TransactionRow(u)>> \in Seq(E) /\ ToSet(<<TransactionRow(u)>>) = {TransactionRow(u)}
  <2>1. PICK r : r = TransactionRow(u)
    OBVIOUS
  <2>2. r \in E
    BY <2>1
  <2> HIDE DEF E
  <2>3. <<r>> \in Seq(E) /\ DOMAIN <<r>> = {1} /\ <<r>>[1] = r
    BY <2>2
  <2> QED BY <2>1, <2>3 DEF ToSet
<1> HIDE DEF E, events
<1>7. <<TransactionRow(u)>> \o events \in Seq(E)
      /\ ToSet(<<TransactionRow(u)>> \o events) = {TransactionRow(u)} \cup ToSet(events)
  <2>1. PICK first : first = <<TransactionRow(u)>>
    OBVIOUS
  <2>2. first \in Seq(E) /\ events \in Seq(E) /\ ToSet(first) = {TransactionRow(u)}
    BY <1>5, <1>6, <2>1
  <2>3. first \o events \in Seq(E)
    BY <2>2
  <2>4. ToSet(first \o events) = ToSet(first) \cup ToSet(events)
    BY <2>2, AppendedSets
  <2> QED BY <2>1, <2>2, <2>3, <2>4
<1>8. {event(x) : x \in ToSet(instructions)} = {EventAt(u, c) : c \in Coordinates(u)}
  BY <1>1, <1>3
<1> QED BY <1>2, <1>5, <1>7, <1>8 DEF RowsFor

\* What the other updates become.
LEMMA OtherEventFacts ==
    ASSUME NEW u, u.kind # "transaction"
    PROVE  \/ Events(u) = <<>>
           \/ \E x : Events(u) = <<x>> /\ x.kind \notin {"transaction", "instruction"}
<1>1. CASE u.kind = "account"
  <2> DEFINE x == Account(Cluster, u.slot, u.account, u.write_version, u.txn_signature,
                          u.is_startup)
  <2>1. x.kind \notin {"transaction", "instruction"}
    BY DEF Account
  <2> HIDE DEF x
  <2>2. Events(u) = <<x>>
    BY <1>1, Zenon DEF Events, x
  <2> QED BY <2>1, <2>2
<1>2. CASE u.kind = "slot"
  <2> DEFINE x == Slot(Cluster, u.slot, u.status)
  <2>1. x.kind \notin {"transaction", "instruction"}
    BY DEF Slot
  <2> HIDE DEF x
  <2>2. Events(u) = <<x>>
    BY <1>2, Zenon DEF Events, x
  <2> QED BY <2>1, <2>2
<1>3. CASE u.kind = "block"
  <2> DEFINE x == Block(Cluster, u.slot, u.blockhash)
  <2>1. x.kind \notin {"transaction", "instruction"}
    BY DEF Block
  <2> HIDE DEF x
  <2>2. Events(u) = <<x>>
    BY <1>3, Zenon DEF Events, x
  <2> QED BY <2>1, <2>2
<1>4. CASE u.kind = "entry"
  <2> DEFINE x == Entry(Cluster, u.slot, u.index)
  <2>1. x.kind \notin {"transaction", "instruction"}
    BY DEF Entry
  <2> HIDE DEF x
  <2>2. Events(u) = <<x>>
    BY <1>4, Zenon DEF Events, x
  <2> QED BY <2>1, <2>2
<1>5. CASE u.kind \notin {"account", "slot", "block", "entry"}
  <2>1. Events(u) = <<>>
    BY <1>5, Zenon DEF Events
  <2> QED BY <2>1
<1> QED BY <1>1, <1>2, <1>3, <1>4, <1>5

\* An accepted update becomes events of its kind.
LEMMA AcceptedFacts ==
    ASSUME NEW i \in Accepted
    PROVE  /\ EventsOf[i] \in Seq(AcceptedEvents)
           /\ i \in Transactions => EventsOf[i] = TransactionEvents(Updates[i])
           /\ i \notin Transactions =>
                /\ Len(EventsOf[i]) <= 1
                /\ \A x \in ToSet(EventsOf[i]) : x.kind \notin {"transaction", "instruction"}
<1> DEFINE u == Updates[i]
<1>1. EventsOf[i] = Events(u) /\ i \in DOMAIN Updates
  BY DEF EventsOf, Accepted
<1>2. i \in Transactions <=> u.kind = "transaction"
  BY <1>1 DEF Transactions
<1>3. ASSUME NEW E, EventsOf[i] \in Seq(E) PROVE EventsOf[i] \in Seq(AcceptedEvents)
  <2> DEFINE s == EventsOf[i]
  <2>1. \A k \in DOMAIN s : s[k] \in AcceptedEvents
    BY DEF AcceptedEvents, ToSet
  <2>2. s \in Seq(E)
    BY <1>3
  <2> HIDE DEF s
  <2>3. s \in Seq(AcceptedEvents)
    BY <2>1, <2>2
  <2> QED BY <2>3 DEF s
<1>4. CASE u.kind = "transaction"
  <2>1. Events(u) = TransactionEvents(u)
    BY <1>4, Zenon DEF Events
  <2>2. \E E : TransactionEvents(u) \in Seq(E)
    BY <1>2, <1>4, TransactionEventFacts
  <2> QED BY <1>1, <1>2, <1>3, <1>4, <2>1, <2>2
<1>5. CASE u.kind # "transaction"
  <2>1. CASE Events(u) = <<>>
    <3>1. Events(u) \in Seq({}) /\ ToSet(Events(u)) = {} /\ Len(Events(u)) <= 1
      BY <2>1 DEF ToSet
    <3> QED BY <1>1, <1>2, <1>3, <1>5, <3>1
  <2>2. ASSUME NEW x, Events(u) = <<x>>, x.kind \notin {"transaction", "instruction"}
        PROVE  /\ EventsOf[i] \in Seq(AcceptedEvents)
               /\ Len(EventsOf[i]) <= 1
               /\ \A y \in ToSet(EventsOf[i]) : y.kind \notin {"transaction", "instruction"}
    <3>1. <<x>> \in Seq({x}) /\ DOMAIN <<x>> = {1} /\ <<x>>[1] = x /\ Len(<<x>>) = 1
      OBVIOUS
    <3>2. Events(u) \in Seq({x}) /\ ToSet(Events(u)) = {x} /\ Len(Events(u)) <= 1
      BY <2>2, <3>1 DEF ToSet
    <3> QED BY <1>1, <1>3, <2>2, <3>2
  <2> QED BY <1>2, <1>5, <2>1, <2>2, OtherEventFacts
<1> QED BY <1>4, <1>5

(***************************************************************************)
(* ... and each is an identity with a key that can be read back.            *)
(***************************************************************************)
LEMMA OneEvent == ASSUME NEW x PROVE ToSet(<<x>>) = {x}
<1>1. DOMAIN <<x>> = {1} /\ <<x>>[1] = x
  OBVIOUS
<1> QED BY <1>1 DEF ToSet

LEMMA ClusterIsText == Cluster \in Text
BY UpdatesAssumption, TextsAreTokens DEF Text

\* An update that is not a transaction becomes an identity or nothing.
LEMMA OtherIdentities ==
    ASSUME NEW n \in Accepted \ Transactions
    PROVE  ToSet(EventsOf[n]) \subseteq AnIdentity
<1>1. PICK u : u = Updates[n]
  OBVIOUS
<1>2. EventsOf[n] = Events(u) /\ n \in DOMAIN Updates /\ WellFormed(u) /\ u.kind # "transaction"
  BY <1>1 DEF EventsOf, Accepted, Transactions
<1>3. CASE u.kind = "account"
  <2> DEFINE x == Account(Cluster, u.slot, u.account, u.write_version, u.txn_signature,
                          u.is_startup)
  <2>1. /\ u.slot \in Nat /\ u.account \in Seq(STRING) /\ u.write_version \in Nat
        /\ \A t \in u.txn_signature : t \in Seq(STRING) /\ u.txn_signature = {t}
        /\ u.is_startup \in BOOLEAN
    BY <1>1, <1>2, <1>3, UpdatesAssumption
  <2>2. u.txn_signature \in OptionalText
    BY <2>1, TextsAreTokens DEF OptionalText
  <2>3. u.account \in Text
    BY <2>1, TextsAreTokens DEF Text
  <2>4. x \in AnIdentity
    BY <2>1, <2>2, <2>3, ClusterIsText DEF Account, AnAccount, AnIdentity
  <2> HIDE DEF x
  <2>5. Events(u) = <<x>>
    BY <1>3, Zenon DEF Events, x
  <2> QED BY <1>2, <2>4, <2>5, OneEvent
<1>4. CASE u.kind = "slot"
  <2> DEFINE x == Slot(Cluster, u.slot, u.status)
  <2>1. u.slot \in Nat
    BY <1>1, <1>2, <1>4, UpdatesAssumption
  <2>2. u.status \in SlotStatus
    BY <1>2, <1>4, Zenon DEF WellFormed
  <2>3. u.status \in Tokens
    BY <2>2 DEF Tokens, SlotStatus
  <2>4. x \in AnIdentity
    BY <2>1, <2>3, ClusterIsText DEF Slot, ASlot, AnIdentity
  <2> HIDE DEF x
  <2>5. Events(u) = <<x>>
    BY <1>4, Zenon DEF Events, x
  <2> QED BY <1>2, <2>4, <2>5, OneEvent
<1>5. CASE u.kind = "block"
  <2> DEFINE x == Block(Cluster, u.slot, u.blockhash)
  <2>1. u.slot \in Nat /\ u.blockhash \in Seq(STRING)
    BY <1>1, <1>2, <1>5, UpdatesAssumption
  <2>2. u.blockhash \in Text
    BY <2>1, TextsAreTokens DEF Text
  <2>3. x \in AnIdentity
    BY <2>1, <2>2, ClusterIsText DEF Block, ABlock, AnIdentity
  <2> HIDE DEF x
  <2>4. Events(u) = <<x>>
    BY <1>5, Zenon DEF Events, x
  <2> QED BY <1>2, <2>3, <2>4, OneEvent
<1>6. CASE u.kind = "entry"
  <2> DEFINE x == Entry(Cluster, u.slot, u.index)
  <2>1. u.slot \in Nat /\ u.index \in Nat
    BY <1>1, <1>2, <1>6, UpdatesAssumption
  <2>2. x \in AnIdentity
    BY <2>1, ClusterIsText DEF Entry, AnEntry, AnIdentity
  <2> HIDE DEF x
  <2>3. Events(u) = <<x>>
    BY <1>6, Zenon DEF Events, x
  <2> QED BY <1>2, <2>2, <2>3, OneEvent
<1>7. CASE u.kind \notin {"account", "slot", "block", "entry"}
  <2>1. Events(u) = <<>>
    BY <1>2, <1>7, Zenon DEF Events
  <2> QED BY <1>2, <2>1 DEF ToSet
<1> QED BY <1>3, <1>4, <1>5, <1>6, <1>7

\* A transaction becomes identities, its instructions' programs resolved.
LEMMA TransactionIdentities ==
    ASSUME NEW n \in Accepted, n \in Transactions
    PROVE  ToSet(EventsOf[n]) \subseteq AnIdentity
<1>1. PICK u : u = Updates[n]
  OBVIOUS
<1>2. n \in DOMAIN Updates /\ WellFormed(u) /\ u.kind = "transaction"
  BY <1>1 DEF Accepted, Transactions
<1>3. ToSet(EventsOf[n]) = RowsFor(u)
  BY <1>1, AcceptedFacts, TransactionEventFacts
<1>4. /\ u.slot \in Nat /\ u.signature \in Seq(STRING) /\ u.index \in Nat
      /\ u.keys \in Seq(Seq(STRING)) /\ u.writable \in Seq(Seq(STRING))
      /\ u.readonly \in Seq(Seq(STRING))
  BY <1>1, <1>2, UpdatesAssumption
<1>5. AccountKeys(u) \in Seq(Seq(STRING))
  <2>1. PICK S : S = Seq(STRING)
    OBVIOUS
  <2>2. u.keys \o u.writable \o u.readonly \in Seq(S)
    BY <1>4, <2>1
  <2> QED BY <2>1, <2>2 DEF AccountKeys
<1>6. u.signature \in Text
  BY <1>4, TextsAreTokens DEF Text
<1>7. TransactionRow(u) \in AnIdentity
  BY <1>4, <1>6, ClusterIsText DEF TransactionRow, Transaction, ATransaction, AnIdentity
<1>8. ASSUME NEW c \in Coordinates(u) PROVE EventAt(u, c) \in AnIdentity
  <2>1. PICK x : x = InstructionAt(u, c)
    OBVIOUS
  <2>2. /\ Instructions(u) \in Seq(AnInstruction)
        /\ x \in ToSet(Instructions(u))
    BY <1>1, <2>1, InstructionFacts
  <2>3. PICK k \in DOMAIN Instructions(u) : x = Instructions(u)[k]
    BY <2>2 DEF ToSet
  <2>4. x \in AnInstruction
    BY <2>2, <2>3
  <2>5. Resolves(u, x)
    <3>1. \A k2 \in DOMAIN Instructions(u) : Resolves(u, Instructions(u)[k2])
      BY <1>2, Zenon DEF WellFormed
    <3> QED BY <2>3, <3>1
  <2>6. x.at \in Nat /\ x.inner \in SUBSET Nat /\ x.program \in Nat
    BY <2>4 DEF AnInstruction
  <2>7. x.inner \in OptionalIndex
    <3>1. x.inner = {} \/ \E v : x.inner = {v}
      BY <2>1 DEF InstructionAt
    <3> QED BY <2>6, <3>1 DEF OptionalIndex
  <2>8. AccountKeys(u)[x.program + 1] \in Text
    <3>1. x.program < Len(AccountKeys(u))
      BY <2>5 DEF Resolves
    <3>2. PICK S, s : S = Seq(STRING) /\ s = AccountKeys(u) /\ s \in Seq(S)
      BY <1>5
    <3>3. x.program + 1 \in 1..Len(s)
      BY <2>6, <3>1, <3>2
    <3>4. s[x.program + 1] \in S
      BY <3>2, <3>3
    <3> QED BY <3>2, <3>4, TextsAreTokens DEF Text
  <2>9. EventAt(u, c) = Instruction(Cluster, u.slot, u.signature, u.index, x.at, x.inner,
                                    AccountKeys(u)[x.program + 1])
    BY <2>1 DEF EventAt
  <2>10. PICK p \in Text : p = AccountKeys(u)[x.program + 1]
    BY <2>8
  <2>11. Instruction(Cluster, u.slot, u.signature, u.index, x.at, x.inner, p) \in AnInstructionId
    BY <1>4, <1>6, <2>6, <2>7, ClusterIsText DEF Instruction, AnInstructionId
  <2> QED BY <2>9, <2>10, <2>11 DEF AnIdentity
<1> QED BY <1>3, <1>7, <1>8 DEF RowsFor

LEMMA EventsAreIdentities == AcceptedEvents \subseteq AnIdentity
<1>1. ASSUME NEW n \in Accepted PROVE ToSet(EventsOf[n]) \subseteq AnIdentity
  BY OtherIdentities, TransactionIdentities
<1> QED BY <1>1 DEF AcceptedEvents

-----------------------------------------------------------------------------
\* The producer and the pipeline behind it hold events of accepted updates.
HandsInv ==
    /\ unsent \in Seq(AcceptedEvents)
    /\ channel \in Seq(AcceptedEvents)
    /\ pending \in Seq(AcceptedEvents)
    /\ rows \subseteq AcceptedEvents

LEMMA SuffixFacts ==
    ASSUME NEW S, NEW t \in Seq(S)
    PROVE  /\ IsSuffix(t, t)
           /\ \A s \in Seq(S) : s # <<>> /\ IsSuffix(s, t) => IsSuffix(Tail(s), t)
<1>1. ASSUME NEW s \in Seq(S)
      PROVE  /\ Len(s) \in Nat /\ DOMAIN s = 1..Len(s) /\ Len(Reverse(s)) = Len(s)
             /\ Reverse(s) \in Seq(S)
             /\ \A k \in 1..Len(s) : Reverse(s)[k] = s[(Len(s) - k) + 1]
  <2>1. Len(s) \in Nat /\ DOMAIN s = 1..Len(s) /\ \A k \in 1..Len(s) : s[k] \in S
    OBVIOUS
  <2>2. Reverse(s) = [k \in 1..Len(s) |-> s[(Len(s) - k) + 1]]
    BY DEF Reverse
  <2>3. Reverse(s) \in [1..Len(s) -> S]
    BY <2>1, <2>2
  <2>4. Reverse(s) \in Seq(S) /\ Len(Reverse(s)) = Len(s)
    BY <2>1, <2>3
  <2> QED BY <2>1, <2>2, <2>4
<1>2. IsSuffix(t, t)
  <2>1. Len(Reverse(t)) <= Len(Reverse(t))
    BY <1>1
  <2> QED BY <2>1 DEF IsSuffix, IsPrefix
<1>3. ASSUME NEW s \in Seq(S), s # <<>>, IsSuffix(s, t) PROVE IsSuffix(Tail(s), t)
  <2> DEFINE n == Len(s)
             r == Reverse(s)
             q == Reverse(Tail(s))
             p == Reverse(t)
  <2>1. /\ Tail(s) \in Seq(S) /\ Len(Tail(s)) = n - 1 /\ n \in Nat \ {0}
        /\ \A k \in 1..(n - 1) : Tail(s)[k] = s[k + 1]
    BY <1>3
  <2>2. /\ r \in Seq(S) /\ Len(r) = n /\ \A k \in 1..n : r[k] = s[(n - k) + 1]
    BY <1>1
  <2>3. /\ q \in Seq(S) /\ Len(q) = n - 1
        /\ \A k \in 1..(n - 1) : q[k] = Tail(s)[((n - 1) - k) + 1]
    BY <1>1, <2>1
  <2>4. p \in Seq(S) /\ Len(p) \in Nat
    BY <1>1
  <2>5. n <= Len(p) /\ SubSeq(r, 1, n) = SubSeq(p, 1, n)
    BY <1>3, <2>2 DEF IsSuffix, IsPrefix
  <2>6. \A k \in 1..(n - 1) : q[k] = r[k]
    <3> SUFFICES ASSUME NEW k \in 1..(n - 1) PROVE q[k] = r[k]
      OBVIOUS
    <3> HIDE DEF n, r, q
    <3>1. k \in 1..n /\ ((n - 1) - k) + 1 \in 1..(n - 1) /\ (((n - 1) - k) + 1) + 1 = (n - k) + 1
      BY <2>1
    <3> DEFINE m == ((n - 1) - k) + 1
    <3>2. q[k] = Tail(s)[m] /\ Tail(s)[m] = s[m + 1]
      BY <2>1, <2>3, <3>1
    <3>3. r[k] = s[m + 1]
      BY <2>2, <3>1
    <3> HIDE DEF m
    <3> QED BY <3>2, <3>3
  <2> HIDE DEF n, r, q, p
  <2>7. \A k \in 1..n : r[k] = p[k]
    <3> SUFFICES ASSUME NEW k \in 1..n PROVE r[k] = p[k]
      OBVIOUS
    <3>1. SubSeq(r, 1, n)[k] = r[k] /\ SubSeq(p, 1, n)[k] = p[k]
      BY <2>1, <2>2, <2>4, <2>5
    <3> QED BY <2>5, <3>1
  <2>8. SubSeq(q, 1, n - 1) = SubSeq(p, 1, n - 1)
    <3>1. /\ SubSeq(q, 1, n - 1) \in Seq(S) /\ SubSeq(p, 1, n - 1) \in Seq(S)
          /\ Len(SubSeq(q, 1, n - 1)) = n - 1 /\ Len(SubSeq(p, 1, n - 1)) = n - 1
      BY <2>1, <2>3, <2>4, <2>5
    <3>2. ASSUME NEW k \in 1..(n - 1) PROVE SubSeq(q, 1, n - 1)[k] = SubSeq(p, 1, n - 1)[k]
      <4>1. SubSeq(q, 1, n - 1)[k] = q[k] /\ SubSeq(p, 1, n - 1)[k] = p[k] /\ k \in 1..n
        BY <2>1, <2>3, <2>4, <2>5
      <4> QED BY <2>6, <2>7, <4>1
    <3> QED BY <3>1, <3>2
  <2> QED BY <2>1, <2>3, <2>5, <2>8 DEF IsSuffix, IsPrefix, q, p
<1> QED BY <1>2, <1>3

LEMMA HandFacts ==
    ASSUME NEW S, NEW s \in Seq(S)
    PROVE  /\ s # <<>> => ToSet(s) = {Head(s)} \cup ToSet(Tail(s)) /\ Head(s) \in ToSet(s)
           /\ \A e \in S : ToSet(Append(s, e)) = ToSet(s) \cup {e}
<1>1. ASSUME NEW e \in S PROVE ToSet(Append(s, e)) = ToSet(s) \cup {e}
  <2>1. /\ Append(s, e) = s \o <<e>> /\ <<e>> \in Seq(S) /\ DOMAIN <<e>> = {1} /\ <<e>>[1] = e
    OBVIOUS
  <2>2. PICK one \in Seq(S) : one = <<e>>
    BY <2>1
  <2>3. ToSet(one) = {e}
    BY <2>1, <2>2 DEF ToSet
  <2>4. \A t \in Seq(S) : ToSet(s \o t) = ToSet(s) \cup ToSet(t)
    BY AppendedSets
  <2>5. ToSet(s \o one) = ToSet(s) \cup ToSet(one)
    BY <2>4
  <2> QED BY <2>1, <2>2, <2>3, <2>5
<1>2. ASSUME s # <<>> PROVE ToSet(s) = {Head(s)} \cup ToSet(Tail(s)) /\ Head(s) \in ToSet(s)
  <2>1. /\ Head(s) \in S /\ Tail(s) \in Seq(S) /\ s = <<Head(s)>> \o Tail(s)
        /\ DOMAIN s = 1..Len(s) /\ Len(s) \in Nat \ {0} /\ Head(s) = s[1]
    BY <1>2
  <2>2. PICK h \in S, r \in Seq(S) : h = Head(s) /\ r = Tail(s)
    BY <2>1
  <2>0. <<h>> \in Seq(S) /\ DOMAIN <<h>> = {1} /\ <<h>>[1] = h
    OBVIOUS
  <2>3. PICK one \in Seq(S) : one = <<h>>
    BY <2>0
  <2>4. ToSet(one) = {h}
    BY <2>0, <2>3 DEF ToSet
  <2>5. ToSet(one \o r) = ToSet(one) \cup ToSet(r)
    BY AppendedSets
  <2> QED BY <2>1, <2>2, <2>3, <2>4, <2>5
<1> QED BY <1>1, <1>2

\* What an insert adds is of the batch.
LEMMA InsertedRows ==
    ASSUME NEW batch, Insert(batch)
    PROVE  rows \subseteq rows' /\ rows' \subseteq rows \cup ToSet(batch)
BY DEF Insert, Fresh

LEMMA UpdatesTypeStep ==
    ASSUME HandsInv, UpdatesTypeOK, [UpdatesNext]_updateVars
    PROVE  HandsInv' /\ UpdatesTypeOK'
<1>1. /\ Len(Updates) \in Nat /\ ChannelCapacity \in Nat \ {0} /\ MaxDecodeErrors \in Nat \ {0}
      /\ BatchSize \in Nat \ {0}
      /\ position \in 0..Len(Updates) /\ Len(channel) \in Nat /\ Len(pending) \in Nat
      /\ DOMAIN Updates = 1..Len(Updates)
  BY UpdatesAssumption DEF UpdatesTypeOK, HandsInv
<1>2. ASSUME UNCHANGED <<sourceVars, channel, receiverVars>> PROVE HandsInv' /\ UpdatesTypeOK'
  BY <1>2 DEF sourceVars, receiverVars, HandsInv, UpdatesTypeOK
<1>3. CASE UpdatesClock BY <1>2, <1>3 DEF UpdatesClock
<1>4. CASE UpdatesOpened
  <2>1. position' \in 0..Len(Updates) /\ UNCHANGED <<unsent, channel, decodeErrors, receiverVars>>
    BY <1>1, <1>4 DEF UpdatesOpened
  <2> QED BY <2>1 DEF HandsInv, UpdatesTypeOK, receiverVars
<1>5. ASSUME NEW kind, UpdatesFail(kind) PROVE HandsInv' /\ UpdatesTypeOK'
  BY <1>2, <1>5 DEF UpdatesFail
<1>6. CASE ReceiveUpdate
  <2> DEFINE i == position + 1
  <2>1. /\ i \in Accepted /\ unsent' = EventsOf[i] /\ position' = i
        /\ UNCHANGED <<channel, decodeErrors, receiverVars>>
    BY <1>6 DEF ReceiveUpdate
  <2>2. EventsOf[i] \in Seq(AcceptedEvents) /\ i \in 1..Len(Updates)
    BY <1>1, <2>1, AcceptedFacts DEF Accepted
  <2> HIDE DEF i
  <2>3. IsSuffix(EventsOf[i], EventsOf[i])
    BY <2>2, SuffixFacts
  <2>4. HandsInv'
    BY <2>1, <2>2 DEF HandsInv, receiverVars
  <2>5. i \in 0..Len(Updates)
    BY <1>1, <2>2
  <2> QED BY <2>1, <2>3, <2>4, <2>5 DEF UpdatesTypeOK, receiverVars
<1>7. CASE SkipMalformed
  <2>1. /\ position + 1 \in 0..Len(Updates) /\ position' = position + 1
        /\ decodeErrors' = Min({decodeErrors + 1, MaxDecodeErrors})
        /\ UNCHANGED <<unsent, channel, receiverVars>>
    BY <1>1, <1>7 DEF SkipMalformed, Awaiting
  <2>2. Min({decodeErrors + 1, MaxDecodeErrors}) \in 0..MaxDecodeErrors
    <3>1. decodeErrors + 1 \in Nat
      BY <1>1 DEF UpdatesTypeOK
    <3>2. PICK d \in Nat : d = decodeErrors + 1
      BY <3>1
    <3>3. Min({d, MaxDecodeErrors}) \in {d, MaxDecodeErrors}
          /\ Min({d, MaxDecodeErrors}) <= MaxDecodeErrors
      <4>1. d \in Int /\ MaxDecodeErrors \in Int
        BY <1>1
      <4> QED BY <4>1, OfTwo
    <3> QED BY <1>1, <3>2, <3>3
  <2> QED BY <2>1, <2>2 DEF HandsInv, UpdatesTypeOK, receiverVars
<1>8. CASE SendEvent
  <2>1. /\ unsent # <<>> /\ Len(channel) < ChannelCapacity
        /\ channel' = Append(channel, Head(unsent)) /\ unsent' = Tail(unsent)
        /\ UNCHANGED <<position, decodeErrors, receiverVars>>
    BY <1>8 DEF SendEvent, HasRoom
  <2>2. PICK e \in AcceptedEvents : e = Head(unsent)
    BY <2>1 DEF HandsInv
  <2>3. channel' \in Seq(AcceptedEvents) /\ Len(channel') = Len(channel) + 1
    BY <2>1, <2>2 DEF HandsInv
  <2>4. Tail(unsent) \in Seq(AcceptedEvents)
    BY <2>1 DEF HandsInv
  <2>5. HandsInv'
    BY <2>1, <2>3, <2>4 DEF HandsInv, receiverVars
  <2>6. PICK i \in Accepted : IsSuffix(unsent, EventsOf[i])
    BY <2>1 DEF UpdatesTypeOK
  <2>7. IsSuffix(Tail(unsent), EventsOf[i])
    BY <2>1, <2>6, AcceptedFacts, SuffixFacts DEF HandsInv
  <2>8. Len(channel') <= ChannelCapacity
    BY <1>1, <2>1, <2>3
  <2> QED BY <2>1, <2>5, <2>7, <2>8 DEF UpdatesTypeOK, receiverVars
<1>9. CASE ReceiveEvent
  <2>1. /\ channel # <<>> /\ channel' = Tail(channel)
        /\ pipeline = "receiving"
        /\ pending' = Append(pending, Head(channel))
        /\ pipeline' = IF Len(pending') >= BatchSize THEN "writing" ELSE "receiving"
        /\ UNCHANGED <<position, unsent, decodeErrors, rows>>
    BY <1>9 DEF ReceiveEvent, sourceVars
  <2>2. PICK e \in AcceptedEvents : e = Head(channel)
    BY <2>1 DEF HandsInv
  <2>3. Tail(channel) \in Seq(AcceptedEvents) /\ Len(Tail(channel)) = Len(channel) - 1
    BY <2>1 DEF HandsInv
  <2>4. pending' \in Seq(AcceptedEvents) /\ Len(pending') = Len(pending) + 1
    BY <2>1, <2>2 DEF HandsInv
  <2>5. Len(channel') <= ChannelCapacity
    BY <1>1, <2>1, <2>3 DEF UpdatesTypeOK
  <2>6. HandsInv'
    BY <2>1, <2>3, <2>4 DEF HandsInv
  <2>7. Len(pending) < BatchSize
    BY <2>1 DEF UpdatesTypeOK
  <2>8. /\ pipeline' \in {"receiving", "writing", "ended", "stopped"}
        /\ IF pipeline' = "writing" THEN Len(pending') \in 1..BatchSize
           ELSE Len(pending') < BatchSize
    BY <1>1, <2>1, <2>4, <2>7
  <2> QED BY <2>1, <2>5, <2>6, <2>8 DEF UpdatesTypeOK
<1>10. CASE ChannelCloses
  <2>1. /\ pipeline = "receiving"
        /\ pipeline' = IF pending = <<>> THEN "ended" ELSE "writing"
        /\ UNCHANGED <<position, unsent, decodeErrors, channel, pending, rows>>
    BY <1>10 DEF ChannelCloses, sourceVars
  <2>2. HandsInv'
    BY <2>1 DEF HandsInv
  <2>3. Len(pending) < BatchSize /\ (pending # <<>> => Len(pending) \in 1..BatchSize)
    BY <1>1, <2>1 DEF UpdatesTypeOK, HandsInv
  <2> QED BY <2>1, <2>2, <2>3 DEF UpdatesTypeOK
<1>11. ASSUME rows' \subseteq rows \cup ToSet(pending), UNCHANGED <<position, decodeErrors>>,
              pending' = <<>>, pipeline' \in {"receiving", "stopped"},
              \/ UNCHANGED <<unsent, channel>>
              \/ unsent' = <<>> /\ channel' = <<>>
       PROVE  HandsInv' /\ UpdatesTypeOK'
  <2>1. ToSet(pending) \subseteq AcceptedEvents
    BY DEF ToSet, HandsInv
  <2>2. <<>> \in Seq(AcceptedEvents) /\ Len(<<>>) = 0
    OBVIOUS
  <2>3. HandsInv'
    BY <1>11, <2>1, <2>2 DEF HandsInv
  <2> QED BY <1>1, <1>11, <2>2, <2>3 DEF UpdatesTypeOK
<1>12. CASE WriteBatch
  <2>1. Insert(pending) /\ UNCHANGED <<position, decodeErrors, unsent, channel>>
        /\ pending' = <<>> /\ pipeline' = "receiving"
    BY <1>12 DEF WriteBatch, sourceVars
  <2> QED BY <1>11, <2>1, InsertedRows
<1>13. CASE PipelineStops
  <2>1. (rows' = rows \/ Insert(pending)) /\ UNCHANGED <<position, decodeErrors>>
        /\ pending' = <<>> /\ channel' = <<>> /\ unsent' = <<>> /\ pipeline' = "stopped"
    BY <1>13 DEF PipelineStops
  <2>2. rows' \subseteq rows \cup ToSet(pending)
    BY <2>1, InsertedRows
  <2> QED BY <1>11, <2>1, <2>2
<1>14. CASE UNCHANGED updateVars
  BY <1>2, <1>14 DEF updateVars
<1> QED
  BY <1>3, <1>4, <1>5, <1>6, <1>7, <1>8, <1>9, <1>10, <1>12, <1>13, <1>14 DEF UpdatesNext

LEMMA UpdatesTypeInit == ASSUME UpdatesInit PROVE HandsInv /\ UpdatesTypeOK
<1>1. /\ position = 0 /\ unsent = <<>> /\ channel = <<>> /\ rows = {} /\ decodeErrors = 0
      /\ pending = <<>> /\ pipeline = "receiving"
  BY DEF UpdatesInit
<1>2. Len(<<>>) = 0 /\ <<>> \in Seq(AcceptedEvents)
  OBVIOUS
<1>3. /\ Len(Updates) \in Nat /\ ChannelCapacity \in Nat /\ MaxDecodeErrors \in Nat
      /\ BatchSize \in Nat \ {0}
  BY UpdatesAssumption
<1> QED BY <1>1, <1>2, <1>3 DEF HandsInv, UpdatesTypeOK

\* The channel keeps its bound and the producer holds the rest of one update.
THEOREM UpdatesTypeCorrect == UpdatesSpec => []UpdatesTypeOK
<1>1. UpdatesInit => HandsInv /\ UpdatesTypeOK
  BY UpdatesTypeInit
<1>2. HandsInv /\ UpdatesTypeOK /\ [UpdatesNext]_updateVars => (HandsInv /\ UpdatesTypeOK)'
  BY UpdatesTypeStep
<1> QED BY <1>1, <1>2, PTL DEF UpdatesSpec

(***************************************************************************)
(* No two events share a key, whatever texts, indexes and slots they have,  *)
(* and a stored row shares its key with no other event a replay may bring.  *)
(***************************************************************************)
THEOREM KeysApart == ASSUME DecimalTexts(Nat) PROVE UpdatesSpec => []KeysInjective
<1>1. HandsInv => KeysInjective
  <2> SUFFICES ASSUME HandsInv, NEW row \in rows, CanonicalKey(row) \in Keys
               PROVE  row \in KeyIdentities
    BY KeysAsMany DEF KeysInjective
  <2>1. PICK id \in KeyIdentities : CanonicalKey(id) = CanonicalKey(row)
    BY DEF Keys
  <2>2. row \in AnIdentity
    BY EventsAreIdentities DEF HandsInv
  <2>3. id \in AnIdentity
    BY TextsMakeIdentities
  <2>4. id = row
    BY <2>1, <2>2, <2>3, KeyTellsApart
  <2> QED BY <2>4
<1>2. UpdatesInit => HandsInv /\ UpdatesTypeOK
  BY UpdatesTypeInit
<1>3. HandsInv /\ UpdatesTypeOK /\ [UpdatesNext]_updateVars => (HandsInv /\ UpdatesTypeOK)'
  BY UpdatesTypeStep
<1> QED BY <1>1, <1>2, <1>3, PTL DEF UpdatesSpec

-----------------------------------------------------------------------------
\* What a row of a transaction says of it.
LEMMA RowFacts ==
    ASSUME NEW u
    PROVE  /\ TransactionRow(u).kind = "transaction"
           /\ TransactionRow(u).slot = u.slot /\ TransactionRow(u).signature = u.signature
           /\ \A c : /\ EventAt(u, c).kind = "instruction"
                     /\ EventAt(u, c).slot = u.slot /\ EventAt(u, c).signature = u.signature
                     /\ EventAt(u, c).instruction_index = InstructionAt(u, c).at
                     /\ EventAt(u, c).inner_instruction_index = InstructionAt(u, c).inner
BY DEF TransactionRow, Transaction, EventAt, Instruction

\* Two coordinates of a transaction are of two events.
LEMMA CoordinatesTellApart ==
    ASSUME ProviderLog, NEW n \in Transactions, NEW u, u = Updates[n],
           NEW c \in Coordinates(u), NEW d \in Coordinates(u), EventAt(u, c) = EventAt(u, d)
    PROVE  c = d
<1>1. /\ u.instructions \in Seq(Nat)
      /\ \A g \in DOMAIN u.inner : u.inner[g].instructions \in Seq(Nat)
      /\ \A g, h \in DOMAIN u.inner : u.inner[g].index = u.inner[h].index => g = h
  BY TransactionTypes DEF ProviderLog
<1>2. /\ InstructionAt(u, c).at = InstructionAt(u, d).at
      /\ InstructionAt(u, c).inner = InstructionAt(u, d).inner
  <2>1. \A x : /\ EventAt(u, x).instruction_index = InstructionAt(u, x).at
               /\ EventAt(u, x).inner_instruction_index = InstructionAt(u, x).inner
    BY RowFacts
  <2>2. PICK e : e = EventAt(u, c)
    OBVIOUS
  <2>3. /\ InstructionAt(u, c).at = e.instruction_index
        /\ InstructionAt(u, c).inner = e.inner_instruction_index
    BY <2>1, <2>2
  <2>4. /\ InstructionAt(u, d).at = e.instruction_index
        /\ InstructionAt(u, d).inner = e.inner_instruction_index
    BY <2>1, <2>2
  <2> QED BY <2>3, <2>4
<1>3. ASSUME NEW x \in Outer(u)
      PROVE  \E i \in Nat : /\ x = <<i>> /\ InstructionAt(u, x).at = i - 1
                            /\ InstructionAt(u, x).inner = {}
  <2>1. PICK i \in DOMAIN u.instructions : x = <<i>>
    BY DEF Outer
  <2>2. Len(x) = 1 /\ x[1] = i /\ i \in Nat
    BY <1>1, <2>1
  <2> QED BY <2>1, <2>2 DEF InstructionAt
<1>4. ASSUME NEW x \in Nested(u)
      PROVE  \E g \in DOMAIN u.inner, j \in Nat :
               /\ x = <<g, j>> /\ InstructionAt(u, x).at = u.inner[g].index
               /\ InstructionAt(u, x).inner = {j - 1}
  <2>1. PICK g \in DOMAIN u.inner : \E j \in DOMAIN u.inner[g].instructions : x = <<g, j>>
    BY DEF Nested
  <2>2. PICK j \in DOMAIN u.inner[g].instructions : x = <<g, j>>
    BY <2>1
  <2>3. Len(x) = 2 /\ x[1] = g /\ x[2] = j
    BY <2>2
  <2>4. j \in Nat
    <3>1. PICK s \in Seq(Nat) : s = u.inner[g].instructions
      BY <1>1
    <3> QED BY <2>2, <3>1
  <2>5. Len(x) # 1
    BY <2>3
  <2> QED BY <2>2, <2>3, <2>4, <2>5 DEF InstructionAt
<1>5. c \in Outer(u) \cup Nested(u) /\ d \in Outer(u) \cup Nested(u)
  BY DEF Coordinates, Outer, Nested
<1>6. CASE c \in Outer(u) /\ d \in Outer(u)
  <2>1. PICK i \in Nat, k \in Nat :
           c = <<i>> /\ d = <<k>> /\ i - 1 = k - 1
    BY <1>2, <1>3, <1>6
  <2>2. i = k
    BY <2>1
  <2> QED BY <2>1, <2>2
<1>7. CASE c \in Nested(u) /\ d \in Nested(u)
  <2>1. PICK g \in DOMAIN u.inner, j \in Nat :
           /\ c = <<g, j>> /\ InstructionAt(u, c).at = u.inner[g].index
           /\ InstructionAt(u, c).inner = {j - 1}
    BY <1>4, <1>7
  <2>2. PICK h \in DOMAIN u.inner, k \in Nat :
           /\ d = <<h, k>> /\ InstructionAt(u, d).at = u.inner[h].index
           /\ InstructionAt(u, d).inner = {k - 1}
    BY <1>4, <1>7
  <2>3. g = h
    BY <1>1, <1>2, <2>1, <2>2
  <2>4. j = k
    <3>1. j - 1 = k - 1
      BY <1>2, <2>1, <2>2
    <3> QED BY <3>1
  <2> QED BY <2>1, <2>2, <2>3, <2>4
<1>8. ASSUME NEW x \in Outer(u), NEW y \in Nested(u)
      PROVE  InstructionAt(u, x).inner # InstructionAt(u, y).inner
  <2>1. PICK j \in Nat : InstructionAt(u, y).inner = {j - 1}
    BY <1>4
  <2>2. InstructionAt(u, x).inner = {}
    BY <1>3
  <2> QED BY <2>1, <2>2
<1> QED BY <1>2, <1>5, <1>6, <1>7, <1>8

\* As many rows as instructions, and one.
LEMMA TransactionRows ==
    ASSUME ProviderLog, NEW n \in Transactions, NEW u, u = Updates[n]
    PROVE  Cardinality(ToSet(TransactionEvents(u))) = 1 + Cardinality(Coordinates(u))
<1> DEFINE C == Coordinates(u)
           T == {EventAt(u, c) : c \in C}
           f == [c \in C |-> EventAt(u, c)]
           events == TransactionEvents(u)
<1>1. PICK E : events \in Seq(E)
  BY TransactionEventFacts
<1>2. ToSet(events) = T \cup {TransactionRow(u)}
  <2>1. ToSet(TransactionEvents(u)) = RowsFor(u)
    BY TransactionEventFacts
  <2> QED BY <2>1 DEF RowsFor
<1>3. f \in Bijection(C, T)
  <2>1. \A c, d \in C : f[c] = f[d] => c = d
    BY CoordinatesTellApart
  <2>2. f \in Surjection(C, T)
    BY DEF Surjection
  <2>3. f \in Injection(C, T)
    <3>1. f \in [C -> T]
      OBVIOUS
    <3>2. DOMAIN f = C
      OBVIOUS
    <3> HIDE DEF f, C, T
    <3> QED BY <2>1, <3>1, <3>2 DEF Injection, IsInjective
  <2> QED BY <2>2, <2>3 DEF Bijection
<1>4. IsFiniteSet(T)
  <2> DEFINE s == [k \in 1..Len(events) |-> events[k]]
             R == {s[k] : k \in 1..Len(events)}
  <2>1. Len(events) \in Nat /\ DOMAIN events = 1..Len(events)
    BY <1>1
  <2>2. IsFiniteSet(1..Len(events))
    BY <2>1, FS_Interval
  <2>3. s \in Surjection(1..Len(events), R)
    BY DEF Surjection
  <2>4. R = ToSet(events)
    BY <2>1 DEF ToSet
  <2> HIDE DEF s, R, events
  <2>5. IsFiniteSet(R)
    BY <2>2, <2>3, FS_Surjection
  <2>6. T \in SUBSET R
    BY <1>2, <2>4
  <2> HIDE DEF T
  <2> QED BY <2>5, <2>6, FS_Subset
<1>5. TransactionRow(u) \notin T
  BY RowFacts
<1> HIDE DEF C, T, f, events
<1>6. IsFiniteSet(C) /\ Cardinality(T) = Cardinality(C)
  <2>1. ExistsBijection(T, C)
    <3>1. ExistsBijection(C, T)
      BY <1>3 DEF ExistsBijection
    <3> QED BY <3>1, Fun_ExistsBijSymmetric
  <2>2. IsFiniteSet(C) /\ Cardinality(C) = Cardinality(T)
    BY <1>4, <2>1, FS_Bijection
  <2> QED BY <2>2
<1>7. Cardinality(T \cup {TransactionRow(u)}) = Cardinality(T) + 1
  BY <1>4, <1>5, FS_AddElement
<1>8. Cardinality(T) \in Nat
  BY <1>4, FS_CardinalityType
<1>9. Cardinality(ToSet(events)) = 1 + Cardinality(C)
  BY <1>2, <1>6, <1>7, <1>8
<1> QED BY <1>9 DEF C, events

-----------------------------------------------------------------------------
\* What is stored or on its way to be.
Carried == rows \cup OnTheWay

\* The events of whole updates, of the accepted ones only.
EventsOfAll(D) == UNION {ToSet(EventsOf[i]) : i \in D}

WholeInv == pipeline # "stopped" => \E D \in SUBSET Accepted : Carried = EventsOfAll(D)

\* The producer ends with nothing in hand, the pipeline after it has all.
EndInv ==
    /\ ProducerGone /\ pipeline # "stopped" => unsent = <<>>
    /\ pipeline = "ended" => ProducerGone /\ channel = <<>> /\ pending = <<>>

\* An insert leaves out only what is stored.
LEMMA InsertTakesAll ==
    ASSUME DecimalTexts(Nat), NEW batch, ToSet(batch) \subseteq AcceptedEvents,
           rows \subseteq AcceptedEvents, Insert(batch)
    PROVE  rows' = rows \cup ToSet(batch)
<1>1. ASSUME NEW a \in AcceptedEvents, NEW b \in AcceptedEvents, EventId[a] = EventId[b]
      PROVE  a = b
  <2>1. CanonicalKey(a) = CanonicalKey(b)
    BY <1>1 DEF EventId
  <2>2. a \in AnIdentity /\ b \in AnIdentity
    BY EventsAreIdentities
  <2> QED BY <2>1, <2>2, KeyTellsApart
<1>2. PICK new \in SUBSET Fresh(batch) :
         /\ \A event \in Fresh(batch) : \E row \in new : EventId[row] = EventId[event]
         /\ rows' = rows \cup new
  BY DEF Insert
<1>3. Fresh(batch) \subseteq ToSet(batch)
  BY DEF Fresh
<1>4. ASSUME NEW event \in ToSet(batch) PROVE event \in rows \cup new
  <2>1. CASE event \in Fresh(batch)
    <3>1. PICK row \in new : EventId[row] = EventId[event]
      BY <1>2, <2>1
    <3>2. row = event
      BY <1>1, <1>2, <1>3, <3>1
    <3> QED BY <3>1, <3>2
  <2>2. CASE event \notin Fresh(batch)
    <3>1. PICK row \in rows : EventId[row] = EventId[event]
      BY <2>2 DEF Fresh
    <3>2. row = event
      BY <1>1, <3>1
    <3> QED BY <3>1, <3>2
  <2> QED BY <2>1, <2>2
<1> QED BY <1>2, <1>3, <1>4

LEMMA EndStep ==
    ASSUME EndInv, [UpdatesNext]_updateVars
    PROVE  EndInv'
<1>1. ASSUME UNCHANGED <<sourceVars, channel, receiverVars>>, ~ProducerGone \/ UNCHANGED loopVars,
             unsent = <<>> \/ ~ProducerGone'
      PROVE  EndInv'
  BY <1>1 DEF EndInv, ProducerGone, loopVars, sourceVars, receiverVars
<1>2. CASE UpdatesClock
  <2>1. ~ProducerGone /\ ~ProducerGone'
    BY <1>2 DEF UpdatesClock, Configure, GracePasses, Wake, ProducerGone
  <2> QED BY <1>1, <1>2, <2>1 DEF UpdatesClock
<1>3. CASE UpdatesOpened
  <2>1. ~ProducerGone /\ ~ProducerGone' /\ UNCHANGED pipeline
    BY <1>3 DEF UpdatesOpened, Opened, ProducerGone, receiverVars
  <2> QED BY <2>1 DEF EndInv
<1>4. ASSUME NEW kind, UpdatesFail(kind) PROVE EndInv'
  <2>1. ~ProducerGone /\ unsent = <<>>
    BY <1>4 DEF UpdatesFail, AttemptFails, ProducerGone
  <2> QED BY <1>1, <1>4, <2>1 DEF UpdatesFail
<1>5. CASE ReceiveUpdate \/ SkipMalformed \/ SendEvent
  <2>1. ~ProducerGone /\ ~ProducerGone' /\ UNCHANGED pipeline
    BY <1>5 DEF ReceiveUpdate, SkipMalformed, SendEvent, Awaiting, ProducerGone, receiverVars,
                loopVars
  <2> QED BY <2>1 DEF EndInv
<1>6. CASE ReceiveEvent
  <2>1. /\ pipeline = "receiving" /\ pipeline' \in {"receiving", "writing"}
        /\ UNCHANGED <<loop, unsent>>
    BY <1>6 DEF ReceiveEvent, loopVars, sourceVars
  <2> QED BY <2>1 DEF EndInv, ProducerGone
<1>7. CASE ChannelCloses
  <2>1. /\ pipeline = "receiving" /\ ProducerGone /\ channel = <<>>
        /\ pipeline' = IF pending = <<>> THEN "ended" ELSE "writing"
        /\ UNCHANGED <<loop, unsent, channel, pending>>
    BY <1>7 DEF ChannelCloses, loopVars, sourceVars
  <2> QED BY <2>1 DEF EndInv, ProducerGone
<1>8. CASE WriteBatch
  <2>1. /\ pipeline = "writing" /\ pipeline' = "receiving" /\ UNCHANGED <<loop, unsent>>
    BY <1>8 DEF WriteBatch, loopVars, sourceVars
  <2> QED BY <2>1 DEF EndInv, ProducerGone
<1>9. CASE PipelineStops
  <2>1. pipeline' = "stopped"
    BY <1>9 DEF PipelineStops
  <2> QED BY <2>1 DEF EndInv
<1>10. CASE UNCHANGED updateVars
  BY <1>10 DEF updateVars, loopVars, sourceVars, receiverVars, EndInv, ProducerGone
<1> QED
  BY <1>2, <1>3, <1>4, <1>5, <1>6, <1>7, <1>8, <1>9, <1>10 DEF UpdatesNext

LEMMA WholeStep ==
    ASSUME DecimalTexts(Nat), HandsInv, WholeInv, [UpdatesNext]_updateVars
    PROVE  WholeInv'
<1> SUFFICES ASSUME pipeline' # "stopped" PROVE WholeInv'
  BY DEF WholeInv
<1>1. ASSUME pipeline # "stopped", Carried' = Carried PROVE WholeInv'
  BY <1>1 DEF WholeInv, EventsOfAll
<1>2. ASSUME UNCHANGED <<unsent, channel, receiverVars>> PROVE WholeInv'
  <2>1. Carried' = Carried /\ pipeline' = pipeline
    BY <1>2 DEF Carried, OnTheWay, receiverVars
  <2> QED BY <1>1, <2>1
<1>3. CASE UpdatesClock BY <1>2, <1>3 DEF UpdatesClock, sourceVars
<1>4. CASE UpdatesOpened BY <1>2, <1>4 DEF UpdatesOpened
<1>5. ASSUME NEW kind, UpdatesFail(kind) PROVE WholeInv'
  BY <1>2, <1>5 DEF UpdatesFail, sourceVars
<1>6. CASE ReceiveUpdate
  <2>1. PICK i \in Accepted : /\ unsent = <<>> /\ unsent' = EventsOf[i]
                              /\ UNCHANGED <<channel, pipeline, pending, rows>>
    BY <1>6 DEF ReceiveUpdate, Awaiting, receiverVars
  <2>2. PICK D \in SUBSET Accepted : Carried = EventsOfAll(D)
    BY <2>1 DEF WholeInv
  <2>3. ToSet(unsent) = {}
    BY <2>1 DEF ToSet
  <2>4. Carried' = EventsOfAll(D \cup {i})
    BY <2>1, <2>2, <2>3 DEF Carried, OnTheWay, EventsOfAll
  <2>5. D \cup {i} \in SUBSET Accepted
    OBVIOUS
  <2> QED BY <2>4, <2>5 DEF WholeInv, EventsOfAll
<1>7. CASE SkipMalformed BY <1>2, <1>7 DEF SkipMalformed
<1>8. CASE SendEvent
  <2>1. /\ unsent # <<>> /\ channel' = Append(channel, Head(unsent)) /\ unsent' = Tail(unsent)
        /\ UNCHANGED <<pipeline, pending, rows>> /\ Head(unsent) \in AcceptedEvents
    BY <1>8 DEF SendEvent, HandsInv, receiverVars
  <2>2. ToSet(unsent) = {Head(unsent)} \cup ToSet(Tail(unsent))
    BY <2>1, HandFacts DEF HandsInv
  <2>3. ToSet(channel') = ToSet(channel) \cup {Head(unsent)}
    BY <2>1, HandFacts DEF HandsInv
  <2>4. Carried' = Carried
    BY <2>1, <2>2, <2>3 DEF Carried, OnTheWay
  <2> QED BY <1>1, <2>1, <2>4
<1>9. CASE ReceiveEvent
  <2>1. /\ channel # <<>> /\ channel' = Tail(channel)
        /\ pending' = Append(pending, Head(channel)) /\ pipeline = "receiving"
        /\ UNCHANGED <<unsent, rows>> /\ Head(channel) \in AcceptedEvents
    BY <1>9 DEF ReceiveEvent, HandsInv, sourceVars
  <2>2. ToSet(channel) = {Head(channel)} \cup ToSet(Tail(channel))
    BY <2>1, HandFacts DEF HandsInv
  <2>3. ToSet(pending') = ToSet(pending) \cup {Head(channel)}
    BY <2>1, HandFacts DEF HandsInv
  <2>4. Carried' = Carried
    BY <2>1, <2>2, <2>3 DEF Carried, OnTheWay
  <2> QED BY <1>1, <2>1, <2>4
<1>10. CASE ChannelCloses
  <2>1. pipeline = "receiving" /\ Carried' = Carried
    BY <1>10 DEF ChannelCloses, Carried, OnTheWay, sourceVars
  <2> QED BY <1>1, <2>1
<1>11. CASE WriteBatch
  <2>1. /\ pipeline = "writing" /\ Insert(pending) /\ pending' = <<>>
        /\ UNCHANGED <<unsent, channel>>
    BY <1>11 DEF WriteBatch, sourceVars
  <2>2. ToSet(pending) \subseteq AcceptedEvents
    BY DEF HandsInv, ToSet
  <2>3. rows' = rows \cup ToSet(pending)
    BY <2>1, <2>2, InsertTakesAll DEF HandsInv
  <2>4. ToSet(pending') = {}
    BY <2>1 DEF ToSet
  <2>5. Carried' = Carried
    BY <2>1, <2>3, <2>4 DEF Carried, OnTheWay
  <2> QED BY <1>1, <2>1, <2>5
<1>12. CASE PipelineStops BY <1>12 DEF PipelineStops
<1>13. CASE UNCHANGED updateVars BY <1>2, <1>13 DEF updateVars, sourceVars
<1> QED
  BY <1>3, <1>4, <1>5, <1>6, <1>7, <1>8, <1>9, <1>10, <1>11, <1>12, <1>13 DEF UpdatesNext

\* What the events of a transaction say of it.
LEMMA PartFacts ==
    ASSUME NEW k \in Transactions, NEW x \in ToSet(TransactionEvents(Updates[k]))
    PROVE  /\ x.kind \in {"transaction", "instruction"}
           /\ x.slot = Updates[k].slot /\ x.signature = Updates[k].signature
<1>1. PICK v : v = Updates[k]
  OBVIOUS
<1>2. x \in RowsFor(v)
  BY <1>1, TransactionEventFacts
<1>3. x = TransactionRow(v) \/ \E c : x = EventAt(v, c)
  BY <1>2 DEF RowsFor
<1> QED BY <1>1, <1>3, RowFacts

\* Only an accepted update that is the transaction has a part of it.
LEMMA PartsFrom ==
    ASSUME ProviderLog, NEW n \in Transactions, NEW D \in SUBSET Accepted,
           NEW x \in PartsOf(Updates[n], EventsOfAll(D))
    PROVE  \E k \in D : /\ k \in Transactions /\ Updates[k] = Updates[n]
                        /\ x \in ToSet(TransactionEvents(Updates[n]))
<1>1. /\ x \in EventsOfAll(D) /\ x.kind \in {"transaction", "instruction"}
      /\ x.slot = Updates[n].slot /\ x.signature = Updates[n].signature
  BY DEF PartsOf
<1>2. PICK k \in D : x \in ToSet(EventsOf[k])
  BY <1>1 DEF EventsOfAll
<1>3. k \in Transactions /\ x \in ToSet(TransactionEvents(Updates[k]))
  BY <1>1, <1>2, AcceptedFacts
<1>4. Updates[k] = Updates[n]
  BY <1>1, <1>3, PartFacts DEF ProviderLog
<1> QED BY <1>3, <1>4

\* Of whole updates, the part of a transaction is all of it or nothing.
LEMMA WholeParts ==
    ASSUME ProviderLog, NEW D \in SUBSET Accepted, NEW n \in Transactions
    PROVE  \/ PartsOf(Updates[n], EventsOfAll(D)) = {}
           \/ PartsOf(Updates[n], EventsOfAll(D)) = ToSet(TransactionEvents(Updates[n]))
<1> DEFINE parts == PartsOf(Updates[n], EventsOfAll(D))
<1>1. ASSUME NEW k \in D, k \in Transactions, Updates[k] = Updates[n]
      PROVE  parts = ToSet(TransactionEvents(Updates[n]))
  <2>1. ToSet(TransactionEvents(Updates[n])) \subseteq EventsOfAll(D)
    BY <1>1, AcceptedFacts DEF EventsOfAll
  <2>2. ASSUME NEW x \in ToSet(TransactionEvents(Updates[n])) PROVE x \in parts
    <3>1. /\ x.kind \in {"transaction", "instruction"}
          /\ x.slot = Updates[n].slot /\ x.signature = Updates[n].signature
      BY PartFacts
    <3> QED BY <2>1, <3>1 DEF PartsOf
  <2>3. ASSUME NEW x \in parts PROVE x \in ToSet(TransactionEvents(Updates[n]))
    BY PartsFrom
  <2> QED BY <2>2, <2>3
<1>2. CASE \E k \in D : k \in Transactions /\ Updates[k] = Updates[n]
  BY <1>1, <1>2
<1>3. CASE ~\E k \in D : k \in Transactions /\ Updates[k] = Updates[n]
  BY <1>3, PartsFrom
<1> QED BY <1>2, <1>3

(***************************************************************************)
(* Nothing of a transaction is lost between the stream and the table while  *)
(* the pipeline works, however often it is sent and wherever a batch or an  *)
(* attempt ends, nothing is on its way when the pipeline has ended well,    *)
(* and a transaction that cannot be normalised leaves nothing at all.  What *)
(* a pipeline that stops leaves in part is not excluded.                    *)
(***************************************************************************)
THEOREM TransactionsWhole ==
    ASSUME ProviderLog, DecimalTexts(Nat)
    PROVE  UpdatesSpec => []WholeTransactions
<1>1. ASSUME HandsInv, WholeInv, EndInv PROVE WholeTransactions
  <2>1. ASSUME pipeline # "stopped", NEW n \in Transactions
        PROVE  Whole(Updates[n], rows \cup OnTheWay)
    <3>1. PICK D \in SUBSET Accepted : rows \cup OnTheWay = EventsOfAll(D)
      BY <1>1, <2>1 DEF WholeInv, Carried
    <3>2. PICK u : u = Updates[n]
      OBVIOUS
    <3>3. CASE PartsOf(u, rows \cup OnTheWay) = {}
      <4>1. Cardinality(PartsOf(u, rows \cup OnTheWay)) = 0
        BY <3>3, FS_EmptySet
      <4> QED BY <3>2, <4>1 DEF Whole
    <3>4. CASE PartsOf(u, rows \cup OnTheWay) = ToSet(TransactionEvents(u))
      <4>1. Cardinality(PartsOf(u, rows \cup OnTheWay)) = 1 + Cardinality(Coordinates(u))
        BY <3>2, <3>4, TransactionRows
      <4> QED BY <3>2, <4>1 DEF Whole
    <3>5. \/ PartsOf(u, rows \cup OnTheWay) = {}
          \/ PartsOf(u, rows \cup OnTheWay) = ToSet(TransactionEvents(u))
      BY <3>1, <3>2, WholeParts
    <3> QED BY <3>3, <3>4, <3>5
  <2>2. ASSUME pipeline = "ended" PROVE OnTheWay = {}
    <3>1. unsent = <<>> /\ channel = <<>> /\ pending = <<>>
      BY <1>1, <2>2 DEF EndInv
    <3> QED BY <3>1 DEF OnTheWay, ToSet
  <2>3. ASSUME NEW n \in Transactions \ Accepted, NEW x \in PartsOf(Updates[n], rows \cup OnTheWay)
        PROVE  FALSE
    <3>1. rows \cup OnTheWay \subseteq EventsOfAll(Accepted)
      BY <1>1 DEF HandsInv, OnTheWay, ToSet, EventsOfAll, AcceptedEvents
    <3>2. x \in PartsOf(Updates[n], EventsOfAll(Accepted))
      BY <3>1 DEF PartsOf
    <3>3. PICK k \in Accepted : Updates[k] = Updates[n]
      BY <3>2, PartsFrom
    <3>4. n \in Accepted
      BY <3>3 DEF Accepted, Transactions
    <3> QED BY <3>4
  <2> QED BY <2>1, <2>2, <2>3 DEF WholeTransactions
<1>2. UpdatesInit => HandsInv /\ UpdatesTypeOK /\ WholeInv /\ EndInv
  <2> SUFFICES ASSUME UpdatesInit PROVE WholeInv /\ EndInv
    BY UpdatesTypeInit
  <2>1. /\ rows = {} /\ ToSet(channel) = {} /\ ToSet(unsent) = {} /\ ToSet(pending) = {}
        /\ unsent = <<>> /\ pipeline = "receiving"
    BY DEF UpdatesInit, ToSet
  <2>2. Carried = EventsOfAll({}) /\ {} \in SUBSET Accepted
    BY <2>1 DEF Carried, OnTheWay, EventsOfAll
  <2> QED BY <2>1, <2>2 DEF WholeInv, EndInv
<1>3. HandsInv /\ UpdatesTypeOK /\ WholeInv /\ EndInv /\ [UpdatesNext]_updateVars =>
        (HandsInv /\ UpdatesTypeOK /\ WholeInv /\ EndInv)'
  BY UpdatesTypeStep, WholeStep, EndStep
<1> QED BY <1>1, <1>2, <1>3, PTL DEF UpdatesSpec

-----------------------------------------------------------------------------
\* The instructions of a transaction are listed once each.
LEMMA InstructionsOnce ==
    ASSUME ProviderLog, NEW n \in Transactions, NEW u, u = Updates[n]
    PROVE  Once(Instructions(u))
<1>1. /\ u.hasMessage \in BOOLEAN /\ u.instructions \in Seq(Nat)
      /\ u.inner \in Seq([index : Nat, instructions : Seq(Nat)])
      /\ \A g \in DOMAIN u.inner : /\ u.inner[g].index \in Nat
                                   /\ u.inner[g].instructions \in Seq(Nat)
      /\ \A g, h \in DOMAIN u.inner : u.inner[g].index = u.inner[h].index => g = h
  BY TransactionTypes DEF ProviderLog
<1>2. CASE ~u.hasMessage
  <2>1. Instructions(u) = <<>>
    BY <1>2 DEF Instructions
  <2> QED BY <2>1 DEF Once
<1>3. CASE u.hasMessage
  <2> DEFINE groups == [g \in DOMAIN u.inner |-> Inner(u.inner[g])]
  <2>1. Once(TopLevel(u)) /\ TopLevel(u) \in Seq(AnInstruction)
        /\ \A x \in ToSet(TopLevel(u)) : x.inner = {}
    <3>1. DOMAIN u.instructions = 1..Len(u.instructions) /\ Len(u.instructions) \in Nat
          /\ \A i \in DOMAIN u.instructions : u.instructions[i] \in Nat
      BY <1>1
    <3>2. /\ DOMAIN TopLevel(u) = DOMAIN u.instructions
          /\ \A i \in DOMAIN u.instructions :
                TopLevel(u)[i] = [at |-> i - 1, inner |-> {}, program |-> u.instructions[i]]
      BY DEF TopLevel
    <3>3. ASSUME NEW i \in DOMAIN u.instructions
          PROVE  /\ TopLevel(u)[i].at = i - 1 /\ TopLevel(u)[i].inner = {}
                 /\ TopLevel(u)[i] \in AnInstruction
      <4>1. TopLevel(u)[i] = [at |-> i - 1, inner |-> {}, program |-> u.instructions[i]]
        BY <3>2
      <4>2. i - 1 \in Nat /\ u.instructions[i] \in Nat
        BY <3>1
      <4> QED BY <4>1, <4>2 DEF AnInstruction
    <3>4. Once(TopLevel(u))
      <4> SUFFICES ASSUME NEW k \in DOMAIN u.instructions, NEW l \in DOMAIN u.instructions,
                          TopLevel(u)[k] = TopLevel(u)[l]
                   PROVE  k = l
        BY <3>2 DEF Once
      <4>1. k - 1 = l - 1
        BY <3>3
      <4> QED BY <3>1, <4>1
    <3>5. TopLevel(u) \in [1..Len(u.instructions) -> AnInstruction]
      BY <3>1, <3>2, <3>3 DEF TopLevel
    <3> QED BY <3>1, <3>2, <3>3, <3>4, <3>5 DEF ToSet
  <2>2. ASSUME NEW g \in DOMAIN u.inner
        PROVE  /\ Inner(u.inner[g]) \in Seq(AnInstruction)
               /\ Once(Inner(u.inner[g]))
               /\ \A x \in ToSet(Inner(u.inner[g])) : x.at = u.inner[g].index /\ x.inner # {}
    <3> DEFINE group == u.inner[g]
    <3>1. /\ DOMAIN group.instructions = 1..Len(group.instructions)
          /\ Len(group.instructions) \in Nat /\ group.index \in Nat
          /\ \A j \in DOMAIN group.instructions : group.instructions[j] \in Nat
      <4>1. group.instructions \in Seq(Nat) /\ group.index \in Nat
        BY <1>1
      <4> HIDE DEF group
      <4> QED BY <4>1
    <3> HIDE DEF group
    <3>2. /\ DOMAIN Inner(group) = DOMAIN group.instructions
          /\ \A j \in DOMAIN group.instructions : Inner(group)[j] =
               [at |-> group.index, inner |-> {j - 1}, program |-> group.instructions[j]]
      BY DEF Inner
    <3>3. ASSUME NEW j \in DOMAIN group.instructions
          PROVE  /\ Inner(group)[j].at = group.index /\ Inner(group)[j].inner = {j - 1}
                 /\ Inner(group)[j] \in AnInstruction
      <4>1. Inner(group)[j] =
              [at |-> group.index, inner |-> {j - 1}, program |-> group.instructions[j]]
        BY <3>2
      <4>2. j - 1 \in Nat /\ group.instructions[j] \in Nat
        BY <3>1
      <4> QED BY <3>1, <4>1, <4>2 DEF AnInstruction
    <3>4. Once(Inner(group))
      <4> SUFFICES ASSUME NEW k \in DOMAIN group.instructions,
                          NEW l \in DOMAIN group.instructions,
                          Inner(group)[k] = Inner(group)[l]
                   PROVE  k = l
        BY <3>2 DEF Once
      <4>1. {k - 1} = {l - 1}
        BY <3>3
      <4>2. k - 1 = l - 1
        BY <4>1
      <4> QED BY <3>1, <4>2
    <3>5. Inner(group) \in [1..Len(group.instructions) -> AnInstruction]
      BY <3>1, <3>2, <3>3 DEF Inner
    <3>6. Inner(group) \in Seq(AnInstruction)
      BY <3>1, <3>5
    <3>7. ASSUME NEW x \in ToSet(Inner(group)) PROVE x.at = group.index /\ x.inner # {}
      <4>1. PICK j \in DOMAIN group.instructions : x = Inner(group)[j]
        BY <3>2 DEF ToSet
      <4>2. x.at = group.index /\ x.inner = {j - 1}
        BY <3>3, <4>1
      <4> QED BY <4>2
    <3> QED BY <3>4, <3>6, <3>7 DEF group
  <2>3. groups \in Seq(Seq(AnInstruction)) /\ DOMAIN groups = DOMAIN u.inner
    <3>1. DOMAIN u.inner = 1..Len(u.inner) /\ Len(u.inner) \in Nat
      BY <1>1
    <3>2. groups \in [1..Len(u.inner) -> Seq(AnInstruction)]
      BY <2>2, <3>1
    <3> QED BY <3>1, <3>2
  <2>4. \A g \in DOMAIN groups :
           /\ Once(groups[g])
           /\ \A x \in ToSet(groups[g]) : x.at = u.inner[g].index /\ x.inner # {}
    BY <2>2, <2>3
  <2>5. Instructions(u) = TopLevel(u) \o FlattenSeq(groups)
    BY <1>3 DEF Instructions
  <2> HIDE DEF groups
  <2>6. ASSUME NEW g \in DOMAIN groups, NEW h \in DOMAIN groups, g # h
        PROVE  ToSet(groups[g]) \cap ToSet(groups[h]) = {}
    <3>1. \A x \in ToSet(groups[g]) : x.at = u.inner[g].index
      BY <2>4
    <3>2. \A x \in ToSet(groups[h]) : x.at = u.inner[h].index
      BY <2>4
    <3>3. u.inner[g].index # u.inner[h].index
      BY <1>1, <2>3, <2>6
    <3> QED BY <3>1, <3>2, <3>3
  <2>7. Once(FlattenSeq(groups))
    BY <2>3, <2>4, <2>6, FlattenOnce
  <2>8. /\ FlattenSeq(groups) \in Seq(AnInstruction)
        /\ ToSet(FlattenSeq(groups)) = UNION {ToSet(groups[g]) : g \in DOMAIN groups}
    BY <2>3, FlattenFacts
  <2>9. ToSet(TopLevel(u)) \cap ToSet(FlattenSeq(groups)) = {}
    <3> SUFFICES ASSUME NEW x \in ToSet(TopLevel(u)), x \in ToSet(FlattenSeq(groups))
                 PROVE  FALSE
      OBVIOUS
    <3>1. PICK g \in DOMAIN groups : x \in ToSet(groups[g])
      BY <2>8
    <3> QED BY <2>1, <2>4, <3>1
  <2> QED BY <2>1, <2>5, <2>7, <2>8, <2>9, OnceAppended
<1> QED BY <1>1, <1>2, <1>3

\* So a transaction becomes no event twice.
LEMMA TransactionEventsOnce ==
    ASSUME ProviderLog, NEW n \in Transactions, NEW u, u = Updates[n]
    PROVE  Once(TransactionEvents(u))
<1> DEFINE event(x) == Instruction(Cluster, u.slot, u.signature, u.index, x.at, x.inner,
                                   AccountKeys(u)[x.program + 1])
           instructions == Instructions(u)
           events == [i \in DOMAIN instructions |-> event(instructions[i])]
           first == <<TransactionRow(u)>>
<1>1. /\ instructions \in Seq(AnInstruction)
      /\ ToSet(instructions) = {InstructionAt(u, c) : c \in Coordinates(u)}
  BY InstructionFacts
<1>2. TransactionEvents(u) = first \o events
  BY DEF TransactionEvents, TransactionRow
<1>3. \A c : event(InstructionAt(u, c)) = EventAt(u, c)
  BY DEF EventAt
<1>4. \A x : event(x).kind = "instruction"
  BY DEF Instruction
<1>5. Once(instructions)
  BY InstructionsOnce
<1> HIDE DEF instructions, event
<1>6. Once(events)
  <2> SUFFICES ASSUME NEW k \in DOMAIN instructions, NEW l \in DOMAIN instructions,
                      event(instructions[k]) = event(instructions[l])
               PROVE  k = l
    BY DEF Once
  <2>1. PICK c \in Coordinates(u) : instructions[k] = InstructionAt(u, c)
    BY <1>1 DEF ToSet
  <2>2. PICK d \in Coordinates(u) : instructions[l] = InstructionAt(u, d)
    BY <1>1 DEF ToSet
  <2>3. EventAt(u, c) = EventAt(u, d)
    BY <1>3, <2>1, <2>2
  <2>4. c = d
    BY <2>3, CoordinatesTellApart
  <2> QED BY <1>5, <2>1, <2>2, <2>4 DEF Once
<1>7. PICK S : S = {TransactionRow(u)} \cup {event(instructions[i]) : i \in DOMAIN instructions}
  OBVIOUS
<1>8. events \in Seq(S)
  <2>1. DOMAIN instructions = 1..Len(instructions) /\ Len(instructions) \in Nat
    BY <1>1
  <2>2. events \in [1..Len(instructions) -> S]
    BY <1>7, <2>1
  <2> HIDE DEF events
  <2> QED BY <2>1, <2>2
<1>9. /\ first \in Seq(S) /\ Once(first) /\ \A x \in ToSet(first) : x.kind = "transaction"
  <2>1. PICK r \in S : r = TransactionRow(u)
    BY <1>7
  <2>2. <<r>> \in Seq(S) /\ DOMAIN <<r>> = {1} /\ <<r>>[1] = r
    OBVIOUS
  <2>3. r.kind = "transaction"
    BY <2>1, RowFacts
  <2> QED BY <2>1, <2>2, <2>3 DEF Once, ToSet
<1>10. \A x \in ToSet(events) : x.kind = "instruction"
  BY <1>4 DEF ToSet
<1> HIDE DEF events, first
<1>11. ToSet(first) \cap ToSet(events) = {}
  BY <1>9, <1>10
<1> QED BY <1>2, <1>6, <1>8, <1>9, <1>11, OnceAppended

-----------------------------------------------------------------------------
\* The events before this one in an update it comes from.
Before(e) ==
    UNION {{EventsOf[i][k] : k \in {k \in DOMAIN EventsOf[i] :
              \E l \in DOMAIN EventsOf[i] : k < l /\ EventsOf[i][l] = e}} : i \in Accepted}

\* Each event of a sequence comes after the ones before it in its update.
Led(R, s) == \A p \in DOMAIN s : Before(s[p]) \subseteq R \cup {s[q] : q \in 1..(p - 1)}

LEMMA LedFacts ==
    ASSUME NEW S, NEW s \in Seq(S), NEW R, Led(R, s)
    PROVE  /\ \A e \in ToSet(s) : Before(e) \subseteq R \cup ToSet(s)
           /\ s # <<>> => Before(Head(s)) \subseteq R /\ Led(R \cup {Head(s)}, Tail(s))
           /\ \A e \in S : Before(e) \subseteq R \cup ToSet(s) => Led(R, Append(s, e))
<1>1. DOMAIN s = 1..Len(s) /\ Len(s) \in Nat
  OBVIOUS
<1>2. ASSUME NEW p \in DOMAIN s
      PROVE  /\ 1..(p - 1) \subseteq DOMAIN s
             /\ Before(s[p]) \subseteq R \cup {s[q] : q \in 1..(p - 1)}
  BY <1>1 DEF Led
<1>3. ASSUME NEW e \in ToSet(s) PROVE Before(e) \subseteq R \cup ToSet(s)
  <2>1. PICK p \in DOMAIN s : s[p] = e
    BY DEF ToSet
  <2>2. {s[q] : q \in 1..(p - 1)} \subseteq ToSet(s)
    BY <1>2 DEF ToSet
  <2>3. Before(s[p]) \subseteq R \cup {s[q] : q \in 1..(p - 1)}
    BY <1>2
  <2> QED BY <2>1, <2>2, <2>3
<1>4. ASSUME s # <<>> PROVE Before(Head(s)) \subseteq R /\ Led(R \cup {Head(s)}, Tail(s))
  <2>1. /\ Head(s) = s[1] /\ 1 \in DOMAIN s /\ Tail(s) \in Seq(S)
        /\ DOMAIN Tail(s) = 1..(Len(s) - 1)
        /\ \A q \in 1..(Len(s) - 1) : Tail(s)[q] = s[q + 1]
    BY <1>1, <1>4
  <2>2. Before(Head(s)) \subseteq R
    <3>1. Before(s[1]) \subseteq R \cup {s[q] : q \in 1..(1 - 1)}
      BY <1>2, <2>1
    <3>2. 1..(1 - 1) = {}
      OBVIOUS
    <3> QED BY <2>1, <3>1, <3>2
  <2>3. ASSUME NEW p \in 1..(Len(s) - 1)
        PROVE  Before(Tail(s)[p]) \subseteq
                 (R \cup {Head(s)}) \cup {Tail(s)[q] : q \in 1..(p - 1)}
    <3> DEFINE r == p + 1
    <3>1. r \in DOMAIN s /\ Tail(s)[p] = s[r]
      BY <1>1, <2>1
    <3>2. Before(s[r]) \subseteq R \cup {s[q] : q \in 1..(r - 1)}
      BY <1>2, <3>1
    <3>3. ASSUME NEW q \in 1..(r - 1)
          PROVE  s[q] \in {Head(s)} \cup {Tail(s)[k] : k \in 1..(p - 1)}
      <4>1. CASE q = 1 BY <2>1, <4>1
      <4>2. CASE q # 1
        <5>1. PICK k \in 1..(p - 1) : q = k + 1
          <6>1. q - 1 \in 1..(p - 1) /\ q = (q - 1) + 1
            BY <4>2
          <6> QED BY <6>1
        <5>2. k \in 1..(Len(s) - 1)
          BY <1>1
        <5>3. Tail(s)[k] = s[q]
          BY <2>1, <5>1, <5>2
        <5> QED BY <5>1, <5>3
      <4> QED BY <4>1, <4>2
    <3> HIDE DEF r
    <3> QED BY <3>1, <3>2, <3>3
  <2> QED BY <2>1, <2>2, <2>3 DEF Led
<1>5. ASSUME NEW e \in S, Before(e) \subseteq R \cup ToSet(s) PROVE Led(R, Append(s, e))
  <2>1. PICK t : t = Append(s, e)
    OBVIOUS
  <2>2. /\ DOMAIN t = 1..(Len(s) + 1) /\ t[Len(s) + 1] = e
        /\ \A q \in 1..Len(s) : t[q] = s[q]
    BY <1>1, <2>1
  <2>3. ASSUME NEW p \in 1..(Len(s) + 1)
        PROVE  Before(t[p]) \subseteq R \cup {t[q] : q \in 1..(p - 1)}
    <3>1. CASE p = Len(s) + 1
      <4>1. p - 1 = Len(s)
        BY <1>1, <3>1
      <4>2. {t[q] : q \in 1..(p - 1)} = ToSet(s)
        BY <1>1, <2>2, <4>1 DEF ToSet
      <4> QED BY <1>5, <2>2, <3>1, <4>2
    <3>2. CASE p # Len(s) + 1
      <4>1. p \in DOMAIN s /\ 1..(p - 1) \subseteq 1..Len(s)
        BY <1>1, <3>2
      <4>2. {t[q] : q \in 1..(p - 1)} = {s[q] : q \in 1..(p - 1)}
        BY <2>2, <4>1
      <4>3. t[p] = s[p]
        BY <1>1, <2>2, <4>1
      <4> QED BY <1>2, <4>1, <4>2, <4>3
    <3> QED BY <3>1, <3>2
  <2> QED BY <2>1, <2>2, <2>3 DEF Led
<1> QED BY <1>3, <1>4, <1>5

\* An event comes at one place of the updates that become it.
LEMMA UpdatesLed == ASSUME ProviderLog, NEW i \in Accepted PROVE Led({}, EventsOf[i])
<1> SUFFICES ASSUME NEW p \in DOMAIN EventsOf[i], NEW j \in Accepted,
                    NEW k \in DOMAIN EventsOf[j], NEW l \in DOMAIN EventsOf[j],
                    k < l, EventsOf[j][l] = EventsOf[i][p]
             PROVE  EventsOf[j][k] \in {EventsOf[i][q] : q \in 1..(p - 1)}
  BY DEF Led, Before
<1>1. \A n \in Accepted : /\ DOMAIN EventsOf[n] = 1..Len(EventsOf[n])
                          /\ Len(EventsOf[n]) \in Nat
  BY AcceptedFacts
<1>2. j \in Transactions
  <2>1. Len(EventsOf[j]) > 1
    BY <1>1
  <2> QED BY <2>1, AcceptedFacts
<1>3. PICK e : e = EventsOf[i][p] /\ e \in ToSet(EventsOf[i]) /\ e \in ToSet(EventsOf[j])
  BY DEF ToSet
<1>4. /\ e.kind \in {"transaction", "instruction"}
      /\ e.slot = Updates[j].slot /\ e.signature = Updates[j].signature
  BY <1>2, <1>3, AcceptedFacts, PartFacts
<1>5. i \in Transactions
  BY <1>3, <1>4, AcceptedFacts
<1>6. e.slot = Updates[i].slot /\ e.signature = Updates[i].signature
  BY <1>3, <1>5, AcceptedFacts, PartFacts
<1>7. Updates[i] = Updates[j]
  BY <1>2, <1>4, <1>5, <1>6 DEF ProviderLog
<1>8. EventsOf[i] = EventsOf[j]
  BY <1>2, <1>5, <1>7, AcceptedFacts
<1>9. Once(EventsOf[i])
  <2>1. EventsOf[i] = TransactionEvents(Updates[i])
    BY <1>5, AcceptedFacts
  <2>2. Once(TransactionEvents(Updates[i]))
    BY <1>5, TransactionEventsOnce
  <2> QED BY <2>1, <2>2
<1>10. l = p
  BY <1>8, <1>9 DEF Once
<1>11. k \in 1..(p - 1)
  BY <1>1, <1>10
<1> QED BY <1>8, <1>11

(***************************************************************************)
(* From the table over the batch and the channel to the producer's hand,    *)
(* each event comes after the ones before it in its update.                 *)
(***************************************************************************)
OrderInv ==
    /\ \A row \in rows : Before(row) \subseteq rows
    /\ Led(rows, pending)
    /\ Led(rows \cup ToSet(pending), channel)
    /\ Led((rows \cup ToSet(pending)) \cup ToSet(channel), unsent)

LEMMA LedMore ==
    ASSUME NEW R, NEW Q, R \subseteq Q, NEW s, Led(R, s)
    PROVE  Led(Q, s)
BY DEF Led

LEMMA LedEmpty == ASSUME NEW R PROVE Led(R, <<>>)
BY DEF Led

LEMMA OrderStep ==
    ASSUME ProviderLog, DecimalTexts(Nat), HandsInv, OrderInv, [UpdatesNext]_updateVars
    PROVE  OrderInv'
<1>1. ASSUME UNCHANGED <<unsent, channel, pending, rows>> PROVE OrderInv'
  BY <1>1 DEF OrderInv
<1>2. CASE UpdatesClock BY <1>1, <1>2 DEF UpdatesClock, sourceVars, receiverVars
<1>3. CASE UpdatesOpened BY <1>1, <1>3 DEF UpdatesOpened, receiverVars
<1>4. ASSUME NEW kind, UpdatesFail(kind) PROVE OrderInv'
  BY <1>1, <1>4 DEF UpdatesFail, sourceVars, receiverVars
<1>5. CASE ReceiveUpdate
  <2>1. PICK i \in Accepted : unsent' = EventsOf[i] /\ UNCHANGED <<channel, pending, rows>>
    BY <1>5 DEF ReceiveUpdate, receiverVars
  <2>2. Led((rows \cup ToSet(pending)) \cup ToSet(channel), EventsOf[i])
    BY UpdatesLed, LedMore
  <2> QED BY <2>1, <2>2 DEF OrderInv
<1>6. CASE SkipMalformed BY <1>1, <1>6 DEF SkipMalformed, receiverVars
<1>7. CASE SendEvent
  <2>1. /\ unsent # <<>> /\ channel' = Append(channel, Head(unsent)) /\ unsent' = Tail(unsent)
        /\ UNCHANGED <<pending, rows>>
    BY <1>7 DEF SendEvent, receiverVars
  <2>2. PICK e \in AcceptedEvents : e = Head(unsent)
    BY <2>1 DEF HandsInv
  <2>3. PICK R : R = rows \cup ToSet(pending)
    OBVIOUS
  <2>4. Led(R, channel) /\ Led(R \cup ToSet(channel), unsent)
    BY <2>3 DEF OrderInv
  <2>5. Before(e) \subseteq R \cup ToSet(channel)
        /\ Led((R \cup ToSet(channel)) \cup {e}, Tail(unsent))
    BY <2>1, <2>2, <2>4, LedFacts DEF HandsInv
  <2>6. Led(R, Append(channel, e))
    BY <2>4, <2>5, LedFacts DEF HandsInv
  <2>7. ToSet(Append(channel, e)) = ToSet(channel) \cup {e}
    BY HandFacts DEF HandsInv
  <2>8. R \cup ToSet(Append(channel, e)) = (R \cup ToSet(channel)) \cup {e}
    BY <2>7
  <2>9. Led(R \cup ToSet(Append(channel, e)), Tail(unsent))
    BY <2>5, <2>8
  <2> QED BY <2>1, <2>2, <2>3, <2>6, <2>9 DEF OrderInv
<1>8. CASE ReceiveEvent
  <2>1. /\ channel # <<>> /\ pending' = Append(pending, Head(channel)) /\ channel' = Tail(channel)
        /\ UNCHANGED <<unsent, rows>>
    BY <1>8 DEF ReceiveEvent, sourceVars
  <2>2. PICK e \in AcceptedEvents : e = Head(channel)
    BY <2>1 DEF HandsInv
  <2>3. Before(e) \subseteq rows \cup ToSet(pending)
        /\ Led((rows \cup ToSet(pending)) \cup {e}, Tail(channel))
    BY <2>1, <2>2, LedFacts DEF HandsInv, OrderInv
  <2>4. Led(rows, Append(pending, e))
    BY <2>3, LedFacts DEF HandsInv, OrderInv
  <2>5. ToSet(Append(pending, e)) = ToSet(pending) \cup {e}
    BY HandFacts DEF HandsInv
  <2>6. ToSet(channel) = {e} \cup ToSet(Tail(channel))
    BY <2>1, <2>2, HandFacts DEF HandsInv
  <2>7. /\ rows \cup ToSet(Append(pending, e)) = (rows \cup ToSet(pending)) \cup {e}
        /\ (rows \cup ToSet(Append(pending, e))) \cup ToSet(Tail(channel))
             = (rows \cup ToSet(pending)) \cup ToSet(channel)
    BY <2>5, <2>6
  <2>8. /\ Led(rows \cup ToSet(Append(pending, e)), Tail(channel))
        /\ Led((rows \cup ToSet(Append(pending, e))) \cup ToSet(Tail(channel)), unsent)
    BY <2>3, <2>7 DEF OrderInv
  <2> QED BY <2>1, <2>2, <2>4, <2>8 DEF OrderInv
<1>9. CASE ChannelCloses BY <1>1, <1>9 DEF ChannelCloses, sourceVars
<1>10. ASSUME Insert(pending)
       PROVE  /\ rows' = rows \cup ToSet(pending)
              /\ \A row \in rows' : Before(row) \subseteq rows'
  <2>1. ToSet(pending) \subseteq AcceptedEvents
    BY DEF HandsInv, ToSet
  <2>2. rows' = rows \cup ToSet(pending)
    BY <1>10, <2>1, InsertTakesAll DEF HandsInv
  <2>3. \A e \in ToSet(pending) : Before(e) \subseteq rows \cup ToSet(pending)
    BY LedFacts DEF HandsInv, OrderInv
  <2> QED BY <2>2, <2>3 DEF OrderInv
<1>11. CASE WriteBatch
  <2>1. Insert(pending) /\ pending' = <<>> /\ UNCHANGED <<unsent, channel>>
    BY <1>11 DEF WriteBatch, sourceVars
  <2>2. ToSet(<<>>) = {}
    BY DEF ToSet
  <2>3. rows' \cup ToSet(pending') = rows \cup ToSet(pending)
    BY <1>10, <2>1, <2>2
  <2>4. Led(rows', pending')
    BY <2>1, LedEmpty
  <2> QED BY <1>10, <2>1, <2>3, <2>4 DEF OrderInv
<1>12. CASE PipelineStops
  <2>1. rows' = rows \/ Insert(pending)
    BY <1>12 DEF PipelineStops
  <2>2. \A row \in rows' : Before(row) \subseteq rows'
    BY <1>10, <2>1 DEF OrderInv
  <2>3. pending' = <<>> /\ channel' = <<>> /\ unsent' = <<>>
    BY <1>12 DEF PipelineStops
  <2>4. \A R : Led(R, <<>>)
    BY LedEmpty
  <2> QED BY <2>2, <2>3, <2>4 DEF OrderInv
<1>13. CASE UNCHANGED updateVars BY <1>1, <1>13 DEF updateVars, sourceVars, receiverVars
<1> QED
  BY <1>2, <1>3, <1>4, <1>5, <1>6, <1>7, <1>8, <1>9, <1>11, <1>12, <1>13 DEF UpdatesNext

(***************************************************************************)
(* What a failed write, a lost answer or a stop between two batches leaves  *)
(* of a transaction is a beginning of it: an instruction is stored only     *)
(* after the transaction and the instructions before it, whatever is sent   *)
(* again.                                                                   *)
(***************************************************************************)
THEOREM TransactionsInOrder ==
    ASSUME ProviderLog, DecimalTexts(Nat)
    PROVE  UpdatesSpec => []StoredInOrder
<1>1. OrderInv => StoredInOrder
  <2> SUFFICES ASSUME OrderInv, NEW i \in Accepted,
                      NEW k \in DOMAIN EventsOf[i], NEW l \in DOMAIN EventsOf[i],
                      k < l, EventsOf[i][l] \in rows
               PROVE  EventsOf[i][k] \in rows
    BY DEF StoredInOrder
  <2>1. EventsOf[i][k] \in Before(EventsOf[i][l])
    BY DEF Before
  <2> QED BY <2>1 DEF OrderInv
<1>2. UpdatesInit => HandsInv /\ UpdatesTypeOK /\ OrderInv
  <2> SUFFICES ASSUME UpdatesInit PROVE OrderInv
    BY UpdatesTypeInit
  <2>1. rows = {} /\ pending = <<>> /\ channel = <<>> /\ unsent = <<>>
    BY DEF UpdatesInit
  <2>2. \A R : Led(R, <<>>)
    BY LedEmpty
  <2> QED BY <2>1, <2>2 DEF OrderInv
<1>3. HandsInv /\ UpdatesTypeOK /\ OrderInv /\ [UpdatesNext]_updateVars =>
        (HandsInv /\ UpdatesTypeOK /\ OrderInv)'
  BY UpdatesTypeStep, OrderStep
<1> QED BY <1>1, <1>2, <1>3, PTL DEF UpdatesSpec
=============================================================================
