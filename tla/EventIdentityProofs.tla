------------------------ MODULE EventIdentityProofs -------------------------
(***************************************************************************)
(* The canonical key can be read back, so two events never share one:       *)
(* KeyTellsApart, for texts of any characters and any length.  An escaped   *)
(* text ends where the first bar that no backslash escapes begins, so each  *)
(* field of a key ends in one place, and the fields are read one after the  *)
(* other.                                                                   *)
(***************************************************************************)
EXTENDS EventIdentity, ReconnectLoopProofs, FiniteSetTheorems, FunctionTheorems

-----------------------------------------------------------------------------
\* What appending and flattening do to the elements of a sequence.
LEMMA AppendedSets ==
    ASSUME NEW S, NEW s \in Seq(S), NEW t \in Seq(S)
    PROVE  ToSet(s \o t) = ToSet(s) \cup ToSet(t)
<1>1. /\ DOMAIN s = 1..Len(s) /\ DOMAIN t = 1..Len(t) /\ Len(s) \in Nat /\ Len(t) \in Nat
      /\ DOMAIN (s \o t) = 1..(Len(s) + Len(t))
      /\ \A i \in 1..(Len(s) + Len(t)) : (s \o t)[i] = IF i <= Len(s) THEN s[i] ELSE t[i - Len(s)]
  OBVIOUS
<1>2. ASSUME NEW x \in ToSet(s) PROVE x \in ToSet(s \o t)
  <2>1. PICK i \in 1..Len(s) : s[i] = x
    BY <1>1 DEF ToSet
  <2>2. i \in 1..(Len(s) + Len(t)) /\ i <= Len(s)
    BY <1>1
  <2> QED BY <1>1, <2>1, <2>2 DEF ToSet
<1>3. ASSUME NEW x \in ToSet(t) PROVE x \in ToSet(s \o t)
  <2>1. PICK i \in 1..Len(t) : t[i] = x
    BY <1>1 DEF ToSet
  <2>2. Len(s) + i \in 1..(Len(s) + Len(t)) /\ ~(Len(s) + i <= Len(s)) /\ (Len(s) + i) - Len(s) = i
    BY <1>1
  <2> QED BY <1>1, <2>1, <2>2 DEF ToSet
<1>4. ASSUME NEW x \in ToSet(s \o t) PROVE x \in ToSet(s) \cup ToSet(t)
  <2>1. PICK i \in 1..(Len(s) + Len(t)) : (s \o t)[i] = x
    BY <1>1 DEF ToSet
  <2>2. i <= Len(s) \/ i - Len(s) \in 1..Len(t)
    BY <1>1
  <2>3. i <= Len(s) => i \in 1..Len(s)
    BY <1>1
  <2> QED BY <1>1, <2>1, <2>2, <2>3 DEF ToSet
<1> QED BY <1>2, <1>3, <1>4

\* A sequence is flattened by appending one sequence after the other.
Flattens(f, seqs) ==
    /\ f[1] = seqs[1]
    /\ \A i \in 2..Len(seqs) : f[i] = f[i - 1] \o seqs[i]

\* The recursion that flattens has a value, a sequence at every place.
LEMMA FlattenSteps ==
    ASSUME NEW S, NEW seqs \in Seq(Seq(S)), Len(seqs) # 0
    PROVE  \E f : /\ \A m \in 1..Len(seqs) : f[m] \in Seq(S)
                  /\ Flattens(f, seqs)
                  /\ FlattenSeq(seqs) = f[Len(seqs)]
<1> DEFINE n == Len(seqs)
           Is(f) == f = [i \in 1..n |-> IF i = 1 THEN seqs[i] ELSE f[i - 1] \o seqs[i]]
           flat == CHOOSE f : Is(f)
           step == [p \in Nat \X Seq(S) |-> p[2] \o (IF p[1] \in 1..n THEN seqs[p[1]] ELSE <<>>)]
<1>1. n \in Nat \ {0} /\ DOMAIN seqs = 1..n /\ \A i \in 1..n : seqs[i] \in Seq(S)
  OBVIOUS
<1>2. FlattenSeq(seqs) = flat[n]
  BY <1>1 DEF FlattenSeq
<1>3. PICK g \in [1..n -> Seq(S)] : Solves(g, 1, n, seqs[1], step)
  <2>1. step \in [Nat \X Seq(S) -> Seq(S)]
    <3> SUFFICES ASSUME NEW k \in Nat, NEW s \in Seq(S)
                 PROVE  s \o (IF k \in 1..n THEN seqs[k] ELSE <<>>) \in Seq(S)
      OBVIOUS
    <3> HIDE DEF n
    <3>1. (IF k \in 1..n THEN seqs[k] ELSE <<>>) \in Seq(S)
      BY <1>1
    <3> QED BY <3>1
  <2>2. 1 \in Nat /\ n \in Nat /\ 1 <= n /\ seqs[1] \in Seq(S)
    BY <1>1
  <2> HIDE DEF n, step, Is, flat
  <2> QED BY <2>1, <2>2, RecursionExists
<1> HIDE DEF n
<1>4. \A i \in 1..n : g[i] = IF i = 1 THEN seqs[i] ELSE g[i - 1] \o seqs[i]
  <2> SUFFICES ASSUME NEW i \in 1..n, i # 1 PROVE g[i] = g[i - 1] \o seqs[i]
    BY <1>1, <1>3 DEF Solves
  <2>1. i \in Nat /\ i - 1 \in 1..n
    BY <1>1
  <2>2. g[i - 1] \in Seq(S)
    BY <2>1
  <2>3. step[<<i, g[i - 1]>>] = g[i - 1] \o seqs[i]
    BY <2>1, <2>2
  <2> HIDE DEF step
  <2> QED BY <1>1, <1>3, <2>3 DEF Solves
<1>5. Is(g)
  <2> DEFINE h == [i \in 1..n |-> IF i = 1 THEN seqs[i] ELSE g[i - 1] \o seqs[i]]
  <2>1. DOMAIN g = DOMAIN h /\ \A i \in 1..n : g[i] = h[i]
    BY <1>4
  <2> QED BY <2>1
<1>6. Is(flat)
  <2> HIDE DEF Is
  <2> QED BY <1>5
<1> HIDE DEF flat
<1>7. \A i \in 1..n : flat[i] = IF i = 1 THEN seqs[i] ELSE flat[i - 1] \o seqs[i]
  BY <1>6
<1> HIDE DEF Is, step
<1>8. Flattens(flat, seqs)
  <2>1. 1 \in 1..n
    BY <1>1
  <2>2. \A i \in 2..n : i \in 1..n /\ i # 1
    BY <1>1
  <2> QED BY <1>7, <2>1, <2>2 DEF Flattens, n
<1>9. \A m \in 1..n : flat[m] \in Seq(S)
  <2> DEFINE Bad == {m \in 1..n : flat[m] \notin Seq(S)}
  <2> SUFFICES ASSUME Bad # {} PROVE FALSE
    OBVIOUS
  <2>1. Bad \in SUBSET Nat
    BY <1>1
  <2> HIDE DEF Bad
  <2>2. PICK m \in Bad : \A y \in Bad : m <= y
    BY <2>1, LeastNumber
  <2>3. m \in 1..n /\ flat[m] \notin Seq(S)
    BY <2>2 DEF Bad
  <2>4. CASE m = 1
    BY <1>1, <1>7, <2>3, <2>4
  <2>5. CASE m # 1
    <3>1. m - 1 \in 1..n /\ m - 1 \notin Bad
      BY <1>1, <2>2, <2>3, <2>5
    <3>2. flat[m - 1] \in Seq(S)
      BY <3>1 DEF Bad
    <3>3. flat[m] = flat[m - 1] \o seqs[m] /\ seqs[m] \in Seq(S)
      BY <1>1, <1>7, <2>3, <2>5
    <3> QED BY <2>3, <3>2, <3>3
  <2> QED BY <2>4, <2>5
<1> QED BY <1>2, <1>8, <1>9 DEF n

\* A flattened sequence holds what the sequences in it hold.
LEMMA FlattenFacts ==
    ASSUME NEW S, NEW seqs \in Seq(Seq(S))
    PROVE  /\ FlattenSeq(seqs) \in Seq(S)
           /\ ToSet(FlattenSeq(seqs)) = UNION {ToSet(seqs[g]) : g \in DOMAIN seqs}
<1> DEFINE n == Len(seqs)
           Upto(m) == UNION {ToSet(seqs[g]) : g \in 1..m}
<1>1. n \in Nat /\ DOMAIN seqs = 1..n /\ \A i \in 1..n : seqs[i] \in Seq(S)
  OBVIOUS
<1>2. CASE n = 0
  <2>1. seqs = <<>> /\ FlattenSeq(seqs) = seqs
    BY <1>2 DEF FlattenSeq
  <2>2. DOMAIN seqs = {} /\ <<>> \in Seq(S)
    BY <2>1
  <2>3. ToSet(seqs) = {} /\ UNION {ToSet(seqs[g]) : g \in DOMAIN seqs} = {}
    BY <2>2 DEF ToSet
  <2> QED BY <2>1, <2>2, <2>3
<1>3. CASE n # 0
  <2>1. PICK flat : /\ \A m \in 1..n : flat[m] \in Seq(S)
                    /\ Flattens(flat, seqs)
                    /\ FlattenSeq(seqs) = flat[n]
    BY <1>3, FlattenSteps
  <2>2. flat[1] = seqs[1] /\ \A i \in 2..n : flat[i] = flat[i - 1] \o seqs[i]
    BY <2>1 DEF Flattens
  <2> HIDE DEF n
  <2>3. \A m \in 1..n : ToSet(flat[m]) = Upto(m)
    <3> DEFINE Bad == {m \in 1..n : ToSet(flat[m]) # Upto(m)}
    <3> SUFFICES ASSUME Bad # {} PROVE FALSE
      OBVIOUS
    <3>1. Bad \in SUBSET Nat
      BY <1>1
    <3> HIDE DEF Bad
    <3>2. PICK m \in Bad : \A y \in Bad : m <= y
      BY <3>1, LeastNumber
    <3>3. m \in 1..n /\ ToSet(flat[m]) # Upto(m)
      BY <3>2 DEF Bad
    <3>4. CASE m = 1
      <4>1. Upto(m) = ToSet(seqs[1])
        BY <1>1, <3>4
      <4> QED BY <2>2, <3>3, <3>4, <4>1
    <3>5. CASE m # 1
      <4>1. m - 1 \in 1..n /\ m - 1 \notin Bad /\ m \in 2..n
        BY <1>1, <3>2, <3>3, <3>5
      <4>2. ToSet(flat[m - 1]) = Upto(m - 1)
        BY <4>1 DEF Bad
      <4>3. flat[m] = flat[m - 1] \o seqs[m] /\ seqs[m] \in Seq(S) /\ flat[m - 1] \in Seq(S)
        BY <1>1, <2>1, <2>2, <3>3, <4>1
      <4>4. ToSet(flat[m]) = ToSet(flat[m - 1]) \cup ToSet(seqs[m])
        BY <4>3, AppendedSets
      <4>5. Upto(m) = Upto(m - 1) \cup ToSet(seqs[m])
        <5>1. 1..m = 1..(m - 1) \cup {m}
          BY <1>1, <3>3
        <5> QED BY <5>1
      <4> QED BY <3>3, <4>2, <4>4, <4>5
    <3> QED BY <3>4, <3>5
  <2>4. n \in 1..n
    BY <1>1, <1>3
  <2> QED BY <1>1, <2>1, <2>3, <2>4
<1> QED BY <1>2, <1>3

\* A sequence without repetition.
Once(s) == \A k, l \in DOMAIN s : s[k] = s[l] => k = l

LEMMA OnceAppended ==
    ASSUME NEW S, NEW s \in Seq(S), NEW t \in Seq(S), Once(s), Once(t),
           ToSet(s) \cap ToSet(t) = {}
    PROVE  Once(s \o t)
<1>1. /\ DOMAIN s = 1..Len(s) /\ DOMAIN t = 1..Len(t) /\ Len(s) \in Nat /\ Len(t) \in Nat
      /\ DOMAIN (s \o t) = 1..(Len(s) + Len(t))
  OBVIOUS
<1>2. ASSUME NEW k \in 1..(Len(s) + Len(t))
      PROVE  \/ k \in DOMAIN s /\ (s \o t)[k] = s[k]
             \/ k - Len(s) \in DOMAIN t /\ (s \o t)[k] = t[k - Len(s)]
  BY <1>1
<1>3. ASSUME NEW k \in DOMAIN s, NEW l \in DOMAIN t PROVE s[k] # t[l]
  BY <1>3 DEF ToSet
<1>4. ASSUME NEW k \in 1..(Len(s) + Len(t)), NEW l \in 1..(Len(s) + Len(t)),
             (s \o t)[k] = (s \o t)[l]
      PROVE  k = l
  <2>1. CASE k \in DOMAIN s /\ (s \o t)[k] = s[k]
    <3>1. l \in DOMAIN s /\ (s \o t)[l] = s[l]
      BY <1>2, <1>3, <1>4, <2>1
    <3> QED BY <1>4, <2>1, <3>1 DEF Once
  <2>2. CASE k - Len(s) \in DOMAIN t /\ (s \o t)[k] = t[k - Len(s)]
    <3>1. l - Len(s) \in DOMAIN t /\ (s \o t)[l] = t[l - Len(s)]
      BY <1>2, <1>3, <1>4, <2>2
    <3>2. k - Len(s) = l - Len(s)
      BY <1>4, <2>2, <3>1 DEF Once
    <3> QED BY <1>1, <3>2
  <2> QED BY <1>2, <2>1, <2>2
<1> QED BY <1>1, <1>4 DEF Once

\* Sequences that share nothing and do not repeat are flattened to one that does not.
LEMMA FlattenOnce ==
    ASSUME NEW S, NEW seqs \in Seq(Seq(S)),
           \A g \in DOMAIN seqs : Once(seqs[g]),
           \A g, h \in DOMAIN seqs : g # h => ToSet(seqs[g]) \cap ToSet(seqs[h]) = {}
    PROVE  Once(FlattenSeq(seqs))
<1> DEFINE n == Len(seqs)
           Upto(m) == UNION {ToSet(seqs[g]) : g \in 1..m}
<1>1. n \in Nat /\ DOMAIN seqs = 1..n /\ \A i \in 1..n : seqs[i] \in Seq(S)
  OBVIOUS
<1>2. CASE n = 0
  <2>1. seqs = <<>> /\ FlattenSeq(seqs) = seqs
    BY <1>2 DEF FlattenSeq
  <2> QED BY <2>1 DEF Once
<1>3. CASE n # 0
  <2>1. PICK flat : /\ \A m \in 1..n : flat[m] \in Seq(S)
                    /\ Flattens(flat, seqs)
                    /\ FlattenSeq(seqs) = flat[n]
    BY <1>3, FlattenSteps
  <2>2. flat[1] = seqs[1] /\ \A i \in 2..n : flat[i] = flat[i - 1] \o seqs[i]
    BY <2>1 DEF Flattens
  <2> HIDE DEF n
  <2> DEFINE Good(m) == ToSet(flat[m]) = Upto(m) /\ Once(flat[m])
  <2>3. \A m \in 1..n : Good(m)
    <3> DEFINE Bad == {m \in 1..n : ~Good(m)}
    <3> SUFFICES ASSUME Bad # {} PROVE FALSE
      BY Zenon
    <3>1. Bad \in SUBSET Nat
      BY <1>1
    <3> HIDE DEF Bad
    <3>2. PICK m \in Bad : \A y \in Bad : m <= y
      BY <3>1, LeastNumber
    <3>3. m \in 1..n /\ ~Good(m)
      BY <3>2 DEF Bad
    <3>4. CASE m = 1
      <4>1. Upto(m) = ToSet(seqs[1])
        BY <1>1, <3>4
      <4> QED BY <1>1, <2>2, <3>3, <3>4, <4>1
    <3>5. CASE m # 1
      <4>1. m - 1 \in 1..n /\ m - 1 \notin Bad /\ m \in 2..n
        BY <1>1, <3>2, <3>3, <3>5
      <4>2. Good(m - 1)
        BY <4>1, Zenon DEF Bad
      <4>3. flat[m] = flat[m - 1] \o seqs[m] /\ seqs[m] \in Seq(S) /\ flat[m - 1] \in Seq(S)
        BY <1>1, <2>1, <2>2, <3>3, <4>1
      <4>4. ToSet(flat[m]) = ToSet(flat[m - 1]) \cup ToSet(seqs[m])
        BY <4>3, AppendedSets
      <4>5. Upto(m) = Upto(m - 1) \cup ToSet(seqs[m])
        <5>1. 1..m = 1..(m - 1) \cup {m}
          BY <1>1, <3>3
        <5> QED BY <5>1
      <4>6. \A g \in 1..(m - 1) : g \in 1..n /\ g # m
        BY <1>1, <3>3
      <4>7. Upto(m - 1) \cap ToSet(seqs[m]) = {}
        BY <1>1, <3>3, <4>6
      <4>8. Once(flat[m])
        <5>1. ToSet(flat[m - 1]) \cap ToSet(seqs[m]) = {} /\ Once(flat[m - 1]) /\ Once(seqs[m])
          BY <1>1, <3>3, <4>2, <4>7
        <5> QED BY <4>3, <5>1, OnceAppended
      <4> QED BY <3>3, <4>2, <4>4, <4>5, <4>8
    <3> QED BY <3>4, <3>5
  <2>4. n \in 1..n
    BY <1>1, <1>3
  <2> QED BY <1>1, <2>1, <2>3, <2>4
<1> QED BY <1>2, <1>3

-----------------------------------------------------------------------------
\* Sequences of one length are equal place by place.
LEMMA SameSeq ==
    ASSUME NEW S, NEW s \in Seq(S), NEW t \in Seq(S), Len(s) = Len(t),
           \A i \in 1..Len(s) : s[i] = t[i]
    PROVE  s = t
OBVIOUS

\* What a joined sequence holds, place by place.
LEMMA Joined ==
    ASSUME NEW S, NEW s \in Seq(S), NEW t \in Seq(S)
    PROVE  /\ s \o t \in Seq(S)
           /\ Len(s) \in Nat /\ Len(t) \in Nat /\ Len(s \o t) = Len(s) + Len(t)
           /\ \A i \in 1..Len(s) : (s \o t)[i] = s[i]
           /\ \A i \in 1..Len(t) : (s \o t)[Len(s) + i] = t[i]
OBVIOUS

\* Joining is associative,
LEMMA Regrouped ==
    ASSUME NEW S, NEW a \in Seq(S), NEW b \in Seq(S), NEW c \in Seq(S)
    PROVE  (a \o b) \o c = a \o (b \o c)
OBVIOUS

\* and the empty sequence is its unit.
LEMMA EmptyJoined ==
    ASSUME NEW S, NEW s \in Seq(S)
    PROVE  <<>> \in Seq(S) /\ <<>> \o s = s /\ s \o <<>> = s
OBVIOUS

\* Joined sequences are equal part by part when the first parts are as long.
LEMMA Parted ==
    ASSUME NEW S, NEW a \in Seq(S), NEW b \in Seq(S), NEW u \in Seq(S), NEW v \in Seq(S),
           Len(a) = Len(b), a \o u = b \o v
    PROVE  a = b /\ u = v
<1>1. \A i \in 1..Len(a) : a[i] = b[i]
  BY Joined
<1>2. a = b
  BY <1>1, SameSeq
<1>3. Len(u) = Len(v)
  <2>1. Len(a \o u) = Len(a) + Len(u) /\ Len(b \o v) = Len(b) + Len(v)
    BY Joined
  <2>2. Len(a) \in Nat /\ Len(u) \in Nat /\ Len(v) \in Nat
    OBVIOUS
  <2> QED BY <2>1, <2>2
<1>4. \A i \in 1..Len(u) : u[i] = v[i]
  <2> TAKE i \in 1..Len(u)
  <2>1. (a \o u)[Len(a) + i] = u[i] /\ (b \o v)[Len(b) + i] = v[i]
    BY <1>3, Joined
  <2> QED BY <2>1
<1>5. u = v
  BY <1>3, <1>4, SameSeq
<1> QED BY <1>2, <1>5

-----------------------------------------------------------------------------
\* The tokens of texts and keys: strings, the ones the code writes among them.
Tokens ==
    STRING \cup Special \cup {"none", "some:", "<none>"}
           \cup {"processed", "confirmed", "finalized", "dead"}
           \cup {"kind", "account", "block", "entry", "instruction", "slot", "transaction"}
           \cup {"cluster", "write_version", "txn_signature", "is_startup", "blockhash", "index",
                 "signature", "transaction_index", "instruction_index",
                 "inner_instruction_index", "program_id", "status", "a"}

\* Texts of strings are texts of tokens.
LEMMA TextsAreTokens == \A s \in Seq(STRING) : s \in Seq(Tokens)
<1>1. \A S, T : S \subseteq T => \A s \in Seq(S) : s \in Seq(T)
  OBVIOUS
<1>2. STRING \subseteq Tokens
  BY DEF Tokens
<1> QED BY <1>1, <1>2, Zenon

\* A character of a text in the key, and the escaped text built up to each.
Escaped(c) == IF c \in Special THEN <<"\\", c>> ELSE <<c>>

\* A special character becomes a backslash and itself, any other one itself.
LEMMA EscapedFacts ==
    ASSUME NEW c \in Tokens
    PROVE  /\ Escaped(c) \in Seq(Tokens) /\ Len(Escaped(c)) \in {1, 2}
           /\ c \in Special => Len(Escaped(c)) = 2 /\ Escaped(c)[1] = "\\" /\ Escaped(c)[2] = c
           /\ c \notin Special => Len(Escaped(c)) = 1 /\ Escaped(c)[1] = c
<1>1. PICK b \in Tokens : b = "\\"
  BY DEF Tokens, Special
<1>2. <<b, c>> \in Seq(Tokens) /\ <<c>> \in Seq(Tokens)
  OBVIOUS
<1> QED BY <1>1, <1>2 DEF Escaped

Escapes(f, t) ==
    /\ f[0] = <<>>
    /\ \A k \in 1..Len(t) : f[k] = f[k - 1] \o Escaped(t[k])

\* Escape appends one escaped character after the other.
LEMMA EscapeSteps ==
    ASSUME NEW t \in Seq(Tokens)
    PROVE  \E f : /\ \A k \in 0..Len(t) : f[k] \in Seq(Tokens)
                  /\ Escapes(f, t)
                  /\ Escape(t) = f[Len(t)]
<1> DEFINE seqs == [i \in DOMAIN t |-> Escaped(t[i])]
           n == Len(t)
<1>1. n \in Nat /\ DOMAIN t = 1..n /\ \A i \in 1..n : t[i] \in Tokens
  OBVIOUS
<1>2. \A i \in 1..n : Escaped(t[i]) \in Seq(Tokens)
  BY <1>1, EscapedFacts
<1>3. seqs \in Seq(Seq(Tokens)) /\ Len(seqs) = n /\ \A i \in 1..n : seqs[i] = Escaped(t[i])
  <2> HIDE DEF n
  <2> QED BY <1>1, <1>2
<1>4. Escape(t) = FlattenSeq(seqs)
  BY DEF Escape, Escaped
<1> HIDE DEF seqs, n
<1>5. CASE n = 0
  <2> DEFINE f == [k \in 0..0 |-> <<>>]
  <2>1. seqs = <<>> /\ FlattenSeq(seqs) = seqs
    BY <1>3, <1>5 DEF FlattenSeq
  <2>2. Escapes(f, t)
    BY <1>5 DEF Escapes, n
  <2>3. /\ \A k \in 0..n : f[k] \in Seq(Tokens)
        /\ Escape(t) = f[n]
    BY <1>4, <1>5, <2>1
  <2> HIDE DEF f
  <2> QED BY <2>2, <2>3 DEF n
<1>6. CASE n # 0
  <2>1. PICK g : /\ \A m \in 1..n : g[m] \in Seq(Tokens)
                 /\ Flattens(g, seqs)
                 /\ FlattenSeq(seqs) = g[n]
    BY <1>3, <1>6, FlattenSteps
  <2>2. g[1] = seqs[1] /\ \A i \in 2..n : g[i] = g[i - 1] \o seqs[i]
    BY <1>3, <2>1 DEF Flattens
  <2> DEFINE f == [k \in 0..n |-> IF k = 0 THEN <<>> ELSE g[k]]
  <2>3. \A k \in 1..n : f[k] = f[k - 1] \o Escaped(t[k])
    <3> TAKE k \in 1..n
    <3>1. CASE k = 1
      <4>1. f[k] = Escaped(t[k]) /\ f[k - 1] = <<>> /\ Escaped(t[k]) \in Seq(Tokens)
        BY <1>1, <1>2, <1>3, <2>2, <3>1
      <4>2. <<>> \o Escaped(t[k]) = Escaped(t[k])
        BY <4>1, EmptyJoined
      <4> QED BY <4>1, <4>2
    <3>2. CASE k # 1
      <4>1. k \in 2..n /\ k - 1 \in 1..n
        BY <1>1, <3>2
      <4>2. f[k] = g[k] /\ f[k - 1] = g[k - 1]
        BY <1>1, <4>1
      <4> QED BY <1>3, <2>2, <4>1, <4>2
    <3> QED BY <3>1, <3>2
  <2>4. /\ f[0] = <<>>
        /\ \A k \in 0..n : f[k] \in Seq(Tokens)
        /\ Escape(t) = f[n]
    BY <1>1, <1>4, <1>6, <2>1
  <2> HIDE DEF f
  <2>5. Escapes(f, t)
    BY <2>3, <2>4 DEF Escapes, n
  <2> QED BY <2>4, <2>5 DEF n
<1> QED BY <1>5, <1>6

\* What is built for a part of the text stays at the front.
Begins(p, q) == Len(p) <= Len(q) /\ \A i \in 1..Len(p) : q[i] = p[i]

\* Beginning with is reflexive and transitive, and a joined sequence begins with its
\* first part.
LEMMA BeginsFacts ==
    ASSUME NEW S
    PROVE  /\ \A p \in Seq(S) : Begins(p, p)
           /\ \A p, q \in Seq(S) : Begins(p, p \o q)
           /\ \A p, q, r \in Seq(S) : Begins(p, q) /\ Begins(q, r) => Begins(p, r)
<1>1. ASSUME NEW p \in Seq(S) PROVE Begins(p, p)
  BY DEF Begins
<1>2. ASSUME NEW p \in Seq(S), NEW q \in Seq(S) PROVE Begins(p, p \o q)
  BY Joined DEF Begins
<1>3. ASSUME NEW p \in Seq(S), NEW q \in Seq(S), NEW r \in Seq(S), Begins(p, q), Begins(q, r)
      PROVE  Begins(p, r)
  <2>1. Len(p) \in Nat /\ Len(q) \in Nat /\ Len(r) \in Nat
    OBVIOUS
  <2>2. \A i \in 1..Len(p) : i \in 1..Len(q)
    BY <1>3, <2>1 DEF Begins
  <2> QED BY <1>3, <2>1, <2>2 DEF Begins
<1> QED BY <1>1, <1>2, <1>3

\* The escaped text begins with what it was at every character.
LEMMA EscapeBegins ==
    ASSUME NEW t \in Seq(Tokens), NEW f, \A k \in 0..Len(t) : f[k] \in Seq(Tokens), Escapes(f, t)
    PROVE  \A k \in 0..Len(t) : Begins(f[k], f[Len(t)])
<1> DEFINE n == Len(t)
           Bad == {m \in 0..n : ~ \A k \in 0..m : Begins(f[k], f[m])}
<1>1. n \in Nat /\ \A k \in 1..n : f[k] = f[k - 1] \o Escaped(t[k]) /\ Escaped(t[k]) \in Seq(Tokens)
  <2>1. n \in Nat /\ \A k \in 1..n : t[k] \in Tokens
    OBVIOUS
  <2>2. \A k \in 1..n : f[k] = f[k - 1] \o Escaped(t[k])
    BY DEF Escapes
  <2> QED BY <2>1, <2>2, EscapedFacts
<1>2. \A k \in 0..n : f[k] \in Seq(Tokens)
  OBVIOUS
<1> HIDE DEF n
<1>3. ASSUME Bad # {} PROVE FALSE
  <2>1. Bad \in SUBSET Nat
    BY <1>1
  <2> HIDE DEF Bad
  <2>2. PICK m \in Bad : \A y \in Bad : m <= y
    BY <1>3, <2>1, LeastNumber
  <2>3. m \in 0..n
    BY <2>2 DEF Bad
  <2>4. PICK k \in 0..m : ~Begins(f[k], f[m])
    BY <2>2 DEF Bad
  <2>5. k \in 0..n /\ k # m
    BY <1>1, <1>2, <2>3, <2>4, BeginsFacts
  <2>6. m \in 1..n /\ m - 1 \in 0..n /\ k \in 0..(m - 1)
    BY <1>1, <2>3, <2>4, <2>5
  <2>7. m - 1 \notin Bad
    BY <2>2, <2>6
  <2>8. Begins(f[k], f[m - 1])
    BY <2>6, <2>7 DEF Bad
  <2>9. Begins(f[m - 1], f[m])
    <3>1. PICK p \in Seq(Tokens), q \in Seq(Tokens) : p = f[m - 1] /\ q = Escaped(t[m])
      BY <1>1, <1>2, <2>6
    <3>2. Begins(p, p \o q)
      BY BeginsFacts
    <3> QED BY <1>1, <2>6, <3>1, <3>2
  <2> QED BY <1>2, <2>3, <2>4, <2>5, <2>6, <2>8, <2>9, BeginsFacts
<1>4. n \in 0..n /\ n \notin Bad
  BY <1>1, <1>3
<1> QED BY <1>4 DEF n

\* The next character of an escaped text is read off the key.
LEMMA NextCharacter ==
    ASSUME NEW w \in Seq(Tokens), NEW p \in Seq(Tokens), NEW a \in Tokens, NEW b \in Tokens,
           Begins(p \o Escaped(a), w), Begins(p \o Escaped(b), w)
    PROVE  a = b /\ w[Len(p) + 1] # "|" /\ Len(w) >= Len(p) + 1
<1>2. ASSUME NEW c \in Tokens, Begins(p \o Escaped(c), w)
      PROVE  /\ Len(w) >= Len(p) + 1
             /\ w[Len(p) + 1] = Escaped(c)[1]
             /\ c \in Special => w[Len(p) + 2] = c
  <2>1. /\ Len(p \o Escaped(c)) = Len(p) + Len(Escaped(c))
        /\ Len(p) \in Nat /\ Len(w) \in Nat /\ Len(Escaped(c)) \in {1, 2}
    BY EscapedFacts
  <2>2. /\ (p \o Escaped(c))[Len(p) + 1] = Escaped(c)[1]
        /\ c \in Special => (p \o Escaped(c))[Len(p) + 2] = Escaped(c)[2]
    BY EscapedFacts, Joined
  <2>3. /\ Len(p) + 1 \in 1..Len(p \o Escaped(c))
        /\ c \in Special => Len(p) + 2 \in 1..Len(p \o Escaped(c))
    BY EscapedFacts, <2>1
  <2>4. \A i \in 1..Len(p \o Escaped(c)) : w[i] = (p \o Escaped(c))[i]
    BY <1>2 DEF Begins
  <2>5. Len(p) + Len(Escaped(c)) <= Len(w)
    BY <1>2, <2>1 DEF Begins
  <2>6. Len(w) >= Len(p) + 1
    <3>1. PICK k \in {1, 2} : k = Len(Escaped(c))
      BY <2>1
    <3>2. PICK l \in Nat, m \in Nat : l = Len(p) /\ m = Len(w)
      OBVIOUS
    <3>3. l + k <= m
      BY <2>5, <3>1, <3>2
    <3>4. k \in Nat /\ k >= 1
      OBVIOUS
    <3>5. m >= l + 1
      BY <3>3, <3>4
    <3> QED BY <3>2, <3>5
  <2>7. c \in Special => Escaped(c)[2] = c
    BY EscapedFacts
  <2> QED BY <2>2, <2>3, <2>4, <2>6, <2>7
<1>3. "\\" # "|" /\ "\\" \in Special /\ "|" \in Special
  BY DEF Special
<1>4. /\ Len(w) >= Len(p) + 1
      /\ w[Len(p) + 1] = Escaped(a)[1] /\ w[Len(p) + 1] = Escaped(b)[1]
      /\ a \in Special => w[Len(p) + 2] = a
      /\ b \in Special => w[Len(p) + 2] = b
  BY <1>2
<1>5. \A c \in Tokens : Escaped(c)[1] = IF c \in Special THEN "\\" ELSE c
  BY EscapedFacts
<1>6. w[Len(p) + 1] # "|"
  BY <1>3, <1>4, <1>5
<1>7. a \in Special <=> b \in Special
  BY <1>3, <1>4, <1>5
<1>8. a = b
  <2>1. CASE a \in Special BY <1>4, <1>7, <2>1
  <2>2. CASE a \notin Special BY <1>4, <1>5, <1>7, <2>2
  <2> QED BY <2>1, <2>2
<1> QED BY <1>4, <1>6, <1>8

\* What may follow a value in a key.
Tails == {u \in Seq(Tokens) : u = <<>> \/ u[1] = "|"}

\* An escaped text ends where the next field begins.
LEMMA EscapeNotLonger ==
    ASSUME NEW s \in Seq(Tokens), NEW t \in Seq(Tokens), Len(s) <= Len(t),
           NEW u \in Tails, NEW v \in Tails, Escape(s) \o u = Escape(t) \o v
    PROVE  s = t
<1>1. PICK f : /\ \A k \in 0..Len(s) : f[k] \in Seq(Tokens)
               /\ Escapes(f, s)
               /\ Escape(s) = f[Len(s)]
  BY EscapeSteps
<1>2. PICK g : /\ \A k \in 0..Len(t) : g[k] \in Seq(Tokens)
               /\ Escapes(g, t)
               /\ Escape(t) = g[Len(t)]
  BY EscapeSteps
<1>3. PICK n \in Nat, m \in Nat : n = Len(s) /\ m = Len(t)
  OBVIOUS
<1>4. /\ u \in Seq(Tokens) /\ v \in Seq(Tokens) /\ (u = <<>> \/ u[1] = "|")
      /\ f[n] \in Seq(Tokens) /\ g[m] \in Seq(Tokens) /\ n <= m
  BY <1>1, <1>2, <1>3 DEF Tails
<1>5. PICK w \in Seq(Tokens) : w = f[n] \o u /\ w = g[m] \o v
  BY <1>1, <1>2, <1>3, <1>4, Joined
<1>6. \A k \in 0..n : Begins(f[k], w)
  <2> TAKE k \in 0..n
  <2>1. Begins(f[k], f[n]) /\ f[k] \in Seq(Tokens)
    BY <1>1, <1>3, EscapeBegins
  <2>2. Begins(f[n], w)
    <3>1. PICK p \in Seq(Tokens), q \in Seq(Tokens) : p = f[n] /\ q = u
      BY <1>4
    <3>2. Begins(p, p \o q)
      BY BeginsFacts
    <3> QED BY <1>5, <3>1, <3>2
  <2> QED BY <1>4, <2>1, <2>2, BeginsFacts
<1>7. \A k \in 0..m : Begins(g[k], w)
  <2> TAKE k \in 0..m
  <2>1. Begins(g[k], g[m]) /\ g[k] \in Seq(Tokens)
    BY <1>2, <1>3, EscapeBegins
  <2>2. Begins(g[m], w)
    <3>1. PICK p \in Seq(Tokens), q \in Seq(Tokens) : p = g[m] /\ q = v
      BY <1>4
    <3>2. Begins(p, p \o q)
      BY BeginsFacts
    <3> QED BY <1>5, <3>1, <3>2
  <2> QED BY <1>4, <2>1, <2>2, BeginsFacts
<1>8. /\ f[0] = <<>> /\ g[0] = <<>>
      /\ \A k \in 1..n : f[k] = f[k - 1] \o Escaped(s[k]) /\ s[k] \in Tokens
      /\ \A k \in 1..m : g[k] = g[k - 1] \o Escaped(t[k]) /\ t[k] \in Tokens
  <2>1. \A k \in 1..n : s[k] \in Tokens
    BY <1>3
  <2>2. \A k \in 1..m : t[k] \in Tokens
    BY <1>3
  <2>3. f[0] = <<>> /\ \A k \in 1..n : f[k] = f[k - 1] \o Escaped(s[k])
    BY <1>1, <1>3 DEF Escapes
  <2>4. g[0] = <<>> /\ \A k \in 1..m : g[k] = g[k - 1] \o Escaped(t[k])
    BY <1>2, <1>3 DEF Escapes
  <2> QED BY <2>1, <2>2, <2>3, <2>4
<1> DEFINE Bad == {k \in 0..n : ~(f[k] = g[k] /\ (k # 0 => s[k] = t[k]))}
<1>9. ASSUME Bad # {} PROVE FALSE
  <2>1. Bad \in SUBSET Nat
    BY <1>3
  <2> HIDE DEF Bad
  <2>2. PICK k \in Bad : \A y \in Bad : k <= y
    BY <1>9, <2>1, LeastNumber
  <2>3. k \in 0..n /\ ~(f[k] = g[k] /\ (k # 0 => s[k] = t[k]))
    BY <2>2 DEF Bad
  <2>4. k # 0
    BY <1>8, <2>3
  <2>5. k \in 1..n /\ k \in 1..m /\ k - 1 \in 0..n /\ k - 1 \in 0..m /\ k - 1 \notin Bad /\ k \in 0..m
    BY <1>3, <1>4, <2>2, <2>3, <2>4
  <2>6. f[k - 1] = g[k - 1]
    BY <2>5 DEF Bad
  <2>7. PICK p \in Seq(Tokens), a \in Tokens, b \in Tokens :
          p = f[k - 1] /\ a = s[k] /\ b = t[k]
    BY <1>1, <1>3, <1>8, <2>5
  <2>8. Begins(p \o Escaped(a), w) /\ Begins(p \o Escaped(b), w)
    <3>1. f[k] = p \o Escaped(a) /\ g[k] = p \o Escaped(b)
      BY <1>8, <2>5, <2>6, <2>7
    <3>2. Begins(f[k], w) /\ Begins(g[k], w)
      BY <1>6, <1>7, <2>5
    <3> QED BY <3>1, <3>2
  <2>9. a = b
    BY <2>8, NextCharacter
  <2> QED BY <1>8, <2>3, <2>5, <2>6, <2>7, <2>9
<1>10. \A k \in 1..n : s[k] = t[k]
  BY <1>9
<1>11. f[n] = g[n]
  BY <1>3, <1>9
<1>12. n = m
  <2> SUFFICES ASSUME n < m PROVE FALSE
    BY <1>4
  <2>1. n + 1 \in 1..m /\ n + 1 \in 0..m /\ n \in 0..m /\ (n + 1) - 1 = n
    BY <1>3
  <2>2. PICK p \in Seq(Tokens), a \in Tokens : p = f[n] /\ a = t[n + 1]
    BY <1>4, <1>8, <2>1
  <2>3. Begins(p \o Escaped(a), w)
    BY <1>7, <1>8, <1>11, <2>1, <2>2
  <2>4. w[Len(p) + 1] # "|" /\ Len(w) >= Len(p) + 1
    BY <2>3, NextCharacter
  <2>5. w = p \o u
    BY <1>5, <2>2
  <2>6. Len(w) = Len(p) + Len(u) /\ Len(p) \in Nat /\ Len(u) \in Nat
    BY <1>4, <2>5, Joined
  <2>7. 1 \in 1..Len(u)
    BY <2>4, <2>6
  <2>8. w[Len(p) + 1] = u[1]
    BY <1>4, <2>5, <2>7, Joined
  <2>9. u # <<>>
    BY <2>7
  <2> QED BY <1>4, <2>4, <2>8, <2>9
<1> QED BY <1>3, <1>10, <1>12, SameSeq

\* An escaped text before an end or a bar tells the text and what follows it.
LEMMA EscapeCut ==
    ASSUME NEW s \in Seq(Tokens), NEW t \in Seq(Tokens), NEW u \in Tails, NEW v \in Tails,
           Escape(s) \o u = Escape(t) \o v
    PROVE  s = t /\ u = v
<1>1. Len(s) \in Nat /\ Len(t) \in Nat
  OBVIOUS
<1>2. s = t
  <2>1. CASE Len(s) <= Len(t)
    BY <2>1, EscapeNotLonger
  <2>2. CASE Len(t) <= Len(s)
    BY <2>2, EscapeNotLonger
  <2> QED BY <1>1, <2>1, <2>2
<1>3. Escape(s) \in Seq(Tokens) /\ u \in Seq(Tokens) /\ v \in Seq(Tokens)
  <2>1. Len(s) \in 0..Len(s)
    BY <1>1
  <2> QED BY <2>1, EscapeSteps DEF Tails
<1> QED BY <1>2, <1>3, Parted

-----------------------------------------------------------------------------
(***************************************************************************)
(* The values of a key end where the next field begins, so a key is read    *)
(* field by field.                                                          *)
(***************************************************************************)
Cuts(x, y) ==
    /\ x \in Seq(Tokens) /\ y \in Seq(Tokens)
    /\ \A u, v \in Tails : x \o u = y \o v => x = y /\ u = v

\* Joining of tokens regrouped, and the sequence of one token.
LEMMA Grouped ==
    \A a, b, c \in Seq(Tokens) : (a \o b) \o c = a \o (b \o c)
BY Regrouped

LEMMA Short ==
    ASSUME NEW S, NEW a \in S, NEW b \in S, NEW c \in S
    PROVE  /\ <<a>> \in Seq(S) /\ Len(<<a>>) = 1 /\ <<a>>[1] = a
           /\ <<a, b, c>> \in Seq(S) /\ Len(<<a, b, c>>) = 3 /\ <<a, b, c>>[1] = a
OBVIOUS

\* One token, an escaped text, and below an option, a number and a field: whatever
\* follows, two of them agree only where they are equal.
LEMMA TokenCuts ==
    ASSUME NEW a \in Tokens, NEW b \in Tokens
    PROVE  Cuts(<<a>>, <<b>>) /\ (<<a>> = <<b>> => a = b)
<1>1. /\ <<a>> \in Seq(Tokens) /\ Len(<<a>>) = 1 /\ <<a>>[1] = a
      /\ <<b>> \in Seq(Tokens) /\ Len(<<b>>) = 1 /\ <<b>>[1] = b
  BY Short
<1>2. PICK x \in Seq(Tokens) : x = <<a>>
  BY <1>1
<1>3. PICK y \in Seq(Tokens) : y = <<b>>
  BY <1>1
<1>4. ASSUME NEW u \in Tails, NEW v \in Tails, x \o u = y \o v PROVE x = y /\ u = v
  <2>1. u \in Seq(Tokens) /\ v \in Seq(Tokens)
    BY DEF Tails
  <2>2. Len(x) = Len(y)
    BY <1>1, <1>2, <1>3
  <2> QED BY <1>4, <2>1, <2>2, Parted
<1>5. Cuts(x, y)
  BY <1>4 DEF Cuts
<1> QED BY <1>1, <1>2, <1>3, <1>5

\* A text is read back from its escaped form.
LEMMA EscapeCuts ==
    ASSUME NEW s \in Seq(Tokens), NEW t \in Seq(Tokens)
    PROVE  Cuts(Escape(s), Escape(t)) /\ (Escape(s) = Escape(t) => s = t)
<1>1. \A r \in Seq(Tokens) : Escape(r) \in Seq(Tokens)
  <2> TAKE r \in Seq(Tokens)
  <2>1. Len(r) \in 0..Len(r)
    OBVIOUS
  <2> QED BY <2>1, EscapeSteps
<1>2. \A u, v \in Tails : Escape(s) \o u = Escape(t) \o v => s = t /\ u = v
  BY EscapeCut
<1>3. <<>> \in Tails
  BY DEF Tails
<1>4. Escape(s) = Escape(t) => s = t
  BY <1>2, <1>3
<1>5. Cuts(Escape(s), Escape(t))
  BY <1>1, <1>2 DEF Cuts
<1> QED BY <1>4, <1>5

\* An absent or present text, an absent or present index.
OptionalText == {{}} \cup {{t} : t \in Seq(Tokens)}
OptionalIndex == {{}} \cup {{n} : n \in Nat}

\* A value after the word that says it is there.
LEMMA LedCuts ==
    ASSUME NEW head \in Seq(Tokens), NEW x, NEW y, Cuts(x, y)
    PROVE  Cuts(head \o x, head \o y) /\ (head \o x = head \o y => x = y)
<1>1. x \in Seq(Tokens) /\ y \in Seq(Tokens)
  BY DEF Cuts
<1>2. head \o x \in Seq(Tokens) /\ head \o y \in Seq(Tokens)
  BY <1>1
<1>3. head \o x = head \o y => x = y
  BY <1>1, Parted
<1>4. ASSUME NEW u \in Tails, NEW v \in Tails, (head \o x) \o u = (head \o y) \o v
      PROVE  head \o x = head \o y /\ u = v
  <2>1. u \in Seq(Tokens) /\ v \in Seq(Tokens)
    BY DEF Tails
  <2>2. (head \o x) \o u = head \o (x \o u)
    BY <1>1, <2>1, Grouped, Zenon
  <2>3. (head \o y) \o v = head \o (y \o v)
    BY <1>1, <2>1, Grouped, Zenon
  <2>4. PICK l \in Seq(Tokens) : l = x \o u
    BY <1>1, <2>1, Joined
  <2>5. PICK r \in Seq(Tokens) : r = y \o v
    BY <1>1, <2>1, Joined
  <2>6. head \o l = head \o r
    BY <1>4, <2>2, <2>3, <2>4, <2>5
  <2>7. l = r
    BY <2>6, Parted
  <2> QED BY <2>4, <2>5, <2>7 DEF Cuts
<1> QED BY <1>2, <1>3, <1>4 DEF Cuts

\* An option is read back from encode_optional.
LEMMA OptionalCuts ==
    ASSUME NEW x \in OptionalText, NEW y \in OptionalText
    PROVE  /\ Cuts(EncodeOptional(x), EncodeOptional(y))
           /\ EncodeOptional(x) = EncodeOptional(y) => x = y
<1>1. PICK none \in Tokens : none = "none"
  BY DEF Tokens
<1>2. PICK some \in Tokens : some = "some:"
  BY DEF Tokens
<1>3. /\ <<none>> \in Seq(Tokens) /\ Len(<<none>>) = 1 /\ <<none>>[1] = none
      /\ <<some>> \in Seq(Tokens) /\ Len(<<some>>) = 1 /\ <<some>>[1] = some
  BY Short
<1>4. PICK absent \in Seq(Tokens) : absent = <<none>>
  BY <1>3
<1>5. PICK present \in Seq(Tokens) : present = <<some>>
  BY <1>3
<1>6. Len(absent) = 1 /\ Len(present) = 1 /\ absent # present
  BY <1>1, <1>2, <1>3, <1>4, <1>5
<1>7. EncodeOptional({}) = absent
  BY <1>1, <1>4 DEF EncodeOptional
<1>8. ASSUME NEW t \in Seq(Tokens)
      PROVE  EncodeOptional({t}) = present \o Escape(t) /\ Escape(t) \in Seq(Tokens)
  <2>1. {t} # {} /\ (CHOOSE text \in {t} : TRUE) = t
    OBVIOUS
  <2>2. EncodeOptional({t}) = <<"some:">> \o Escape(t)
    BY <2>1 DEF EncodeOptional
  <2>3. Escape(t) \in Seq(Tokens)
    BY EscapeCuts DEF Cuts
  <2> QED BY <1>2, <1>5, <2>2, <2>3
<1>9. ASSUME NEW t \in Seq(Tokens), NEW u \in Seq(Tokens), NEW v \in Seq(Tokens)
      PROVE  absent \o u # EncodeOptional({t}) \o v
  <2>1. PICK e \in Seq(Tokens) : e = Escape(t)
    BY <1>8
  <2>2. \A a, b, c \in Seq(Tokens) : (a \o b) \o c = a \o (b \o c)
    BY Grouped
  <2>3. (present \o e) \o v = present \o (e \o v)
    BY <2>2
  <2>4. EncodeOptional({t}) = present \o e
    BY <1>8, <2>1
  <2>5. PICK r \in Seq(Tokens) : r = e \o v
    BY Joined
  <2>6. absent \o u # present \o r
    BY <1>6, Parted
  <2> QED BY <2>3, <2>4, <2>5, <2>6
<1>10. ASSUME NEW s \in Seq(Tokens), NEW t \in Seq(Tokens)
       PROVE  /\ Cuts(EncodeOptional({s}), EncodeOptional({t}))
              /\ EncodeOptional({s}) = EncodeOptional({t}) => {s} = {t}
  <2>1. Cuts(Escape(s), Escape(t)) /\ (Escape(s) = Escape(t) => s = t)
    BY EscapeCuts
  <2>2. /\ Cuts(present \o Escape(s), present \o Escape(t))
        /\ present \o Escape(s) = present \o Escape(t) => Escape(s) = Escape(t)
    BY <2>1, LedCuts
  <2>3. EncodeOptional({s}) = present \o Escape(s) /\ EncodeOptional({t}) = present \o Escape(t)
    BY <1>8
  <2> QED BY <2>1, <2>2, <2>3
<1>11. \A u \in Tails : u \in Seq(Tokens)
  BY DEF Tails
<1>12. ASSUME NEW s \in Seq(Tokens), x = {}, y = {s}
       PROVE  Cuts(EncodeOptional(x), EncodeOptional(y)) /\ EncodeOptional(x) # EncodeOptional(y)
  <2>1. EncodeOptional(x) = absent /\ EncodeOptional(y) = EncodeOptional({s})
    BY <1>7, <1>12
  <2>2. EncodeOptional({s}) \in Seq(Tokens)
    BY <1>10 DEF Cuts
  <2>3. \A u, v \in Tails : absent \o u # EncodeOptional({s}) \o v
    BY <1>9, <1>11
  <2>4. <<>> \in Tails
    BY DEF Tails
  <2> QED BY <2>1, <2>2, <2>3, <2>4 DEF Cuts
<1>13. ASSUME NEW s \in Seq(Tokens), y = {}, x = {s}
       PROVE  Cuts(EncodeOptional(x), EncodeOptional(y)) /\ EncodeOptional(x) # EncodeOptional(y)
  <2>1. EncodeOptional(y) = absent /\ EncodeOptional(x) = EncodeOptional({s})
    BY <1>7, <1>13
  <2>2. EncodeOptional({s}) \in Seq(Tokens)
    BY <1>10 DEF Cuts
  <2>3. \A u, v \in Tails : absent \o u # EncodeOptional({s}) \o v
    BY <1>9, <1>11
  <2>4. <<>> \in Tails
    BY DEF Tails
  <2> QED BY <2>1, <2>2, <2>3, <2>4 DEF Cuts
<1>14. CASE x = {} /\ y = {}
  <2>1. Cuts(<<none>>, <<none>>)
    BY TokenCuts
  <2> QED BY <1>4, <1>7, <1>14, <2>1
<1>15. \A o \in OptionalText : o = {} \/ \E s \in Seq(Tokens) : o = {s}
  BY DEF OptionalText
<1>16. CASE x = {} /\ y # {}
  <2>1. PICK s \in Seq(Tokens) : y = {s}
    BY <1>15, <1>16
  <2> QED BY <1>12, <1>16, <2>1
<1>17. CASE x # {} /\ y = {}
  <2>1. PICK s \in Seq(Tokens) : x = {s}
    BY <1>15, <1>17
  <2> QED BY <1>13, <1>17, <2>1
<1>18. CASE x # {} /\ y # {}
  <2>1. PICK s \in Seq(Tokens) : x = {s}
    BY <1>15, <1>18
  <2>2. PICK t \in Seq(Tokens) : y = {t}
    BY <1>15, <1>18
  <2> QED BY <1>10, <2>1, <2>2
<1> QED BY <1>14, <1>16, <1>17, <1>18

\* The optional index of an inner instruction is read back.
LEMMA IndexCuts ==
    ASSUME DecimalTexts(Nat), NEW x \in OptionalIndex, NEW y \in OptionalIndex
    PROVE  /\ Cuts(EncodeIndex(x), EncodeIndex(y))
           /\ EncodeIndex(x) = EncodeIndex(y) => x = y
<1> DEFINE text(o) == IF o = {} THEN "<none>" ELSE ToString(CHOOSE n \in o : TRUE)
<1>1. /\ \A n \in Nat : ToString(n) \in Tokens /\ ToString(n) # "<none>"
      /\ \A m, n \in Nat : ToString(m) = ToString(n) => m = n
      /\ "<none>" \in Tokens
  BY DEF DecimalTexts, Tokens
<1>2. \A n \in Nat : text({n}) = ToString(n)
  <2> TAKE n \in Nat
  <2>1. {n} # {} /\ (CHOOSE m \in {n} : TRUE) = n
    OBVIOUS
  <2> QED BY <2>1
<1>3. text({}) = "<none>"
  OBVIOUS
<1>4. \A o \in OptionalIndex : EncodeIndex(o) = <<text(o)>>
  BY DEF EncodeIndex
<1>5. \A o \in OptionalIndex : o = {} \/ \E n \in Nat : o = {n}
  BY DEF OptionalIndex
<1> HIDE DEF text
<1>6. \A o \in OptionalIndex : text(o) \in Tokens
  <2> TAKE o \in OptionalIndex
  <2>1. ASSUME NEW n \in Nat, o = {n} PROVE text(o) \in Tokens
    BY <1>1, <1>2, <2>1
  <2>2. CASE o = {}
    BY <1>1, <1>3, <2>2
  <2> QED BY <1>5, <2>1, <2>2
<1>7. ASSUME text(x) = text(y) PROVE x = y
  <2>1. ASSUME NEW n \in Nat, NEW m \in Nat, x = {n}, y = {m} PROVE x = y
    <3>1. ToString(n) = ToString(m)
      BY <1>2, <1>7, <2>1
    <3> QED BY <1>1, <2>1, <3>1
  <2>2. ASSUME NEW n \in Nat, x = {n} PROVE y # {}
    BY <1>1, <1>2, <1>3, <1>7, <2>2
  <2>3. ASSUME NEW n \in Nat, y = {n} PROVE x # {}
    BY <1>1, <1>2, <1>3, <1>7, <2>3
  <2> QED BY <1>5, <2>1, <2>2, <2>3, Zenon
<1> QED BY <1>4, <1>6, <1>7, TokenCuts

\* A number is read back from its decimal text.
LEMMA NumberCuts ==
    ASSUME DecimalTexts(Nat), NEW m \in Nat, NEW n \in Nat
    PROVE  /\ Cuts(<<ToString(m)>>, <<ToString(n)>>)
           /\ <<ToString(m)>> = <<ToString(n)>> => m = n
<1>1. ToString(m) \in Tokens /\ ToString(n) \in Tokens
  BY DEF DecimalTexts, Tokens
<1>2. ToString(m) = ToString(n) => m = n
  BY DEF DecimalTexts
<1> QED BY <1>1, <1>2, TokenCuts

\* Values that are fields themselves, and begin as what may follow a value does.
Fielded(x, y) == Cuts(x, y) /\ x \in Tails /\ y \in Tails

\* A field ends where its value does.
LEMMA FieldCuts ==
    ASSUME NEW name \in Tokens, NEW x, NEW y, Cuts(x, y)
    PROVE  /\ Fielded(Field(name, x), Field(name, y))
           /\ Field(name, x) = Field(name, y) => x = y
<1>1. PICK bar \in Tokens : bar = "|"
  BY DEF Tokens, Special
<1>2. PICK equals \in Tokens : equals = "="
  BY DEF Tokens, Special
<1>3. PICK head : head = <<bar, name, equals>>
  OBVIOUS
<1>4. head \in Seq(Tokens) /\ Len(head) = 3 /\ head[1] = "|"
  BY <1>1, <1>3, Short
<1>5. Field(name, x) = head \o x /\ Field(name, y) = head \o y
  BY <1>1, <1>2, <1>3 DEF Field
<1>6. \A r \in Seq(Tokens) : head \o r \in Tails
  <2> TAKE r \in Seq(Tokens)
  <2>1. 1 \in 1..Len(head)
    BY <1>4
  <2> QED BY <1>4, <2>1, Joined DEF Tails
<1>7. x \in Seq(Tokens) /\ y \in Seq(Tokens)
  BY DEF Cuts
<1>8. Cuts(head \o x, head \o y) /\ (head \o x = head \o y => x = y)
  BY <1>4, LedCuts
<1> QED BY <1>5, <1>6, <1>7, <1>8 DEF Fielded

\* Fields are read one after the other.
LEMMA JoinedCuts ==
    ASSUME NEW p, NEW q, Fielded(p, q), NEW x, NEW y, Fielded(x, y)
    PROVE  Fielded(p \o x, q \o y) /\ (p \o x = q \o y => p = q /\ x = y)
<1>1. /\ p \in Seq(Tokens) /\ q \in Seq(Tokens) /\ x \in Seq(Tokens) /\ y \in Seq(Tokens)
      /\ p \in Tails /\ q \in Tails /\ x \in Tails /\ y \in Tails
      /\ \A u \in Tails : u \in Seq(Tokens)
  BY DEF Fielded, Cuts, Tails
<1>2. ASSUME NEW s \in Tails, NEW t \in Tails PROVE s \o t \in Tails /\ s \o t \in Seq(Tokens)
  <2>1. s \o t \in Seq(Tokens)
    BY <1>1, Joined
  <2>2. CASE s = <<>>
    BY <1>1, <2>2, EmptyJoined
  <2>3. CASE s # <<>>
    <3>1. s[1] = "|" /\ 1 \in 1..Len(s)
      BY <1>1, <2>3 DEF Tails
    <3>2. (s \o t)[1] = s[1]
      BY <1>1, <3>1, Joined
    <3> QED BY <2>1, <3>1, <3>2 DEF Tails
  <2> QED BY <2>1, <2>2, <2>3
<1>3. p \o x = q \o y => p = q /\ x = y
  BY <1>1 DEF Fielded, Cuts
<1>4. ASSUME NEW u \in Tails, NEW v \in Tails, (p \o x) \o u = (q \o y) \o v
      PROVE  p \o x = q \o y /\ u = v
  <2>1. (p \o x) \o u = p \o (x \o u)
    BY <1>1, Grouped, Zenon
  <2>2. (q \o y) \o v = q \o (y \o v)
    BY <1>1, Grouped, Zenon
  <2>3. PICK l \in Tails : l = x \o u
    BY <1>1, <1>2
  <2>4. PICK r \in Tails : r = y \o v
    BY <1>1, <1>2
  <2>5. p \o l = q \o r
    BY <1>4, <2>1, <2>2, <2>3, <2>4
  <2>6. p = q /\ l = r
    BY <2>5 DEF Fielded, Cuts
  <2>7. x = y /\ u = v
    BY <2>3, <2>4, <2>6 DEF Fielded, Cuts
  <2> QED BY <2>6, <2>7
<1>5. p \o x \in Tails /\ p \o x \in Seq(Tokens) /\ q \o y \in Tails /\ q \o y \in Seq(Tokens)
  BY <1>1, <1>2
<1> QED BY <1>3, <1>4, <1>5 DEF Fielded, Cuts

-----------------------------------------------------------------------------
\* The fields of a key, with the values they are read back as.
LEMMA WordField ==
    ASSUME NEW name \in Tokens, NEW a \in Tokens, NEW b \in Tokens
    PROVE  /\ Fielded(Field(name, <<a>>), Field(name, <<b>>))
           /\ Field(name, <<a>>) = Field(name, <<b>>) => a = b
<1>1. Cuts(<<a>>, <<b>>) /\ (<<a>> = <<b>> => a = b)
  BY TokenCuts
<1>2. PICK x, y : x = <<a>> /\ y = <<b>>
  OBVIOUS
<1>3. /\ Fielded(Field(name, x), Field(name, y))
      /\ Field(name, x) = Field(name, y) => x = y
  BY <1>1, <1>2, FieldCuts
<1> QED BY <1>1, <1>2, <1>3

\* A field with an escaped text,
LEMMA TextField ==
    ASSUME NEW name \in Tokens, NEW s \in Seq(Tokens), NEW t \in Seq(Tokens)
    PROVE  /\ Fielded(Field(name, Escape(s)), Field(name, Escape(t)))
           /\ Field(name, Escape(s)) = Field(name, Escape(t)) => s = t
<1>1. Cuts(Escape(s), Escape(t)) /\ (Escape(s) = Escape(t) => s = t)
  BY EscapeCuts
<1> QED BY <1>1, FieldCuts

\* with a number,
LEMMA NumberField ==
    ASSUME DecimalTexts(Nat), NEW name \in Tokens, NEW m \in Nat, NEW n \in Nat
    PROVE  /\ Fielded(Number(name, m), Number(name, n))
           /\ Number(name, m) = Number(name, n) => m = n
<1>1. Cuts(<<ToString(m)>>, <<ToString(n)>>) /\ (<<ToString(m)>> = <<ToString(n)>> => m = n)
  BY NumberCuts
<1>2. PICK x, y : x = <<ToString(m)>> /\ y = <<ToString(n)>>
  OBVIOUS
<1>3. /\ Fielded(Field(name, x), Field(name, y))
      /\ Field(name, x) = Field(name, y) => x = y
  BY <1>1, <1>2, FieldCuts
<1> QED BY <1>1, <1>2, <1>3 DEF Number

\* with a boolean.
LEMMA BooleanField ==
    ASSUME DecimalTexts(Nat), NEW name \in Tokens, NEW a \in BOOLEAN, NEW b \in BOOLEAN
    PROVE  /\ Fielded(Number(name, a), Number(name, b))
           /\ Number(name, a) = Number(name, b) => a = b
<1>1. /\ ToString(TRUE) \in Tokens /\ ToString(FALSE) \in Tokens
      /\ ToString(TRUE) # ToString(FALSE)
  BY DEF DecimalTexts, Tokens
<1>2. \A v, w \in Tokens :
         /\ Fielded(Field(name, <<v>>), Field(name, <<w>>))
         /\ Field(name, <<v>>) = Field(name, <<w>>) => v = w
  BY WordField
<1>3. CASE a = b
  <2>1. CASE a = TRUE
    BY <1>1, <1>2, <1>3, <2>1 DEF Number
  <2>2. CASE a = FALSE
    BY <1>1, <1>2, <1>3, <2>2 DEF Number
  <2> QED BY <2>1, <2>2
<1>4. PICK yes \in Tokens, no \in Tokens : yes = ToString(TRUE) /\ no = ToString(FALSE)
  BY <1>1
<1>5. PICK y, n : y = Field(name, <<yes>>) /\ n = Field(name, <<no>>)
  OBVIOUS
<1>6. Fielded(y, n) /\ Fielded(n, y) /\ y # n
  BY <1>1, <1>2, <1>4, <1>5
<1>7. /\ a = TRUE => Number(name, a) = y
      /\ a = FALSE => Number(name, a) = n
      /\ b = TRUE => Number(name, b) = y
      /\ b = FALSE => Number(name, b) = n
  BY <1>4, <1>5, Zenon DEF Number
<1>8. a = b \/ (a = TRUE /\ b = FALSE) \/ (a = FALSE /\ b = TRUE)
  OBVIOUS
<1>9. CASE a = TRUE /\ b = FALSE
  <2>1. Number(name, a) = y /\ Number(name, b) = n
    BY <1>7, <1>9
  <2> QED BY <1>6, <2>1
<1>10. CASE a = FALSE /\ b = TRUE
  <2>1. Number(name, a) = n /\ Number(name, b) = y
    BY <1>7, <1>10
  <2> QED BY <1>6, <2>1
<1> QED BY <1>3, <1>8, <1>9, <1>10, Zenon

-----------------------------------------------------------------------------
(***************************************************************************)
(* The identities: a record for each kind of event.                         *)
(***************************************************************************)
Text == Seq(Tokens)

AnAccount ==
    [kind : {"account"}, cluster : Text, slot : Nat, account : Text, write_version : Nat,
     txn_signature : OptionalText, is_startup : BOOLEAN]

ABlock == [kind : {"block"}, cluster : Text, slot : Nat, blockhash : Text]

AnEntry == [kind : {"entry"}, cluster : Text, slot : Nat, index : Nat]

AnInstructionId ==
    [kind : {"instruction"}, cluster : Text, slot : Nat, signature : Text,
     transaction_index : Nat, instruction_index : Nat,
     inner_instruction_index : OptionalIndex, program_id : Text]

ASlot == [kind : {"slot"}, cluster : Text, slot : Nat, status : Tokens]

ATransaction ==
    [kind : {"transaction"}, cluster : Text, slot : Nat, signature : Text, index : Nat]

AnIdentity ==
    AnAccount \cup ABlock \cup AnEntry \cup AnInstructionId \cup ASlot \cup ATransaction

\* The part of the key that all kinds have.
HeadOf(id) ==
    Field("kind", <<id.kind>>) \o Field("cluster", Escape(id.cluster)) \o Number("slot", id.slot)

Headed(id) == id.kind \in Tokens /\ id.cluster \in Text /\ id.slot \in Nat

\* Every key begins with kind, cluster and slot.
LEMMA HeadCuts ==
    ASSUME DecimalTexts(Nat), NEW a, NEW b, Headed(a), Headed(b)
    PROVE  /\ Fielded(HeadOf(a), HeadOf(b))
           /\ HeadOf(a) = HeadOf(b) => a.kind = b.kind /\ a.cluster = b.cluster /\ a.slot = b.slot
<1> DEFINE k(id) == Field("kind", <<id.kind>>)
           c(id) == Field("cluster", Escape(id.cluster))
           s(id) == Number("slot", id.slot)
           kc(id) == k(id) \o c(id)
           kcs(id) == kc(id) \o s(id)
<1>1. "kind" \in Tokens /\ "cluster" \in Tokens /\ "slot" \in Tokens
  BY DEF Tokens
<1>2. Fielded(k(a), k(b)) /\ (k(a) = k(b) => a.kind = b.kind)
  BY <1>1, WordField DEF Headed
<1>3. Fielded(c(a), c(b)) /\ (c(a) = c(b) => a.cluster = b.cluster)
  BY <1>1, TextField DEF Headed, Text
<1>4. Fielded(s(a), s(b)) /\ (s(a) = s(b) => a.slot = b.slot)
  BY <1>1, NumberField DEF Headed
<1>5. HeadOf(a) = kcs(a) /\ HeadOf(b) = kcs(b)
  BY DEF HeadOf
<1> HIDE DEF k, c, s, kc, kcs
<1>6. Fielded(kc(a), kc(b)) /\ (kc(a) = kc(b) => k(a) = k(b) /\ c(a) = c(b))
  BY <1>2, <1>3, JoinedCuts DEF kc
<1>7. Fielded(kcs(a), kcs(b)) /\ (kcs(a) = kcs(b) => kc(a) = kc(b) /\ s(a) = s(b))
  BY <1>4, <1>6, JoinedCuts DEF kcs
<1> QED BY <1>2, <1>3, <1>4, <1>5, <1>6, <1>7

(***************************************************************************)
(* Two events of one kind: their keys are a head and a rest, and the rests  *)
(* tell apart what the heads do not.                                        *)
(***************************************************************************)
Read(a, b) ==
    \E r \in Tails, s \in Tails :
        /\ CanonicalKey(a) = HeadOf(a) \o r
        /\ CanonicalKey(b) = HeadOf(b) \o s
        /\ r = s /\ a.cluster = b.cluster /\ a.slot = b.slot => a = b

\* The key of a block is read back, field by field,
LEMMA ReadBlock ==
    ASSUME NEW a \in ABlock, NEW b \in ABlock PROVE Read(a, b)
<1> DEFINE r(id) == Field("blockhash", Escape(id.blockhash))
<1>1. \A id : id.kind = "block" => CanonicalKey(id) = HeadOf(id) \o r(id)
  BY Zenon DEF CanonicalKey, HeadOf
<1>2. /\ a.kind = "block" /\ a.blockhash \in Seq(Tokens)
      /\ b.kind = "block" /\ b.blockhash \in Seq(Tokens)
      /\ a.cluster = b.cluster /\ a.slot = b.slot /\ a.blockhash = b.blockhash => a = b
  BY DEF ABlock, Text
<1>3. "blockhash" \in Tokens
  BY DEF Tokens
<1>4. Fielded(r(a), r(b)) /\ (r(a) = r(b) => a.blockhash = b.blockhash)
  BY <1>2, <1>3, TextField
<1> HIDE DEF r
<1> QED BY <1>1, <1>2, <1>4 DEF Read, Fielded

\* that of an entry,
LEMMA ReadEntry ==
    ASSUME DecimalTexts(Nat), NEW a \in AnEntry, NEW b \in AnEntry PROVE Read(a, b)
<1> DEFINE r(id) == Number("index", id.index)
<1>1. \A id : id.kind = "entry" => CanonicalKey(id) = HeadOf(id) \o r(id)
  BY Zenon DEF CanonicalKey, HeadOf
<1>2. /\ a.kind = "entry" /\ a.index \in Nat
      /\ b.kind = "entry" /\ b.index \in Nat
      /\ a.cluster = b.cluster /\ a.slot = b.slot /\ a.index = b.index => a = b
  BY DEF AnEntry, Text
<1>3. "index" \in Tokens
  BY DEF Tokens
<1>4. Fielded(r(a), r(b)) /\ (r(a) = r(b) => a.index = b.index)
  BY <1>2, <1>3, NumberField
<1> HIDE DEF r
<1> QED BY <1>1, <1>2, <1>4 DEF Read, Fielded

\* of a slot status,
LEMMA ReadSlot ==
    ASSUME NEW a \in ASlot, NEW b \in ASlot PROVE Read(a, b)
<1> DEFINE r(id) == Field("status", <<id.status>>)
<1>1. \A id : id.kind = "slot" => CanonicalKey(id) = HeadOf(id) \o r(id)
  BY Zenon DEF CanonicalKey, HeadOf
<1>2. /\ a.kind = "slot" /\ a.status \in Tokens
      /\ b.kind = "slot" /\ b.status \in Tokens
      /\ a.cluster = b.cluster /\ a.slot = b.slot /\ a.status = b.status => a = b
  BY DEF ASlot, Text
<1>3. "status" \in Tokens
  BY DEF Tokens
<1>4. Fielded(r(a), r(b)) /\ (r(a) = r(b) => a.status = b.status)
  BY <1>2, <1>3, WordField
<1> HIDE DEF r
<1> QED BY <1>1, <1>2, <1>4 DEF Read, Fielded

\* of a transaction,
LEMMA ReadTransaction ==
    ASSUME DecimalTexts(Nat), NEW a \in ATransaction, NEW b \in ATransaction PROVE Read(a, b)
<1> DEFINE s(id) == Field("signature", Escape(id.signature))
           i(id) == Number("index", id.index)
<1>1. \A id : id.kind = "transaction" => CanonicalKey(id) = HeadOf(id) \o (s(id) \o i(id))
  BY Zenon DEF CanonicalKey, HeadOf
<1>2. /\ a.kind = "transaction" /\ a.signature \in Seq(Tokens) /\ a.index \in Nat
      /\ b.kind = "transaction" /\ b.signature \in Seq(Tokens) /\ b.index \in Nat
      /\ a.cluster = b.cluster /\ a.slot = b.slot /\ a.signature = b.signature
         /\ a.index = b.index => a = b
  BY DEF ATransaction, Text
<1>3. "signature" \in Tokens /\ "index" \in Tokens
  BY DEF Tokens
<1>4. Fielded(s(a), s(b)) /\ (s(a) = s(b) => a.signature = b.signature)
  BY <1>2, <1>3, TextField
<1>5. Fielded(i(a), i(b)) /\ (i(a) = i(b) => a.index = b.index)
  BY <1>2, <1>3, NumberField
<1> HIDE DEF s, i
<1>6. Fielded(s(a) \o i(a), s(b) \o i(b)) /\ (s(a) \o i(a) = s(b) \o i(b) => s(a) = s(b) /\ i(a) = i(b))
  BY <1>4, <1>5, JoinedCuts
<1> QED BY <1>1, <1>2, <1>4, <1>5, <1>6 DEF Read, Fielded

\* of an account update,
LEMMA ReadAccount ==
    ASSUME DecimalTexts(Nat), NEW a \in AnAccount, NEW b \in AnAccount PROVE Read(a, b)
<1> DEFINE p(id) == Field("account", Escape(id.account))
           v(id) == Number("write_version", id.write_version)
           t(id) == Field("txn_signature", EncodeOptional(id.txn_signature))
           u(id) == Number("is_startup", id.is_startup)
           pv(id) == p(id) \o v(id)
           pvt(id) == pv(id) \o t(id)
           rest(id) == pvt(id) \o u(id)
<1>1. \A id : id.kind = "account" => CanonicalKey(id) = HeadOf(id) \o rest(id)
  BY Zenon DEF CanonicalKey, HeadOf
<1>2. /\ a.kind = "account" /\ a.account \in Seq(Tokens) /\ a.write_version \in Nat
      /\ a.txn_signature \in OptionalText /\ a.is_startup \in BOOLEAN
      /\ b.kind = "account" /\ b.account \in Seq(Tokens) /\ b.write_version \in Nat
      /\ b.txn_signature \in OptionalText /\ b.is_startup \in BOOLEAN
      /\ a.cluster = b.cluster /\ a.slot = b.slot /\ a.account = b.account
         /\ a.write_version = b.write_version /\ a.txn_signature = b.txn_signature
         /\ a.is_startup = b.is_startup => a = b
  BY DEF AnAccount, Text
<1>3. /\ "account" \in Tokens /\ "write_version" \in Tokens /\ "txn_signature" \in Tokens
      /\ "is_startup" \in Tokens
  BY DEF Tokens
<1>4. Fielded(p(a), p(b)) /\ (p(a) = p(b) => a.account = b.account)
  BY <1>2, <1>3, TextField
<1>5. Fielded(v(a), v(b)) /\ (v(a) = v(b) => a.write_version = b.write_version)
  BY <1>2, <1>3, NumberField
<1>6. Fielded(t(a), t(b)) /\ (t(a) = t(b) => a.txn_signature = b.txn_signature)
  <2>1. /\ Cuts(EncodeOptional(a.txn_signature), EncodeOptional(b.txn_signature))
        /\ EncodeOptional(a.txn_signature) = EncodeOptional(b.txn_signature) =>
             a.txn_signature = b.txn_signature
    BY <1>2, OptionalCuts
  <2> QED BY <1>3, <2>1, FieldCuts
<1>7. Fielded(u(a), u(b)) /\ (u(a) = u(b) => a.is_startup = b.is_startup)
  BY <1>2, <1>3, BooleanField
<1> HIDE DEF p, v, t, u, pv, pvt, rest
<1>8. Fielded(pv(a), pv(b)) /\ (pv(a) = pv(b) => p(a) = p(b) /\ v(a) = v(b))
  BY <1>4, <1>5, JoinedCuts DEF pv
<1>9. Fielded(pvt(a), pvt(b)) /\ (pvt(a) = pvt(b) => pv(a) = pv(b) /\ t(a) = t(b))
  BY <1>6, <1>8, JoinedCuts DEF pvt
<1>10. Fielded(rest(a), rest(b)) /\ (rest(a) = rest(b) => pvt(a) = pvt(b) /\ u(a) = u(b))
  BY <1>7, <1>9, JoinedCuts DEF rest
<1>11. rest(a) = rest(b) /\ a.cluster = b.cluster /\ a.slot = b.slot => a = b
  BY <1>2, <1>4, <1>5, <1>6, <1>7, <1>8, <1>9, <1>10
<1> QED BY <1>1, <1>2, <1>10, <1>11 DEF Read, Fielded

\* and of an instruction.
LEMMA ReadInstruction ==
    ASSUME DecimalTexts(Nat), NEW a \in AnInstructionId, NEW b \in AnInstructionId PROVE Read(a, b)
<1> DEFINE s(id) == Field("signature", Escape(id.signature))
           t(id) == Number("transaction_index", id.transaction_index)
           i(id) == Number("instruction_index", id.instruction_index)
           n(id) == Field("inner_instruction_index", EncodeIndex(id.inner_instruction_index))
           p(id) == Field("program_id", Escape(id.program_id))
           st(id) == s(id) \o t(id)
           sti(id) == st(id) \o i(id)
           stin(id) == sti(id) \o n(id)
           rest(id) == stin(id) \o p(id)
<1>1. \A id : id.kind = "instruction" => CanonicalKey(id) = HeadOf(id) \o rest(id)
  BY Zenon DEF CanonicalKey, HeadOf
<1>2. /\ a.kind = "instruction" /\ a.signature \in Seq(Tokens) /\ a.transaction_index \in Nat
      /\ a.instruction_index \in Nat /\ a.inner_instruction_index \in OptionalIndex
      /\ a.program_id \in Seq(Tokens)
      /\ b.kind = "instruction" /\ b.signature \in Seq(Tokens) /\ b.transaction_index \in Nat
      /\ b.instruction_index \in Nat /\ b.inner_instruction_index \in OptionalIndex
      /\ b.program_id \in Seq(Tokens)
      /\ a.cluster = b.cluster /\ a.slot = b.slot /\ a.signature = b.signature
         /\ a.transaction_index = b.transaction_index
         /\ a.instruction_index = b.instruction_index
         /\ a.inner_instruction_index = b.inner_instruction_index
         /\ a.program_id = b.program_id => a = b
  BY DEF AnInstructionId, Text
<1>3. /\ "signature" \in Tokens /\ "transaction_index" \in Tokens
      /\ "instruction_index" \in Tokens /\ "inner_instruction_index" \in Tokens
      /\ "program_id" \in Tokens
  BY DEF Tokens
<1>4. Fielded(s(a), s(b)) /\ (s(a) = s(b) => a.signature = b.signature)
  BY <1>2, <1>3, TextField
<1>5. Fielded(t(a), t(b)) /\ (t(a) = t(b) => a.transaction_index = b.transaction_index)
  BY <1>2, <1>3, NumberField
<1>6. Fielded(i(a), i(b)) /\ (i(a) = i(b) => a.instruction_index = b.instruction_index)
  BY <1>2, <1>3, NumberField
<1>7. Fielded(n(a), n(b)) /\ (n(a) = n(b) => a.inner_instruction_index = b.inner_instruction_index)
  <2>1. /\ Cuts(EncodeIndex(a.inner_instruction_index), EncodeIndex(b.inner_instruction_index))
        /\ EncodeIndex(a.inner_instruction_index) = EncodeIndex(b.inner_instruction_index) =>
             a.inner_instruction_index = b.inner_instruction_index
    BY <1>2, IndexCuts
  <2> QED BY <1>3, <2>1, FieldCuts
<1>8. Fielded(p(a), p(b)) /\ (p(a) = p(b) => a.program_id = b.program_id)
  BY <1>2, <1>3, TextField
<1> HIDE DEF s, t, i, n, p, st, sti, stin, rest
<1>9. Fielded(st(a), st(b)) /\ (st(a) = st(b) => s(a) = s(b) /\ t(a) = t(b))
  BY <1>4, <1>5, JoinedCuts DEF st
<1>10. Fielded(sti(a), sti(b)) /\ (sti(a) = sti(b) => st(a) = st(b) /\ i(a) = i(b))
  BY <1>6, <1>9, JoinedCuts DEF sti
<1>11. Fielded(stin(a), stin(b)) /\ (stin(a) = stin(b) => sti(a) = sti(b) /\ n(a) = n(b))
  BY <1>7, <1>10, JoinedCuts DEF stin
<1>12. Fielded(rest(a), rest(b)) /\ (rest(a) = rest(b) => stin(a) = stin(b) /\ p(a) = p(b))
  BY <1>8, <1>11, JoinedCuts DEF rest
<1>13. rest(a) = rest(b) /\ a.cluster = b.cluster /\ a.slot = b.slot => a = b
  BY <1>2, <1>4, <1>5, <1>6, <1>7, <1>8, <1>9, <1>10, <1>11, <1>12
<1> QED BY <1>1, <1>2, <1>12, <1>13 DEF Read, Fielded

(***************************************************************************)
(* No two events have one key, whatever texts they carry: the event_id that *)
(* the unique constraint of table events is on loses no event to another.   *)
(***************************************************************************)
THEOREM KeyTellsApart ==
    ASSUME DecimalTexts(Nat), NEW a \in AnIdentity, NEW b \in AnIdentity,
           CanonicalKey(a) = CanonicalKey(b)
    PROVE  a = b
<1> DEFINE SameKind(x, y) ==
             \/ x \in AnAccount /\ y \in AnAccount
             \/ x \in ABlock /\ y \in ABlock
             \/ x \in AnEntry /\ y \in AnEntry
             \/ x \in AnInstructionId /\ y \in AnInstructionId
             \/ x \in ASlot /\ y \in ASlot
             \/ x \in ATransaction /\ y \in ATransaction
<1>1. ASSUME NEW x, NEW y, SameKind(x, y) PROVE Read(x, y)
  BY <1>1, ReadAccount, ReadBlock, ReadEntry, ReadInstruction, ReadSlot, ReadTransaction
<1>2. \A x \in AnIdentity : SameKind(x, x) /\ Headed(x)
  <2>1. {"account", "block", "entry", "instruction", "slot", "transaction"} \subseteq Tokens
    BY DEF Tokens
  <2> QED BY <2>1 DEF AnIdentity, AnAccount, ABlock, AnEntry, AnInstructionId, ASlot,
                      ATransaction, Headed
<1>3. a.kind = b.kind => SameKind(a, b)
  BY DEF AnIdentity, AnAccount, ABlock, AnEntry, AnInstructionId, ASlot, ATransaction
<1> HIDE DEF SameKind
<1>4. PICK r \in Tails : CanonicalKey(a) = HeadOf(a) \o r
  BY <1>1, <1>2 DEF Read
<1>5. PICK s \in Tails : CanonicalKey(b) = HeadOf(b) \o s
  BY <1>1, <1>2 DEF Read
<1>6. /\ Fielded(HeadOf(a), HeadOf(b))
      /\ HeadOf(a) = HeadOf(b) => a.kind = b.kind /\ a.cluster = b.cluster /\ a.slot = b.slot
  BY <1>2, HeadCuts
<1>7. HeadOf(a) = HeadOf(b)
  BY <1>4, <1>5, <1>6 DEF Fielded, Cuts
<1>8. Read(a, b)
  BY <1>1, <1>3, <1>6, <1>7
<1>9. PICK p \in Tails, q \in Tails :
        /\ CanonicalKey(a) = HeadOf(a) \o p
        /\ CanonicalKey(b) = HeadOf(b) \o q
        /\ p = q /\ a.cluster = b.cluster /\ a.slot = b.slot => a = b
  BY <1>8 DEF Read
<1>10. p = q
  BY <1>6, <1>9 DEF Fielded, Cuts
<1> QED BY <1>6, <1>7, <1>9, <1>10

-----------------------------------------------------------------------------
(***************************************************************************)
(* The identities that the free texts make are finitely many.               *)
(***************************************************************************)
KeyOptions == {{}} \cup {{t} : t \in KeyTexts}

TextAccount(c, s) == Account(c, 1, <<"a">>, 1, s, TRUE)
TextAccounts == {TextAccount(c, s) : c \in KeyTexts, s \in KeyOptions}
TextBlocks == {Block(c, 1, t) : c, t \in KeyTexts}
TextTransactions == {Transaction(c, 1, t, n) : c, t \in KeyTexts, n \in 0..1}
TextInstructions ==
    {Instruction(<<"a">>, 1, s, 0, 0, inner, p) : s, p \in KeyTexts, inner \in {{}, {0}, {1}}}

\* The identities of a file, kind by kind.
LEMMA IdentityParts ==
    Identities = TextAccounts \cup TextBlocks \cup TextTransactions \cup TextInstructions
BY DEF Identities, TextAccounts, TextBlocks, TextTransactions, TextInstructions, TextAccount, KeyOptions

\* The identities that pass validation are identities in the sense of the keys,
LEMMA TextsMakeIdentities == KeyIdentities \subseteq AnIdentity
<1>1. KeyTexts \subseteq Text
  BY IdentityAssumption, TextsAreTokens DEF Text
<1>2. PICK a \in Tokens : a = "a"
  BY DEF Tokens
<1>3. PICK t \in Text : t = <<"a">>
  <2>1. <<a>> \in Seq(Tokens)
    BY Short
  <2> QED BY <1>2, <2>1 DEF Text
<1>4. TextAccounts \subseteq AnAccount
  <2>1. \A s \in KeyOptions : s \in OptionalText
    BY <1>1 DEF KeyOptions, OptionalText, Text
  <2>2. \A c \in KeyTexts, s \in KeyOptions : TextAccount(c, s) \in AnAccount
    BY <1>1, <1>3, <2>1 DEF TextAccount, Account, AnAccount
  <2> QED BY <2>2 DEF TextAccounts
<1>5. TextBlocks \subseteq ABlock
  <2>1. \A c \in KeyTexts, x \in KeyTexts : Block(c, 1, x) \in ABlock
    BY <1>1 DEF Block, ABlock
  <2> QED BY <2>1 DEF TextBlocks
<1>6. TextTransactions \subseteq ATransaction
  <2>1. \A c \in KeyTexts, x \in KeyTexts, n \in 0..1 : Transaction(c, 1, x, n) \in ATransaction
    BY <1>1 DEF Transaction, ATransaction
  <2> QED BY <2>1 DEF TextTransactions
<1>7. TextInstructions \subseteq AnInstructionId
  <2>1. \A inner \in {{}, {0}, {1}} : inner \in OptionalIndex
    BY DEF OptionalIndex
  <2>2. \A s \in KeyTexts, p \in KeyTexts, inner \in {{}, {0}, {1}} :
           Instruction(<<"a">>, 1, s, 0, 0, inner, p) \in AnInstructionId
    BY <1>1, <1>3, <2>1 DEF Instruction, AnInstructionId
  <2> QED BY <2>2 DEF TextInstructions
<1>8. Identities \subseteq AnIdentity
  BY <1>4, <1>5, <1>6, <1>7, IdentityParts DEF AnIdentity
<1> QED BY <1>8 DEF KeyIdentities

\* and they are finitely many.
LEMMA FewIdentities == IsFiniteSet(KeyIdentities)
<1>1. IsFiniteSet(KeyTexts)
  BY IdentityAssumption
<1>2. IsFiniteSet(KeyOptions)
  <2> DEFINE S == {{t} : t \in KeyTexts}
             f == [t \in KeyTexts |-> {t}]
  <2>1. f \in Surjection(KeyTexts, S)
    BY DEF Surjection
  <2>2. IsFiniteSet(S)
    <3> HIDE DEF S, f
    <3> QED BY <1>1, <2>1, FS_Surjection
  <2>3. IsFiniteSet({{}})
    BY FS_Singleton
  <2>4. KeyOptions = {{}} \cup S
    BY DEF KeyOptions
  <2> HIDE DEF S
  <2> QED BY <2>2, <2>3, <2>4, FS_Union
<1>3. IsFiniteSet(KeyTexts \X KeyTexts)
  BY <1>1, FS_Product
<1>4. IsFiniteSet(TextAccounts)
  <2> DEFINE S == KeyTexts \X KeyOptions
             f == [x \in S |-> TextAccount(x[1], x[2])]
  <2>1. IsFiniteSet(S)
    BY <1>1, <1>2, FS_Product
  <2>2. f \in Surjection(S, TextAccounts)
    <3>1. \A c \in KeyTexts, s \in KeyOptions :
             <<c, s>> \in S /\ f[<<c, s>>] = TextAccount(c, s)
      OBVIOUS
    <3>2. \A x \in S : f[x] \in TextAccounts
      BY DEF TextAccounts
    <3>3. DOMAIN f = S /\ f = [x \in S |-> f[x]]
      OBVIOUS
    <3> HIDE DEF f, S
    <3>4. f \in [S -> TextAccounts]
      BY <3>2, <3>3
    <3>5. ASSUME NEW y \in TextAccounts PROVE \E x \in S : f[x] = y
      <4>1. PICK c \in KeyTexts, s \in KeyOptions : y = TextAccount(c, s)
        BY DEF TextAccounts
      <4>2. PICK x : x = <<c, s>>
        OBVIOUS
      <4> QED BY <3>1, <4>1, <4>2
    <3> QED BY <3>4, <3>5 DEF Surjection
  <2> HIDE DEF f, S
  <2> QED BY <2>1, <2>2, FS_Surjection
<1>5. IsFiniteSet(TextBlocks)
  <2> DEFINE S == KeyTexts \X KeyTexts
             f == [x \in S |-> Block(x[1], 1, x[2])]
  <2>1. f \in Surjection(S, TextBlocks)
    <3>1. \A c \in KeyTexts, t \in KeyTexts :
             <<c, t>> \in S /\ f[<<c, t>>] = Block(c, 1, t)
      BY DEF Block
    <3>2. \A x \in S : f[x] \in TextBlocks
      BY DEF TextBlocks
    <3>3. DOMAIN f = S /\ f = [x \in S |-> f[x]]
      OBVIOUS
    <3> HIDE DEF f, S
    <3>4. f \in [S -> TextBlocks]
      BY <3>2, <3>3
    <3>5. ASSUME NEW y \in TextBlocks PROVE \E x \in S : f[x] = y
      <4>1. PICK c \in KeyTexts, t \in KeyTexts : y = Block(c, 1, t)
        BY DEF TextBlocks
      <4>2. PICK x : x = <<c, t>>
        OBVIOUS
      <4> QED BY <3>1, <4>1, <4>2
    <3> QED BY <3>4, <3>5 DEF Surjection
  <2> HIDE DEF f
  <2> QED BY <1>3, <2>1, FS_Surjection
<1>6. IsFiniteSet(TextTransactions)
  <2> DEFINE S == (KeyTexts \X KeyTexts) \X (0..1)
             f == [x \in S |-> Transaction(x[1][1], 1, x[1][2], x[2])]
  <2>1. IsFiniteSet(0..1)
    <3>1. 0 \in Int /\ 1 \in Int
      OBVIOUS
    <3> QED BY <3>1, FS_Interval, Zenon
  <2>2. IsFiniteSet(S)
    BY <1>3, <2>1, FS_Product
  <2>3. f \in Surjection(S, TextTransactions)
    <3>1. \A c \in KeyTexts, t \in KeyTexts, n \in 0..1 :
             <<<<c, t>>, n>> \in S /\ f[<<<<c, t>>, n>>] = Transaction(c, 1, t, n)
      BY DEF Transaction
    <3>2. \A x \in S : f[x] \in TextTransactions
      BY DEF TextTransactions
    <3>3. DOMAIN f = S /\ f = [x \in S |-> f[x]]
      OBVIOUS
    <3> HIDE DEF f, S
    <3>4. f \in [S -> TextTransactions]
      BY <3>2, <3>3
    <3>5. ASSUME NEW y \in TextTransactions PROVE \E x \in S : f[x] = y
      <4>1. PICK c \in KeyTexts, t \in KeyTexts, n \in 0..1 : y = Transaction(c, 1, t, n)
        BY DEF TextTransactions
      <4>2. PICK x : x = <<<<c, t>>, n>>
        OBVIOUS
      <4> QED BY <3>1, <4>1, <4>2
    <3> QED BY <3>4, <3>5 DEF Surjection
  <2> HIDE DEF f, S
  <2> QED BY <2>2, <2>3, FS_Surjection
<1>7. IsFiniteSet(TextInstructions)
  <2> DEFINE I == {{}, {0}, {1}}
             S == (KeyTexts \X KeyTexts) \X I
             f == [x \in S |-> Instruction(<<"a">>, 1, x[1][1], 0, 0, x[2], x[1][2])]
  <2>1. IsFiniteSet(I)
    <3>1. IsFiniteSet({{}}) /\ IsFiniteSet({{0}}) /\ IsFiniteSet({{1}})
      BY FS_Singleton
    <3>2. IsFiniteSet({{}} \cup {{0}})
      BY <3>1, FS_Union
    <3>3. IsFiniteSet(({{}} \cup {{0}}) \cup {{1}})
      BY <3>1, <3>2, FS_Union
    <3>4. I = ({{}} \cup {{0}}) \cup {{1}}
      OBVIOUS
    <3> QED BY <3>3, <3>4
  <2>2. TextInstructions =
          {Instruction(<<"a">>, 1, s, 0, 0, inner, p) : s, p \in KeyTexts, inner \in I}
    BY DEF TextInstructions
  <2> HIDE DEF I
  <2>3. IsFiniteSet(S)
    BY <1>3, <2>1, FS_Product
  <2>4. f \in Surjection(S, TextInstructions)
    <3>1. \A s \in KeyTexts, p \in KeyTexts, inner \in I :
             /\ <<<<s, p>>, inner>> \in S
             /\ f[<<<<s, p>>, inner>>] = Instruction(<<"a">>, 1, s, 0, 0, inner, p)
      BY DEF Instruction
    <3>2. \A x \in S : f[x] \in TextInstructions
      BY <2>2
    <3>3. DOMAIN f = S /\ f = [x \in S |-> f[x]]
      OBVIOUS
    <3> HIDE DEF f, S
    <3>4. f \in [S -> TextInstructions]
      BY <3>2, <3>3
    <3>5. ASSUME NEW y \in TextInstructions PROVE \E x \in S : f[x] = y
      <4>1. PICK s \in KeyTexts, p \in KeyTexts, inner \in I :
              y = Instruction(<<"a">>, 1, s, 0, 0, inner, p)
        BY <2>2
      <4>2. PICK x : x = <<<<s, p>>, inner>>
        OBVIOUS
      <4> QED BY <3>1, <4>1, <4>2
    <3> QED BY <3>4, <3>5 DEF Surjection
  <2> HIDE DEF f, S
  <2> QED BY <2>3, <2>4, FS_Surjection
<1>8. IsFiniteSet(TextAccounts \cup TextBlocks)
  BY <1>4, <1>5, FS_Union
<1>9. IsFiniteSet((TextAccounts \cup TextBlocks) \cup TextTransactions)
  BY <1>6, <1>8, FS_Union
<1>10. IsFiniteSet(Identities)
  BY <1>7, <1>9, IdentityParts, FS_Union
<1>11. KeyIdentities \in SUBSET Identities
  BY DEF KeyIdentities
<1> QED BY <1>10, <1>11, FS_Subset

-----------------------------------------------------------------------------
\* As many keys as identities: the key is an injection.
LEMMA KeysAsMany ==
    ASSUME DecimalTexts(Nat) PROVE Cardinality(Keys) = Cardinality(KeyIdentities)
<1> DEFINE f == [id \in KeyIdentities |-> CanonicalKey(id)]
<1>1. f \in Bijection(KeyIdentities, Keys)
  <2>1. \A id \in KeyIdentities : f[id] = CanonicalKey(id) /\ f[id] \in Keys
    BY DEF Keys
  <2>2. f \in [KeyIdentities -> Keys]
    BY DEF Keys
  <2> HIDE DEF f
  <2>3. \A a, b \in KeyIdentities : f[a] = f[b] => a = b
    BY <2>1, TextsMakeIdentities, KeyTellsApart
  <2>4. \A k \in Keys : \E id \in KeyIdentities : f[id] = k
    BY <2>1 DEF Keys
  <2>5. f \in Injection(KeyIdentities, Keys)
    BY <2>2, <2>3 DEF Injection, IsInjective
  <2>6. f \in Surjection(KeyIdentities, Keys)
    BY <2>2, <2>4 DEF Surjection
  <2> QED BY <2>5, <2>6 DEF Bijection
<1>2. ExistsBijection(KeyIdentities, Keys)
  <2> HIDE DEF f
  <2> QED BY <1>1 DEF ExistsBijection
<1> QED BY <1>2, FewIdentities, FS_Bijection
=============================================================================
