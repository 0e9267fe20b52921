------------------------ MODULE GuardedTrainerProofs ------------------------
(***************************************************************************)
(* Proofs about the guard inside TRL's trainer, for windows, slices,       *)
(* iterations and alphabets of any size.                                   *)
(***************************************************************************)
EXTENDS GuardedTrainer, SequenceTheorems, FiniteSetTheorems, TLAPS

TokensOf(rows) == {rows[i].tokens : i \in DOMAIN rows}

Distinct(rows) == \A i, j \in DOMAIN rows : i # j => rows[i].tokens # rows[j].tokens

\* The same of a slice, whose tokens are a column.
TokensIn(b) == {b.tokens[i] : i \in DOMAIN b.tokens}

NoneTwice(b) == \A i, j \in DOMAIN b.tokens : i # j => b.tokens[i] # b.tokens[j]

----------------------------------------------------------------------------
(* Rows and records.                                                       *)

LEMMA LastOf ==
  ASSUME NEW n \in Nat, NEW S, S \subseteq 1..n, S # {}
  PROVE  \E i \in S : \A j \in 1..n : j > i => j \notin S
<1> DEFINE T == {m \in Nat : n - m \in S}
<1>1. T \subseteq Nat /\ T # {}
  <2>1. PICK i \in S : i \in 1..n OBVIOUS
  <2>2. n - i \in Nat /\ n - (n - i) = i BY <2>1
  <2> QED BY <2>1, <2>2
<1>2. PICK m \in T : \A l \in T : ~(<<l, m>> \in OpToRel(<, Nat))
  BY <1>1, NatLessThanWellFounded, WFMin
<1>3. m \in Nat /\ n - m \in S /\ \A l \in Nat : n - l \in S => ~(l < m)
  BY <1>2 DEF OpToRel
<1>4. ASSUME NEW j \in 1..n, j > n - m PROVE j \notin S
  <2>1. n - j \in Nat /\ n - (n - j) = j OBVIOUS
  <2>2. n - j < m BY <1>3, <1>4
  <2> QED BY <1>3, <2>1, <2>2
<1> QED BY <1>3, <1>4

\* The records by tokens are records, under their own tokens.
LEMMA AvailableRecords ==
  ASSUME rollouts \in Seq(Row)
  PROVE  /\ DOMAIN Available = TokensOf(rollouts)
         /\ \A t \in TokensOf(rollouts) :
              \E i \in DOMAIN rollouts : Available[t] = rollouts[i] /\ rollouts[i].tokens = t
<1>1. DOMAIN Available = TokensOf(rollouts) BY DEF Available, TokensOf
<1>2. ASSUME NEW t \in TokensOf(rollouts)
      PROVE  \E i \in DOMAIN rollouts : Available[t] = rollouts[i] /\ rollouts[i].tokens = t
  <2> DEFINE LastIs(i) == rollouts[i].tokens = t
                          /\ \A j \in DOMAIN rollouts : j > i => rollouts[j].tokens # t
             S == {i \in DOMAIN rollouts : rollouts[i].tokens = t}
  <2>1. Available[t] = rollouts[CHOOSE i \in DOMAIN rollouts : LastIs(i)]
    BY DEF Available, TokensOf
  <2>2. \E i \in S : \A j \in 1..Len(rollouts) : j > i => j \notin S
    <3>1. Len(rollouts) \in Nat /\ S \subseteq 1..Len(rollouts) OBVIOUS
    <3>2. S # {} BY DEF TokensOf
    <3> QED BY <3>1, <3>2, LastOf
  <2>3. \E i \in DOMAIN rollouts : LastIs(i) BY <2>2
  <2>4. (CHOOSE i \in DOMAIN rollouts : LastIs(i)) \in DOMAIN rollouts
          /\ LastIs(CHOOSE i \in DOMAIN rollouts : LastIs(i))
    BY <2>3
  <2> QED BY <2>1, <2>4
<1> QED BY <1>1, <1>2

LEMMA SetInSequence ==
  ASSUME NEW S, IsFiniteSet(S)
  PROVE  LET s == SetToSeq(S)
         IN  /\ s \in Seq(S) /\ Len(s) = Cardinality(S) /\ Cardinality(S) \in Nat
             /\ DOMAIN s = 1..Cardinality(S)
             /\ \A i, j \in DOMAIN s : s[i] = s[j] => i = j
             /\ \A x \in S : \E i \in DOMAIN s : s[i] = x
<1> DEFINE s == SetToSeq(S)
<1>1. Cardinality(S) \in Nat /\ ExistsBijection(1..Cardinality(S), S) BY FS_CardinalityType
<1>2. \E f \in [1..Cardinality(S) -> S] : IsInjective(f)
  BY <1>1 DEF ExistsBijection, Bijection, Injection
<1>3. s \in [1..Cardinality(S) -> S] /\ IsInjective(s) BY <1>2 DEF SetToSeq
<1>4. s \in Seq(S) /\ Len(s) = Cardinality(S) /\ DOMAIN s = 1..Cardinality(S) BY <1>1, <1>3
<1>5. s \in Surjection(1..Cardinality(S), S)
  <2>1. Cardinality(1..Cardinality(S)) = Cardinality(S) BY <1>1, FS_Interval
  <2> QED BY <1>3, <2>1, FS_Injection DEF Injection
<1> QED BY <1>1, <1>3, <1>4, <1>5 DEF IsInjective, Surjection

\* As many tokens as rows, when no two rows share theirs.
LEMMA TokensCounted ==
  ASSUME NEW rows \in Seq(Row)
  PROVE  /\ IsFiniteSet(TokensOf(rows)) /\ Cardinality(TokensOf(rows)) <= Len(rows)
         /\ Cardinality(TokensOf(rows)) \in Nat
         /\ Distinct(rows) => Cardinality(TokensOf(rows)) = Len(rows)
<1> DEFINE f == [i \in DOMAIN rows |-> rows[i].tokens]
<1>1. f \in Surjection(DOMAIN rows, TokensOf(rows)) BY DEF Surjection, TokensOf
<1>2. DOMAIN rows = 1..Len(rows) /\ Len(rows) \in Nat OBVIOUS
<1>3. IsFiniteSet(DOMAIN rows) /\ Cardinality(DOMAIN rows) = Len(rows) BY <1>2, FS_Interval
<1>4. Distinct(rows) => f \in Injection(DOMAIN rows, TokensOf(rows))
  BY <1>1 DEF Injection, Surjection, IsInjective, Distinct
<1> QED BY <1>1, <1>3, <1>4, FS_Surjection, FS_CardinalityType

\* What stays of the records once a slice is verified: one record for each of
\* the other tokens.
LEMMA UnconsumedRecords ==
  ASSUME rollouts \in Seq(Row), NEW b
  PROVE  LET u == Unconsumed(b)
         IN  /\ u \in Seq(Row) /\ Distinct(u)
             /\ TokensOf(u) = TokensOf(rollouts) \ TokensIn(b)
             /\ Len(u) = Cardinality(TokensOf(rollouts) \ TokensIn(b))
             /\ Len(u) <= Len(rollouts)
             /\ \A i \in DOMAIN u : \E j \in DOMAIN rollouts : u[i] = rollouts[j]
             /\ \A t \in TokensOf(u) : \E i \in DOMAIN u : u[i] = Available[t]
<1> DEFINE rest == TokensOf(rollouts) \ TokensIn(b)
           S == {Available[t] : t \in rest}
           u == Unconsumed(b)
           f == [t \in rest |-> Available[t]]
<1>1. u = SetToSeq(S) BY AvailableRecords DEF Unconsumed, TokensOf, TokensIn
<1>2. \A t \in rest : Available[t].tokens = t BY AvailableRecords
<1>3. f \in Bijection(rest, S)
  BY <1>2 DEF Bijection, Injection, Surjection, IsInjective
<1>4. IsFiniteSet(rest) /\ Cardinality(rest) <= Len(rollouts) /\ Cardinality(rest) \in Nat
  BY TokensCounted, FS_Subset, FS_CardinalityType
<1>5. IsFiniteSet(S) /\ Cardinality(S) = Cardinality(rest)
  BY <1>3, <1>4, FS_Bijection DEF ExistsBijection
<1>6. /\ u \in Seq(S) /\ Len(u) = Cardinality(S)
      /\ \A i, j \in DOMAIN u : u[i] = u[j] => i = j
      /\ \A x \in S : \E i \in DOMAIN u : u[i] = x
  BY <1>1, <1>5, SetInSequence
<1>7. \A r \in S : \E j \in DOMAIN rollouts : r = rollouts[j] BY AvailableRecords
<1>8. S \subseteq Row
  <2>1. \A j \in DOMAIN rollouts : rollouts[j] \in Row BY ElementOfSeq, LenProperties
  <2> QED BY <1>7, <2>1
<1>9. \A i \in DOMAIN u : u[i] \in S BY <1>6
<1>10. u \in Seq(Row) BY <1>6, <1>8
<1>11. Distinct(u) BY <1>2, <1>6, <1>9 DEF Distinct
<1>12. TokensOf(u) = rest
  <2>1. TokensOf(u) \subseteq rest BY <1>2, <1>9 DEF TokensOf
  <2>2. ASSUME NEW t \in rest PROVE t \in TokensOf(u)
    <3>1. PICK i \in DOMAIN u : u[i] = Available[t] BY <1>6
    <3> QED BY <1>2, <3>1 DEF TokensOf
  <2> QED BY <2>1, <2>2
<1>13. \A t \in rest : \E i \in DOMAIN u : u[i] = Available[t] BY <1>6
<1> QED BY <1>4, <1>5, <1>6, <1>7, <1>9, <1>10, <1>11, <1>12, <1>13

\* From one finite set into another that has as many elements or more.
LEMMA RoomForAll ==
  ASSUME NEW S, NEW T, IsFiniteSet(S), IsFiniteSet(T), Cardinality(S) <= Cardinality(T)
  PROVE  \E q \in [S -> T] : \A x, y \in S : q[x] = q[y] => x = y
<1> DEFINE s == Cardinality(S)
           t == Cardinality(T)
<1>1. s \in Nat /\ t \in Nat /\ ExistsBijection(1..s, S) /\ ExistsBijection(1..t, T)
  BY FS_CardinalityType
<1>2. PICK b : b \in Bijection(1..s, S) BY <1>1 DEF ExistsBijection
<1>3. PICK c : c \in Bijection(1..t, T) BY <1>1 DEF ExistsBijection
<1> DEFINE place(x) == CHOOSE k \in 1..s : b[k] = x
           q == [x \in S |-> c[place(x)]]
<1>4. ASSUME NEW x \in S PROVE place(x) \in 1..s /\ b[place(x)] = x
  <2>1. \E k \in 1..s : b[k] = x BY <1>2 DEF Bijection, Surjection
  <2> QED BY <2>1
<1> HIDE DEF place
<1>5. \A x \in S : place(x) \in 1..t BY <1>1, <1>4
<1>6. c \in [1..t -> T] /\ \A k, l \in 1..t : c[k] = c[l] => k = l
  BY <1>3 DEF Bijection, Injection, IsInjective
<1>7. q \in [S -> T] BY <1>5, <1>6
<1>8. ASSUME NEW x \in S, NEW y \in S, q[x] = q[y] PROVE x = y
  <2>1. place(x) = place(y) BY <1>5, <1>6, <1>8
  <2> QED BY <1>4, <2>1
<1> QED BY <1>7, <1>8

NoneOftener(V, f, g) == \A v \in V : Occurrences(v, f) <= Occurrences(v, g)

\* Position i of f has the value of position p[i] of g.
TakenFrom(p, m, n, f, g) ==
  /\ p \in [1..m -> 1..n]
  /\ \A i, j \in 1..m : i # j => p[i] # p[j]
  /\ \A i \in 1..m : f[i] = g[p[i]]

\* A sequence that has no value more often than another takes its values from
\* different positions of the other.
LEMMA FewerTakeTheirs ==
  ASSUME NEW m \in Nat, NEW n \in Nat, NEW V, NEW f, NEW g,
         f \in [1..m -> V], g \in [1..n -> V], NoneOftener(V, f, g)
  PROVE  \E p : TakenFrom(p, m, n, f, g)
<1> DEFINE InF(v) == {i \in 1..m : f[i] = v}
           InG(v) == {i \in 1..n : g[i] = v}
           Into(v, q) == q \in [InF(v) -> InG(v)] /\ \A i, j \in InF(v) : q[i] = q[j] => i = j
           Pick(v) == CHOOSE q : Into(v, q)
           p == [i \in 1..m |-> Pick(f[i])[i]]
<1>1. ASSUME NEW v \in V PROVE Into(v, Pick(v))
  <2>1. Occurrences(v, f) = Cardinality(InF(v)) /\ Occurrences(v, g) = Cardinality(InG(v))
    BY DEF Occurrences
  <2>2. IsFiniteSet(1..m) /\ IsFiniteSet(1..n) BY FS_Interval
  <2>3. IsFiniteSet(InF(v)) /\ IsFiniteSet(InG(v)) BY <2>2, FS_Subset
  <2> HIDE DEF InF, InG
  <2>4. Cardinality(InF(v)) <= Cardinality(InG(v)) BY <2>1 DEF NoneOftener
  <2>5. \E q : Into(v, q) BY <2>3, <2>4, RoomForAll
  <2> QED BY <2>5
<1>2. ASSUME NEW i \in 1..m PROVE p[i] \in 1..n /\ g[p[i]] = f[i]
  <2>1. f[i] \in V /\ i \in InF(f[i]) OBVIOUS
  <2>2. Pick(f[i]) \in [InF(f[i]) -> InG(f[i])] BY <1>1, <2>1
  <2>3. Pick(f[i])[i] \in InG(f[i]) BY <2>1, <2>2
  <2> QED BY <2>3
<1>3. ASSUME NEW i \in 1..m, NEW j \in 1..m, p[i] = p[j] PROVE i = j
  <2>1. f[i] = f[j]
    <3>1. g[p[i]] = f[i] /\ g[p[j]] = f[j] BY <1>2
    <3> HIDE DEF p
    <3> QED BY <1>3, <3>1
  <2>2. f[i] \in V /\ i \in InF(f[i]) /\ j \in InF(f[i]) BY <2>1
  <2>3. Pick(f[i])[i] = Pick(f[i])[j] BY <1>3, <2>1
  <2> HIDE DEF Pick, InF, InG
  <2>4. Into(f[i], Pick(f[i])) BY <1>1, <2>2
  <2> QED BY <2>2, <2>3, <2>4
<1>4. p \in [1..m -> 1..n] BY <1>2
<1> HIDE DEF p
<1> QED BY <1>2, <1>3, <1>4 DEF TakenFrom

----------------------------------------------------------------------------
(* The inductive invariant.                                                *)

Typed ==
  /\ TypeOK
  /\ sliceSize \in SliceSizes
  /\ uses \in [Tokens -> Nat] /\ blind \in BOOLEAN /\ refused \subseteq Slot
  /\ window = <<>> => passes = 0 /\ unserved = {} /\ batch = NoSlice /\ ~blind /\ refused = {}
                      /\ rollouts = <<>> /\ \A t \in Tokens : uses[t] = 0
  /\ batch # NoSlice => micro < Accumulate

\* A record is a row of the window as it was generated.
Records == \A i \in DOMAIN rollouts : \E j \in Slot : rollouts[i] = window[j]

\* As long as there were records, a sequence is recorded, in the slice at work
\* or used: no two of the three, and used once.
Spent ==
  ~blind =>
    /\ NoneTwice(batch)
    /\ TokensIn(batch) \subseteq TokensOf(window) \ TokensOf(rollouts)
    /\ \A t \in Tokens : uses[t] > 0 =>
         /\ uses[t] = 1
         /\ t \in TokensOf(window) \ (TokensOf(rollouts) \cup TokensIn(batch))

\* No sequence of the window is lost: it is one of the three.
Kept ==
  /\ \A t \in TokensOf(window) : t \in TokensOf(rollouts) \cup TokensIn(batch) \/ uses[t] > 0
  /\ blind => rollouts = <<>> /\ \A t \in TokensOf(window) : uses[t] > 0

\* What BatchRecorded says of the slice.
FromWindow(b) ==
  \E f \in [DOMAIN b.tokens -> Slot] :
    /\ \A i, j \in DOMAIN f : i # j => b.tokens[i] # b.tokens[j]
    /\ \A i \in DOMAIN f :
         /\ b.tokens[i] = window[f[i]].tokens
         /\ b.logps # None => SpanMatches(b.logps[i], window[f[i]].logps)
    /\ b.advantages # None =>
         \E g \in [DOMAIN b.advantages -> DOMAIN f] :
           /\ \A i, j \in DOMAIN g : i # j => g[i] # g[j]
           /\ \A i \in DOMAIN g : b.advantages[i] = window[f[g[i]]].advantage

IInv == Typed /\ Records /\ Spent /\ Kept /\ BatchRecorded /\ HonestAccepted

----------------------------------------------------------------------------
(* Slices                                                                  *)

LEMMA Sizes ==
  ASSUME Typed
  PROVE  /\ sliceSize \in 1..WindowSize /\ WindowSize \in Nat \ {0}
         /\ DOMAIN rollouts = 1..Len(rollouts) /\ Len(rollouts) \in Nat
         /\ \A i \in DOMAIN rollouts : rollouts[i] \in Row
         /\ rollouts \in Seq(Row) /\ unserved \subseteq Slot
         /\ window # <<>> => window \in Windows /\ window \in [Slot -> Row]
         /\ IsFiniteSet(unserved) /\ Cardinality(unserved) \in Nat
<1>1. sliceSize \in 1..WindowSize /\ WindowSize \in Nat \ {0} BY TrainerConstants DEF Typed
<1>2. rollouts \in Seq(Row) /\ unserved \subseteq Slot BY DEF Typed, TypeOK
<1>3. window # <<>> => window \in Windows /\ window \in [Slot -> Row]
  BY DEF Typed, TypeOK, Windows
<1>4. IsFiniteSet(unserved) /\ Cardinality(unserved) \in Nat
  <2>1. IsFiniteSet(Slot) BY <1>1, FS_Interval DEF Slot
  <2>2. IsFiniteSet(unserved) BY <1>2, <2>1, FS_Subset
  <2> QED BY <2>2, FS_CardinalityType
<1>5. DOMAIN rollouts = 1..Len(rollouts) /\ Len(rollouts) \in Nat BY <1>2, LenProperties
<1>6. \A i \in DOMAIN rollouts : rollouts[i] \in Row BY <1>2, <1>5, ElementOfSeq
<1> QED BY <1>1, <1>2, <1>3, <1>4, <1>5, <1>6

LEMMA Columns ==
  ASSUME NEW n \in Nat, NEW b \in SlicesOf(n)
  PROVE  /\ b.tokens \in [1..n -> Tokens] /\ DOMAIN b.tokens = 1..n
         /\ b.advantages # None => \E m \in Nat : b.advantages \in [1..m -> Advantage]
BY DEF SlicesOf

\* A slice that matches the records is a slice of the window, as far as it is
\* compared.
LEMMA MatchedSlice ==
  ASSUME NEW n \in Nat, NEW b \in SlicesOf(n), rollouts \in Seq(Row), Records,
         RowsMatch(b), AdvantagesMatch(b)
  PROVE  FromWindow(b)
<1> DEFINE slotOf(t) == CHOOSE j \in Slot : Available[t] = window[j]
<1>1. DOMAIN b.tokens = 1..n BY Columns
<1>2. /\ \A i \in 1..n : b.tokens[i] \in TokensOf(rollouts)
      /\ \A i, j \in 1..n : j # i => b.tokens[j] # b.tokens[i]
      /\ \A i \in 1..n : b.logps # None => SpanMatches(b.logps[i], Available[b.tokens[i]].logps)
  BY <1>1, AvailableRecords DEF RowsMatch
<1>3. ASSUME NEW t \in TokensOf(rollouts)
      PROVE  /\ slotOf(t) \in Slot /\ Available[t] = window[slotOf(t)]
             /\ window[slotOf(t)].tokens = t /\ Available[t].advantage \in Advantage
  <2>1. PICK i \in DOMAIN rollouts : Available[t] = rollouts[i] /\ rollouts[i].tokens = t
    BY AvailableRecords
  <2>2. \E j \in Slot : Available[t] = window[j] BY <2>1 DEF Records
  <2>3. rollouts[i] \in Row BY ElementOfSeq, LenProperties
  <2> QED BY <2>1, <2>2, <2>3 DEF Row
<1> HIDE DEF slotOf
<1>4. PICK f : f = [i \in 1..n |-> slotOf(b.tokens[i])] OBVIOUS
<1>5. f \in [1..n -> Slot] /\ DOMAIN f = 1..n BY <1>2, <1>3, <1>4
<1>6. ASSUME NEW i \in 1..n
      PROVE  /\ f[i] = slotOf(b.tokens[i]) /\ Available[b.tokens[i]] = window[f[i]]
             /\ b.tokens[i] = window[f[i]].tokens
             /\ b.logps # None => SpanMatches(b.logps[i], window[f[i]].logps)
  BY <1>2, <1>3, <1>4
<1>7. ASSUME b.advantages # None
      PROVE  \E g \in [DOMAIN b.advantages -> 1..n] :
               /\ \A i, j \in DOMAIN g : i # j => g[i] # g[j]
               /\ \A i \in DOMAIN g : b.advantages[i] = window[f[g[i]]].advantage
  <2>1. PICK m \in Nat : b.advantages \in [1..m -> Advantage] BY <1>7, Columns
  <2>2. PICK recorded : recorded = [i \in 1..n |-> Available[b.tokens[i]].advantage] OBVIOUS
  <2>3. recorded \in [1..n -> Advantage] /\ m \in Nat /\ n \in Nat BY <1>2, <1>3, <2>1, <2>2
  <2>4. \A v \in Advantage : Occurrences(v, b.advantages) <= Occurrences(v, recorded)
    BY <1>1, <1>7, <2>2 DEF AdvantagesMatch
  <2>5. PICK p : TakenFrom(p, m, n, b.advantages, recorded)
    <3>1. NoneOftener(Advantage, b.advantages, recorded) BY <2>4 DEF NoneOftener
    <3> QED BY <2>1, <2>3, <3>1, FewerTakeTheirs
  <2>6. \A i \in 1..m : b.advantages[i] = window[f[p[i]]].advantage BY <1>6, <2>2, <2>5 DEF TakenFrom
  <2>7. DOMAIN b.advantages = 1..m /\ DOMAIN p = 1..m BY <2>1, <2>5 DEF TakenFrom
  <2> QED BY <2>5, <2>6, <2>7 DEF TakenFrom
<1>8. /\ f \in [DOMAIN b.tokens -> Slot] /\ DOMAIN f = 1..n
      /\ \A i, j \in DOMAIN f : i # j => b.tokens[i] # b.tokens[j]
      /\ \A i \in DOMAIN f :
           /\ b.tokens[i] = window[f[i]].tokens
           /\ b.logps # None => SpanMatches(b.logps[i], window[f[i]].logps)
  BY <1>1, <1>2, <1>5, <1>6
<1>9. b.advantages # None =>
        \E g \in [DOMAIN b.advantages -> DOMAIN f] :
          /\ \A i, j \in DOMAIN g : i # j => g[i] # g[j]
          /\ \A i \in DOMAIN g : b.advantages[i] = window[f[g[i]]].advantage
  BY <1>5, <1>7
<1> QED BY <1>8, <1>9, Zenon DEF FromWindow

\* A slice takes as many slots as it has rows.
LEMMA SlotsTaken ==
  ASSUME Typed, NEW f \in Slices
  PROVE  /\ f \in [1..sliceSize -> unserved] /\ DOMAIN f = 1..sliceSize
         /\ \A i, j \in 1..sliceSize : f[i] = f[j] => i = j
         /\ unserved \ {f[i] : i \in DOMAIN f} \subseteq unserved
         /\ {f[i] : i \in DOMAIN f} \subseteq Slot
BY Sizes DEF Slices

\* A slice as it was generated, of sequences that were sampled once and not
\* used, matches the records of its slots.
LEMMA HonestPasses ==
  ASSUME Typed, Records, Kept, window # <<>>, batch = NoSlice, NEW f \in Slices,
         \A i \in {f[k] : k \in DOMAIN f} :
           /\ ~(uses[window[i].tokens] > 0)
           /\ \A j \in Slot : j # i => window[j].tokens # window[i].tokens
  PROVE  PreUpdate(Served(f))
<1> DEFINE n == sliceSize
           b == Served(f)
<1>1. /\ DOMAIN f = 1..n /\ n \in Nat /\ \A i \in 1..n : f[i] \in Slot
      /\ \A i, j \in 1..n : f[i] = f[j] => i = j
  BY SlotsTaken, Sizes
<1>2. /\ b.tokens = [i \in 1..n |-> window[f[i]].tokens]
      /\ b.logps = IF \A i \in 1..n : window[f[i]].logps = None THEN None
                   ELSE [i \in 1..n |-> window[f[i]].logps]
      /\ b.advantages = [i \in 1..n |-> window[f[i]].advantage]
  BY <1>1 DEF Served
<1>3. window \in Windows /\ DOMAIN window = Slot BY Sizes
<1> HIDE DEF b
<1>4. ASSUME NEW i \in 1..n
      PROVE  /\ window[f[i]].tokens \in TokensOf(rollouts)
             /\ Available[window[f[i]].tokens] = window[f[i]]
  <2> DEFINE t == window[f[i]].tokens
  <2>1. t \in TokensOf(window) /\ ~(uses[t] > 0) BY <1>1, <1>3 DEF TokensOf
  <2>2. TokensIn(batch) = {} BY DEF TokensIn, NoSlice
  <2>3. t \in TokensOf(rollouts) BY <2>1, <2>2 DEF Kept
  <2>4. PICK k \in DOMAIN rollouts : Available[t] = rollouts[k] /\ rollouts[k].tokens = t
    BY <2>3, Sizes, AvailableRecords
  <2>5. PICK j \in Slot : rollouts[k] = window[j] BY <2>4 DEF Records
  <2>6. j = f[i] BY <1>1, <2>4, <2>5
  <2> QED BY <2>3, <2>4, <2>5, <2>6
<1>5. ASSUME NEW i \in 1..n, NEW j \in 1..n, j # i PROVE b.tokens[j] # b.tokens[i]
  <2>1. f[i] \in Slot /\ f[j] \in Slot /\ f[i] # f[j] BY <1>1, <1>5
  <2>2. window[f[j]].tokens # window[f[i]].tokens BY <1>1, <2>1
  <2> QED BY <1>2, <2>2
<1>6. n <= Len(rollouts)
  <2>1. b.tokens \in Injection(1..n, TokensOf(rollouts))
    <3>1. b.tokens \in [1..n -> TokensOf(rollouts)] BY <1>2, <1>4
    <3> QED BY <1>5, <3>1 DEF Injection, IsInjective
  <2>2. /\ IsFiniteSet(TokensOf(rollouts)) /\ Cardinality(TokensOf(rollouts)) <= Len(rollouts)
        /\ Cardinality(TokensOf(rollouts)) \in Nat
    BY Sizes, TokensCounted
  <2>3. Cardinality(1..n) = n BY <1>1, FS_Interval
  <2>4. Cardinality(1..n) <= Cardinality(TokensOf(rollouts)) BY <2>1, <2>2, FS_Injection
  <2> QED BY <1>1, <2>2, <2>3, <2>4, Sizes
<1>7. RowsMatch(b)
  <2>1. DOMAIN b.tokens = 1..n /\ Len(b.tokens) = n BY <1>1, <1>2
  <2>2. ASSUME NEW i \in 1..n, b.logps # None
        PROVE  SpanMatches(b.logps[i], Available[b.tokens[i]].logps)
    <3>1. PICK k \in 1..n : window[f[k]].logps # None BY <1>2, <2>2
    <3>2. f[k] \in Slot /\ f[i] \in Slot BY <1>1
    <3>3. window[f[i]].logps # None BY <1>3, <3>1, <3>2 DEF Windows
    <3>4. b.logps[i] = window[f[i]].logps BY <1>2, <2>2
    <3>5. Available[b.tokens[i]].logps = window[f[i]].logps BY <1>2, <1>4
    <3> QED BY <3>3, <3>4, <3>5 DEF SpanMatches
  <2>3. \A i \in 1..n : b.tokens[i] \in DOMAIN Available
    BY <1>2, <1>4, Sizes, AvailableRecords
  <2> QED BY <1>5, <1>6, <2>1, <2>2, <2>3 DEF RowsMatch
<1>8. AdvantagesMatch(b)
  <2>1. b.advantages = [i \in DOMAIN b.tokens |-> Available[b.tokens[i]].advantage]
    BY <1>2, <1>4
  <2>2. ASSUME NEW v PROVE Occurrences(v, b.advantages) \in Nat
    <3>1. IsFiniteSet(1..n) /\ DOMAIN b.advantages = 1..n BY <1>1, <1>2, FS_Interval
    <3>2. IsFiniteSet({i \in DOMAIN b.advantages : b.advantages[i] = v}) BY <3>1, FS_Subset
    <3> QED BY <3>2, FS_CardinalityType DEF Occurrences
  <2>3. \A v : Occurrences(v, b.advantages) <= Occurrences(v, b.advantages) BY <2>2
  <2> QED BY <2>1, <2>3 DEF AdvantagesMatch
<1> QED BY <1>7, <1>8 DEF PreUpdate, b

LEMMA NothingOfNoSlice ==
  NoneTwice(NoSlice) /\ TokensIn(NoSlice) = {} /\ FromWindow(NoSlice)
<1>1. /\ NoSlice.tokens = <<>> /\ NoSlice.logps = None /\ NoSlice.advantages = None
      /\ DOMAIN NoSlice.tokens = {}
  BY DEF NoSlice
<1>2. [x \in {} |-> 1] \in [{} -> Slot] /\ DOMAIN [x \in {} |-> 1] = {} OBVIOUS
<1>3. FromWindow(NoSlice)
  <2>1. PICK f : f \in [{} -> Slot] /\ DOMAIN f = {} BY <1>2
  <2> QED BY <1>1, <2>1 DEF FromWindow
<1> QED BY <1>1, <1>3 DEF NoneTwice, TokensIn

LEMMA BatchFromWindow == BatchRecorded <=> (~blind => FromWindow(batch))
BY DEF BatchRecorded, FromWindow

----------------------------------------------------------------------------
(* The invariant's steps                                                   *)

LEMMA InitInv == Init => IInv
<1> SUFFICES ASSUME Init PROVE IInv OBVIOUS
<1>1. /\ sliceSize \in SliceSizes /\ window = <<>> /\ unserved = {} /\ passes = 0
      /\ batch = NoSlice /\ micro = 0 /\ rollouts = <<>> /\ capability = FALSE
      /\ uses = [t \in Tokens |-> 0] /\ blind = FALSE /\ refused = {}
  BY DEF Init
<1>2. 0 \in 0..Iterations /\ 0 \in 0..Accumulate BY TrainerConstants
<1>3. rollouts \in Seq(Row) /\ Len(rollouts) <= WindowSize BY <1>1, TrainerConstants, EmptySeq
<1>4. TypeOK BY <1>1, <1>2, <1>3 DEF TypeOK
<1>5. \A t \in Tokens : uses[t] = 0 /\ ~(uses[t] > 0) BY <1>1
<1>6. Typed BY <1>1, <1>4, <1>5 DEF Typed
<1>7. TokensOf(window) = {} /\ DOMAIN rollouts = {} BY <1>1 DEF TokensOf
<1>8. Records /\ Spent /\ Kept
  BY <1>1, <1>5, <1>7, NothingOfNoSlice DEF Records, Spent, Kept
<1>9. BatchRecorded BY <1>1, NothingOfNoSlice, BatchFromWindow
<1> QED BY <1>1, <1>6, <1>8, <1>9 DEF IInv, HonestAccepted

\* What the invariant says of rows and records depends on these variables only.
LEMMA SameRows ==
  ASSUME Records, Spent, Kept, BatchRecorded,
         UNCHANGED <<window, batch, rollouts, uses, blind>>
  PROVE  Records' /\ Spent' /\ Kept' /\ BatchRecorded'
<1>1. /\ TokensOf(rollouts)' = TokensOf(rollouts) /\ TokensOf(window)' = TokensOf(window)
      /\ TokensIn(batch)' = TokensIn(batch) /\ NoneTwice(batch)' = NoneTwice(batch)
  BY DEF TokensOf, TokensIn, NoneTwice
<1>2. Records' BY DEF Records
<1>3. Spent' BY <1>1 DEF Spent
<1>4. Kept' BY <1>1 DEF Kept
<1>5. BatchRecorded'
  <2>1. FromWindow(batch)' <=> FromWindow(batch) BY DEF FromWindow
  <2>2. BatchRecorded' <=> (~blind' => FromWindow(batch)') BY DEF BatchRecorded, FromWindow
  <2> QED BY <2>1, <2>2, BatchFromWindow
<1> QED BY <1>2, <1>3, <1>4, <1>5

LEMMA GenerateKeeps == ASSUME IInv, Generate PROVE IInv'
<1>1. PICK w \in Windows : window' = w /\ rollouts' = w BY DEF Generate
<1>2. /\ batch = NoSlice /\ unserved' = Slot /\ passes' = 1
      /\ uses' = [t \in Tokens |-> 0] /\ blind' = FALSE /\ refused' = {}
      /\ sliceSize' = sliceSize /\ batch' = NoSlice /\ micro' = micro /\ capability' = capability
  BY DEF Generate
<1>3. Typed BY DEF IInv
<1>4. w \in [Slot -> Row] /\ WindowSize \in Nat \ {0} BY <1>3, Sizes DEF Windows
<1>5. w \in Seq(Row) /\ Len(w) = WindowSize /\ DOMAIN w = Slot /\ w # <<>>
  BY <1>4 DEF Slot
<1>6. \A t \in Tokens : uses'[t] = 0 /\ ~(uses'[t] > 0) BY <1>2
<1>7. Typed'
  <2>1. 1 \in 0..Iterations BY TrainerConstants
  <2>2. TypeOK' BY <1>1, <1>2, <1>3, <1>4, <1>5, <2>1 DEF Typed, TypeOK
  <2> QED BY <1>1, <1>2, <1>3, <1>5, <2>2 DEF Typed
<1>8. /\ TokensOf(rollouts)' = TokensOf(w) /\ TokensOf(window)' = TokensOf(w)
      /\ TokensIn(batch)' = {} /\ NoneTwice(batch)'
  BY <1>1, <1>2, NothingOfNoSlice DEF TokensOf, TokensIn, NoneTwice
<1>9. Records' BY <1>1, <1>5 DEF Records
<1>10. Spent' BY <1>2, <1>6, <1>8 DEF Spent, TokensOf
<1>11. Kept' BY <1>2, <1>8 DEF Kept
<1>12. BatchRecorded'
  <2>1. [x \in {} |-> 1] \in [{} -> Slot] /\ DOMAIN [x \in {} |-> 1] = {} OBVIOUS
  <2>2. PICK f : f \in [{} -> Slot] /\ DOMAIN f = {} BY <2>1
  <2>3. /\ batch'.tokens = <<>> /\ batch'.logps = None /\ batch'.advantages = None
        /\ DOMAIN batch'.tokens = {}
    BY <1>2 DEF NoSlice
  <2> QED BY <2>2, <2>3 DEF BatchRecorded
<1>13. HonestAccepted' BY <1>2 DEF HonestAccepted
<1> QED BY <1>7, <1>9, <1>10, <1>11, <1>12, <1>13 DEF IInv

LEMMA NextIterationKeeps == ASSUME IInv, NextIteration PROVE IInv'
<1>1. /\ unserved' = Slot /\ passes' = passes + 1 /\ passes \in 1..(Iterations - 1)
      /\ UNCHANGED <<sliceSize, window, batch, micro, rollouts, capability, uses, blind, refused>>
  BY DEF NextIteration, history
<1>2. Typed BY DEF IInv
<1>3. passes' \in 0..Iterations /\ passes # 0 BY <1>1, TrainerConstants
<1>4. TypeOK' BY <1>1, <1>2, <1>3 DEF Typed, TypeOK
<1>5. Typed' BY <1>1, <1>2, <1>3, <1>4 DEF Typed
<1>6. Records' /\ Spent' /\ Kept' /\ BatchRecorded' BY <1>1, SameRows DEF IInv
<1>7. HonestAccepted' BY <1>1 DEF IInv, HonestAccepted
<1> QED BY <1>5, <1>6, <1>7 DEF IInv

LEMMA RefuseKeeps ==
  ASSUME IInv, batch = NoSlice, NEW f \in Slices, NEW b,
         Cardinality(unserved) >= sliceSize, unserved' = unserved \ {f[i] : i \in DOMAIN f},
         UNCHANGED <<sliceSize, window, passes>>, ~PreUpdate(b), Refuse(b, f)
  PROVE  IInv'
<1>1. /\ capability' = FALSE /\ UNCHANGED <<batch, micro, rollouts, uses, blind>>
      /\ refused' = IF b = Served(f) THEN {f[i] : i \in DOMAIN f} ELSE {}
  BY DEF Refuse
<1>2. Typed /\ Records /\ Kept BY DEF IInv
<1>3. unserved' \subseteq unserved /\ {f[i] : i \in DOMAIN f} \subseteq Slot BY <1>2, SlotsTaken
<1>4. window # <<>>
  <2>1. Cardinality(unserved) # 0 BY <1>2, Sizes
  <2>2. unserved # {} BY <2>1, FS_EmptySet
  <2> QED BY <1>2, <2>2 DEF Typed
<1>5. TypeOK' BY <1>1, <1>2, <1>3 DEF Typed, TypeOK
<1>6. Typed' BY <1>1, <1>2, <1>3, <1>4, <1>5 DEF Typed
<1>7. Records' /\ Spent' /\ Kept' /\ BatchRecorded' BY <1>1, SameRows DEF IInv
<1>8. HonestAccepted'
  <2>1. CASE b = Served(f)
    <3>1. ~\A i \in {f[k] : k \in DOMAIN f} :
             /\ ~(uses[window[i].tokens] > 0)
             /\ \A j \in Slot : j # i => window[j].tokens # window[i].tokens
      BY <1>2, <1>4, <2>1, HonestPasses
    <3>2. refused' = {f[k] : k \in DOMAIN f} BY <1>1, <2>1
    <3>3. PICK i \in refused' :
            \/ uses[window[i].tokens] > 0
            \/ \E j \in Slot : j # i /\ window[j].tokens = window[i].tokens
      BY <3>1, <3>2
    <3>4. uses' = uses /\ window' = window BY <1>1
    <3> QED BY <3>3, <3>4 DEF HonestAccepted
  <2>2. CASE b # Served(f) BY <1>1, <2>2 DEF HonestAccepted
  <2> QED BY <2>1, <2>2
<1> QED BY <1>6, <1>7, <1>8 DEF IInv

LEMMA AcceptKeeps ==
  ASSUME IInv, batch = NoSlice, micro < Accumulate, NEW f \in Slices,
         NEW b \in SlicesOf(sliceSize),
         Cardinality(unserved) >= sliceSize, unserved' = unserved \ {f[i] : i \in DOMAIN f},
         UNCHANGED <<sliceSize, window, passes>>, PreUpdate(b), Accept(b, f)
  PROVE  IInv'
<1>1. /\ capability' = TRUE /\ batch' = b /\ UNCHANGED <<micro, uses>> /\ refused' = {}
      /\ rollouts' = IF rollouts = <<>> THEN rollouts ELSE Unconsumed(b)
      /\ blind' = (rollouts = <<>>)
  BY DEF Accept
<1>2. Typed /\ Records /\ Spent /\ Kept BY DEF IInv
<1>3. unserved' \subseteq unserved BY <1>2, SlotsTaken
<1>4. window # <<>>
  <2>1. Cardinality(unserved) # 0 BY <1>2, Sizes
  <2>2. unserved # {} BY <2>1, FS_EmptySet
  <2> QED BY <1>2, <2>2 DEF Typed
<1>5. rollouts \in Seq(Row) /\ Len(rollouts) \in Nat /\ sliceSize \in Nat BY <1>2, Sizes
<1>6. /\ Unconsumed(b) \in Seq(Row) /\ Len(Unconsumed(b)) <= Len(rollouts)
      /\ TokensOf(Unconsumed(b)) = TokensOf(rollouts) \ TokensIn(b)
      /\ \A i \in DOMAIN Unconsumed(b) : \E j \in DOMAIN rollouts : Unconsumed(b)[i] = rollouts[j]
  BY <1>5, UnconsumedRecords
<1>7. Typed'
  <2>1. rollouts' \in Seq(Row) /\ Len(rollouts') <= Len(rollouts) BY <1>1, <1>5, <1>6
  <2>2. Len(rollouts') \in Nat BY <2>1, LenProperties
  <2>3. Len(rollouts') <= WindowSize BY <1>2, <1>5, <2>1, <2>2, Sizes DEF Typed, TypeOK
  <2>4. TypeOK' BY <1>1, <1>2, <1>3, <2>1, <2>3 DEF Typed, TypeOK
  <2> QED BY <1>1, <1>2, <1>4, <2>4 DEF Typed
<1>8. HonestAccepted' BY <1>1 DEF HonestAccepted
<1>9. TokensIn(batch) = {} BY NothingOfNoSlice
<1>10. CASE rollouts = <<>>
  <2>1. rollouts' = <<>> /\ blind' /\ TokensOf(rollouts) = {}
    <3>1. TokensOf(<<>>) = {} BY DEF TokensOf
    <3>2. rollouts' = <<>> BY <1>1, <1>10
    <3>3. blind' BY <1>1, <1>10
    <3> QED BY <1>10, <3>1, <3>2, <3>3
  <2>2. \A t \in TokensOf(window) : uses[t] > 0 BY <1>2, <1>9, <2>1 DEF Kept
  <2>3. TokensOf(window)' = TokensOf(window) BY DEF TokensOf
  <2>4. Records' BY <2>1 DEF Records
  <2>5. Kept' BY <1>1, <2>1, <2>2, <2>3 DEF Kept
  <2> QED BY <1>7, <1>8, <2>1, <2>4, <2>5 DEF IInv, Spent, BatchRecorded
<1>11. CASE rollouts # <<>>
  <2>1. /\ rollouts' = Unconsumed(b) /\ ~blind' /\ RowsMatch(b) /\ AdvantagesMatch(b)
    BY <1>1, <1>11 DEF PreUpdate
  <2>2. ~blind BY <1>2, <1>11 DEF Kept
  <2>3. NoneTwice(b) /\ TokensIn(b) \subseteq TokensOf(rollouts)
    BY <1>5, <2>1, AvailableRecords DEF RowsMatch, NoneTwice, TokensIn
  <2>4. TokensOf(rollouts) \subseteq TokensOf(window)
    <3>1. DOMAIN window = Slot BY <1>2, <1>4, Sizes
    <3> QED BY <1>2, <3>1 DEF Records, TokensOf
  <2>5. /\ TokensOf(rollouts)' = TokensOf(rollouts) \ TokensIn(b)
        /\ TokensOf(window)' = TokensOf(window)
        /\ TokensIn(batch)' = TokensIn(b) /\ (NoneTwice(batch)' <=> NoneTwice(b))
    <3>1. TokensOf(rollouts)' = TokensOf(rollouts') BY DEF TokensOf
    <3>2. TokensOf(rollouts') = TokensOf(rollouts) \ TokensIn(b) BY <1>6, <2>1
    <3>3. TokensOf(window)' = TokensOf(window) BY DEF TokensOf
    <3>4. TokensIn(batch)' = TokensIn(b) BY <1>1 DEF TokensIn
    <3>5. NoneTwice(batch)' <=> NoneTwice(b) BY <1>1 DEF NoneTwice
    <3> QED BY <3>1, <3>2, <3>3, <3>4, <3>5
  <2>6. Records'
    <3>1. \A i \in DOMAIN rollouts' : \E j \in Slot : rollouts'[i] = window[j]
      BY <1>2, <1>6, <2>1 DEF Records
    <3> QED BY <3>1 DEF Records
  <2>7. Spent' BY <1>1, <1>2, <2>2, <2>3, <2>4, <2>5 DEF Spent
  <2>8. Kept' BY <1>1, <1>2, <1>9, <2>1, <2>5 DEF Kept
  <2>9. BatchRecorded'
    <3>1. FromWindow(b) BY <1>2, <1>5, <2>1, MatchedSlice
    <3>2. batch' = b /\ window' = window BY <1>1
    <3>3. FromWindow(batch)' <=> FromWindow(b) BY <3>2 DEF FromWindow
    <3>4. BatchRecorded' <=> (~blind' => FromWindow(batch)') BY DEF BatchRecorded, FromWindow
    <3> QED BY <3>1, <3>3, <3>4
  <2> QED BY <1>7, <1>8, <2>6, <2>7, <2>8, <2>9 DEF IInv
<1> QED BY <1>10, <1>11

LEMMA BackwardKeeps == ASSUME IInv, Backward PROVE IInv'
<1>1. /\ batch # NoSlice /\ batch' = NoSlice /\ micro' = micro + 1
      /\ uses' = [t \in Tokens |-> uses[t] + Occurrences(t, batch.tokens)]
      /\ UNCHANGED <<sliceSize, window, unserved, passes, rollouts, capability, blind, refused>>
  BY DEF Backward, trl
<1>2. Typed /\ Records /\ Spent /\ Kept /\ HonestAccepted BY DEF IInv
<1>3. /\ batch \in SlicesOf(sliceSize) /\ sliceSize \in Nat
      /\ DOMAIN batch.tokens = 1..sliceSize /\ IsFiniteSet(DOMAIN batch.tokens)
  <2>1. batch \in SlicesOf(sliceSize) /\ sliceSize \in Nat
    BY <1>1, <1>2, Sizes DEF Typed, TypeOK
  <2>2. DOMAIN batch.tokens = 1..sliceSize BY <2>1, Columns
  <2> QED BY <2>1, <2>2, FS_Interval
<1>4. ASSUME NEW t \in Tokens
      PROVE  LET c == Occurrences(t, batch.tokens)
             IN  /\ c \in Nat
                 /\ t \notin TokensIn(batch) => c = 0
                 /\ t \in TokensIn(batch) => c > 0
                 /\ NoneTwice(batch) /\ t \in TokensIn(batch) => c = 1
  <2> DEFINE at == {i \in DOMAIN batch.tokens : batch.tokens[i] = t}
  <2>1. IsFiniteSet(at) BY <1>3, FS_Subset
  <2>2. at = {} <=> t \notin TokensIn(batch) BY DEF TokensIn
  <2>3. ASSUME NoneTwice(batch), t \in TokensIn(batch) PROVE \E i : at = {i}
    BY <2>3 DEF NoneTwice, TokensIn
  <2>4. Occurrences(t, batch.tokens) = Cardinality(at) BY DEF Occurrences
  <2> HIDE DEF at
  <2>5. Cardinality(at) \in Nat BY <2>1, FS_CardinalityType
  <2>6. at = {} <=> Cardinality(at) = 0 BY <2>1, FS_EmptySet
  <2>7. (\E i : at = {i}) => Cardinality(at) = 1 BY FS_Singleton
  <2> QED BY <2>2, <2>3, <2>4, <2>5, <2>6, <2>7
<1>5. ASSUME NEW t \in Tokens
      PROVE  /\ uses[t] \in Nat /\ uses'[t] \in Nat
             /\ uses'[t] = uses[t] + Occurrences(t, batch.tokens)
             /\ uses[t] > 0 \/ t \in TokensIn(batch) => uses'[t] > 0
             /\ t \notin TokensIn(batch) => uses'[t] = uses[t]
  <2>1. uses[t] \in Nat /\ uses'[t] = uses[t] + Occurrences(t, batch.tokens)
    BY <1>1, <1>2 DEF Typed
  <2>2. LET c == Occurrences(t, batch.tokens)
        IN  /\ c \in Nat
            /\ t \notin TokensIn(batch) => c = 0
            /\ t \in TokensIn(batch) => c > 0
    BY <1>4
  <2> QED BY <2>1, <2>2
<1>6. uses' \in [Tokens -> Nat] BY <1>1, <1>5
<1>7. window # <<>> BY <1>1, <1>2 DEF Typed
<1>8. window \in [Slot -> Row] /\ TokensOf(window) \subseteq Tokens
  <2>1. window \in [Slot -> Row] BY <1>2, <1>7, Sizes
  <2> QED BY <2>1 DEF TokensOf, Row
<1>9. Typed'
  <2>1. micro' \in 0..Accumulate BY <1>1, <1>2, TrainerConstants DEF Typed, TypeOK
  <2>2. TypeOK' BY <1>1, <1>2, <2>1 DEF Typed, TypeOK
  <2> QED BY <1>1, <1>2, <1>6, <1>7, <2>2 DEF Typed
<1>10. Records' BY <1>1, <1>2 DEF Records
<1>11. /\ TokensOf(rollouts)' = TokensOf(rollouts) /\ TokensOf(window)' = TokensOf(window)
       /\ TokensIn(batch)' = {} /\ NoneTwice(batch)'
  BY <1>1, NothingOfNoSlice DEF TokensOf, TokensIn, NoneTwice
<1>12. Spent'
  <2> SUFFICES ASSUME ~blind PROVE Spent' BY <1>1 DEF Spent
  <2>1. ASSUME NEW t \in Tokens, uses'[t] > 0
        PROVE  uses'[t] = 1 /\ t \in TokensOf(window) \ TokensOf(rollouts)
    <3>1. CASE t \in TokensIn(batch)
      <4>1. ~(uses[t] > 0) /\ NoneTwice(batch) BY <1>2, <3>1 DEF Spent
      <4>2. uses[t] = 0 BY <1>5, <4>1
      <4>3. Occurrences(t, batch.tokens) = 1 BY <1>4, <3>1, <4>1
      <4>4. uses'[t] = 1 BY <1>5, <4>2, <4>3
      <4> QED BY <1>2, <3>1, <4>4 DEF Spent
    <3>2. CASE t \notin TokensIn(batch)
      <4>1. uses'[t] = uses[t] BY <1>5, <3>2
      <4> QED BY <1>2, <2>1, <4>1 DEF Spent
    <3> QED BY <3>1, <3>2
  <2> QED BY <1>1, <1>11, <2>1 DEF Spent
<1>13. Kept' BY <1>1, <1>2, <1>5, <1>8, <1>11 DEF Kept
<1>14. BatchRecorded'
  <2>1. [x \in {} |-> 1] \in [{} -> Slot] /\ DOMAIN [x \in {} |-> 1] = {} OBVIOUS
  <2>2. PICK f : f \in [{} -> Slot] /\ DOMAIN f = {} BY <2>1
  <2>3. /\ batch'.tokens = <<>> /\ batch'.logps = None /\ batch'.advantages = None
        /\ DOMAIN batch'.tokens = {}
    BY <1>1 DEF NoSlice
  <2> QED BY <2>2, <2>3 DEF BatchRecorded
<1>15. HonestAccepted'
  <2> SUFFICES ASSUME refused # {}
               PROVE  \E i \in refused :
                        \/ uses'[window[i].tokens] > 0
                        \/ \E j \in Slot : j # i /\ window[j].tokens = window[i].tokens
    BY <1>1 DEF HonestAccepted
  <2>1. PICK i \in refused :
          \/ uses[window[i].tokens] > 0
          \/ \E j \in Slot : j # i /\ window[j].tokens = window[i].tokens
    BY <1>2 DEF HonestAccepted
  <2>2. window[i].tokens \in Tokens BY <1>2, <1>8 DEF Typed, Row
  <2> QED BY <1>5, <2>1, <2>2
<1> QED BY <1>9, <1>10, <1>12, <1>13, <1>14, <1>15 DEF IInv

\* An optimizer step, or none, changes nothing the invariant is about.
LEMMA OthersKeep ==
  ASSUME IInv, micro' \in {micro, 0},
         UNCHANGED <<sliceSize, window, unserved, passes, batch, rollouts, capability, uses, blind,
                     refused>>
  PROVE  IInv'
<1>1. Typed BY DEF IInv
<1>2. micro' \in 0..Accumulate /\ (micro < Accumulate => micro' < Accumulate)
  BY <1>1, TrainerConstants DEF Typed, TypeOK
<1>3. TypeOK' BY <1>1, <1>2 DEF Typed, TypeOK
<1>4. Typed' BY <1>1, <1>2, <1>3 DEF Typed
<1>5. Records' /\ Spent' /\ Kept' /\ BatchRecorded' BY SameRows DEF IInv
<1>6. HonestAccepted' BY DEF IInv, HonestAccepted
<1> QED BY <1>4, <1>5, <1>6 DEF IInv

LEMMA NextKeeps == IInv /\ [Next]_vars => IInv'
<1> SUFFICES ASSUME IInv, [Next]_vars PROVE IInv' OBVIOUS
<1>1. CASE Generate BY <1>1, GenerateKeeps
<1>2. CASE NextIteration BY <1>2, NextIterationKeeps
<1>3. CASE micro < Accumulate /\ PrepareInputs
  <2>1. PICK f \in Slices, b \in SlicesOf(sliceSize) :
          /\ unserved' = unserved \ {f[i] : i \in DOMAIN f}
          /\ UNCHANGED <<sliceSize, window, passes>>
          /\ \/ PreUpdate(b) /\ Accept(b, f)
             \/ ~PreUpdate(b) /\ Refuse(b, f)
    BY <1>3 DEF PrepareInputs
  <2>2. batch = NoSlice /\ Cardinality(unserved) >= sliceSize BY <1>3 DEF PrepareInputs
  <2>3. CASE PreUpdate(b) /\ Accept(b, f) BY <1>3, <2>1, <2>2, <2>3, AcceptKeeps
  <2>4. CASE ~PreUpdate(b) /\ Refuse(b, f) BY <2>1, <2>2, <2>4, RefuseKeeps
  <2> QED BY <2>1, <2>3, <2>4
<1>4. CASE Backward BY <1>4, BackwardKeeps
<1>5. CASE OptimizerStep BY <1>5, OthersKeep DEF OptimizerStep, trl, history
<1>6. CASE UNCHANGED vars BY <1>6, OthersKeep DEF vars, trl, history
<1> QED BY <1>1, <1>2, <1>3, <1>4, <1>5, <1>6 DEF Next

LEMMA InvHolds == Spec => []IInv
BY InitInv, NextKeeps, PTL DEF Spec

----------------------------------------------------------------------------
(* Theorems                                                                *)

\* Types of the trainer's and the guard's state: the guard never holds more
\* records than the window has rows.
THEOREM TrainerTyped == Spec => []TypeOK
<1>1. IInv => TypeOK BY DEF IInv, Typed
<1> QED BY <1>1, InvHolds, PTL

\* _guard_pre_update: until a slice passes without records, a sequence of the
\* window reaches the gradients once at most and no other one does, whatever
\* columns a wiring bug changes.
THEOREM RowsUsedOnce == Spec => []NeverUsedTwice
<1>1. ASSUME IInv, ~blind, NEW t \in Tokens, uses[t] > 0
      PROVE  uses[t] = 1 /\ \E j \in Slot : window[j].tokens = t
  <2>1. Typed /\ Spent BY <1>1 DEF IInv
  <2>2. uses[t] = 1 /\ t \in TokensOf(window) BY <1>1, <2>1 DEF Spent
  <2>3. window # <<>> BY <2>2 DEF TokensOf
  <2>4. DOMAIN window = Slot BY <2>1, <2>3, Sizes
  <2> QED BY <2>2, <2>4 DEF TokensOf
<1>2. IInv => NeverUsedTwice BY <1>1 DEF NeverUsedTwice
<1> QED BY <1>2, InvHolds, PTL

\* _guard_pre_update returns early, without records, only when every sequence
\* of the window was used.
THEOREM RecordsLast == Spec => []NothingBlind
<1>1. ASSUME IInv, blind, NEW j \in Slot PROVE uses[window[j].tokens] > 0
  <2>1. Typed /\ Kept BY <1>1 DEF IInv
  <2>2. window # <<>> BY <1>1, <2>1 DEF Typed
  <2>3. DOMAIN window = Slot BY <2>1, <2>2, Sizes
  <2> QED BY <1>1, <2>1, <2>3 DEF Kept, TokensOf
<1>2. IInv => NothingBlind BY <1>1 DEF NothingBlind
<1> QED BY <1>2, InvHolds, PTL

\* A slice that passed while there were records is one of the window, as far as
\* the code compares it: tokens always, old logprobs and advantages if it has
\* them.
THEOREM SlicesRecorded == Spec => []BatchRecorded
<1>1. IInv => BatchRecorded BY DEF IInv
<1> QED BY <1>1, InvHolds, PTL

\* The guard refuses a slice that comes as it was generated only for a sequence
\* used before or sampled twice, in whatever order and slice sizes TRL serves
\* the window.
THEOREM HonestNeverRefused == Spec => []HonestAccepted
<1>1. IInv => HonestAccepted BY DEF IInv
<1> QED BY <1>1, InvHolds, PTL
=============================================================================
