--------------------------- MODULE SizedCallProofs ---------------------------
(***************************************************************************)
(* The buffer convention for answers of any length, an INT32_MAX of any    *)
(* size, and any number of changes of the answer while the host asks.      *)
(***************************************************************************)
EXTENDS SizedCall, FiniteSetTheorems, SequenceTheorems, TLAPS

(***************************************************************************)
(* Sorting: a finite set of indices has an enumeration along which the     *)
(* values do not fall.  The place of an index is the number of those       *)
(* before it, with the index itself deciding between equal values.         *)
(***************************************************************************)

Earlier(a, i, j) == a[i] < a[j] \/ (a[i] = a[j] /\ i < j)
Before(a, J, j) == {i \in J : Earlier(a, i, j)}
Rank(a, J, j) == Cardinality(Before(a, J, j)) + 1

Ascending(a, p) ==
    \A i, k \in DOMAIN p : i < k => p[i] # p[k] /\ a[p[i]] <= a[p[k]]

LEMMA RankInRange ==
    ASSUME NEW J, IsFiniteSet(J), NEW a, \A i \in J : i \in Int /\ a[i] \in Int,
           NEW j \in J
    PROVE  Rank(a, J, j) \in 1 .. Cardinality(J)
  <1>1. Before(a, J, j) \in SUBSET J /\ j \notin Before(a, J, j)
    BY DEF Before, Earlier
  <1>2. /\ IsFiniteSet(Before(a, J, j))
        /\ Cardinality(Before(a, J, j)) <= Cardinality(J)
        /\ Cardinality(Before(a, J, j)) # Cardinality(J)
    BY <1>1, FS_Subset
  <1>3. Cardinality(Before(a, J, j)) \in Nat /\ Cardinality(J) \in Nat
    BY <1>2, FS_CardinalityType
  <1> QED BY <1>2, <1>3 DEF Rank

LEMMA RankRises ==
    ASSUME NEW J, IsFiniteSet(J), NEW a, \A i \in J : i \in Int /\ a[i] \in Int,
           NEW i \in J, NEW j \in J, Earlier(a, i, j)
    PROVE  Rank(a, J, i) < Rank(a, J, j)
  <1>1. /\ Before(a, J, i) \in SUBSET Before(a, J, j)
        /\ i \in Before(a, J, j) /\ i \notin Before(a, J, i)
    BY DEF Before, Earlier
  <1>2. IsFiniteSet(Before(a, J, j))
    <2>1. Before(a, J, j) \in SUBSET J
      BY DEF Before
    <2> QED BY <2>1, FS_Subset
  <1>3. /\ IsFiniteSet(Before(a, J, i))
        /\ Cardinality(Before(a, J, i)) <= Cardinality(Before(a, J, j))
        /\ Cardinality(Before(a, J, i)) # Cardinality(Before(a, J, j))
    BY <1>1, <1>2, FS_Subset
  <1>4. Cardinality(Before(a, J, i)) \in Nat /\ Cardinality(Before(a, J, j)) \in Nat
    BY <1>2, <1>3, FS_CardinalityType
  <1> QED BY <1>3, <1>4 DEF Rank

\* The ranks are the numbers from 1 to the size of the set, each once.
LEMMA RanksAreAll ==
    ASSUME NEW J, IsFiniteSet(J), NEW a, \A i \in J : i \in Int /\ a[i] \in Int,
           NEW k \in 1 .. Cardinality(J)
    PROVE  \E j \in J : Rank(a, J, j) = k
  <1> DEFINE r == [j \in J |-> Rank(a, J, j)]
             T == 1 .. Cardinality(J)
  <1>1. r \in [J -> T]
    BY RankInRange
  <1>2. ASSUME NEW i \in J, NEW j \in J, r[i] = r[j] PROVE i = j
    <2>1. i # j => Earlier(a, i, j) \/ Earlier(a, j, i)
      BY DEF Earlier
    <2>2. Rank(a, J, i) \in Int /\ Rank(a, J, j) \in Int
      BY RankInRange
    <2> QED BY <1>2, <2>1, <2>2, RankRises
  <1>3. r \in Injection(J, T)
    BY <1>1, <1>2 DEF Injection, IsInjective
  <1>4. IsFiniteSet(T) /\ Cardinality(T) = Cardinality(J)
    BY FS_CardinalityType, FS_Interval
  <1>5. r \in Surjection(J, T)
    BY <1>3, <1>4, FS_Injection
  <1> QED BY <1>5 DEF Surjection

LEMMA SortingExists ==
    ASSUME NEW J, IsFiniteSet(J), NEW a, \A i \in J : i \in Int /\ a[i] \in Int
    PROVE  \E p \in [1 .. Cardinality(J) -> J] : Ascending(a, p)
  <1> DEFINE n == Cardinality(J)
             p == [k \in 1 .. n |-> CHOOSE j \in J : Rank(a, J, j) = k]
  <1>1. ASSUME NEW k \in 1 .. n PROVE p[k] \in J /\ Rank(a, J, p[k]) = k
    BY RanksAreAll
  <1>2. ASSUME NEW i \in 1 .. n, NEW k \in 1 .. n, i < k
        PROVE  p[i] # p[k] /\ a[p[i]] <= a[p[k]]
    <2>1. p[i] \in J /\ p[k] \in J /\ Rank(a, J, p[i]) = i /\ Rank(a, J, p[k]) = k
      BY <1>1
    <2>2. p[i] # p[k]
      BY <1>2, <2>1
    <2>3. ~ Earlier(a, p[k], p[i])
      <3>1. Earlier(a, p[k], p[i]) => k < i
        BY <2>1, RankRises
      <3> QED BY <1>2, <3>1, FS_CardinalityType
    <2>4. a[p[i]] \in Int /\ a[p[k]] \in Int
      BY <2>1
    <2> QED BY <2>2, <2>3, <2>4 DEF Earlier
  <1>3. p \in [1 .. n -> J] /\ DOMAIN p = 1 .. n
    BY <1>1
  <1> QED BY <1>2, <1>3 DEF Ascending

\* Such an enumeration leaves none of the indices out.
LEMMA SortingIsOnto ==
    ASSUME NEW J, IsFiniteSet(J), NEW a, NEW p \in [1 .. Cardinality(J) -> J],
           Ascending(a, p), NEW j \in J
    PROVE  \E k \in 1 .. Cardinality(J) : p[k] = j
  <1> DEFINE T == 1 .. Cardinality(J)
  <1>1. Cardinality(J) \in Nat
    BY FS_CardinalityType
  <1>2. ASSUME NEW i \in T, NEW k \in T, p[i] = p[k] PROVE i = k
    BY <1>1, <1>2 DEF Ascending
  <1>3. p \in Injection(T, J)
    BY <1>2 DEF Injection, IsInjective
  <1>4. Cardinality(T) = Cardinality(J)
    BY <1>1, FS_Interval
  <1>5. p \in Surjection(T, J)
    BY <1>3, <1>4, FS_Injection
  <1> QED BY <1>5 DEF Surjection

----------------------------------------------------------------------------
(* What the writers convert an answer to.                                  *)

\* The answers a call may have to write.
Possible(a) == a \in Seq(Int) /\ (kind # "string" => Len(a) <= IntMax)

LEMMA KeptIsFinite ==
    ASSUME NEW a \in Seq(Int)
    PROVE  /\ IsFiniteSet(Kept(a)) /\ Cardinality(Kept(a)) \in Nat
           /\ Cardinality(Kept(a)) <= Len(a)
           /\ \A j \in Kept(a) : j \in Int /\ a[j] \in Int
  <1>1. Len(a) \in Nat /\ DOMAIN a = 1 .. Len(a) /\ a \in [1 .. Len(a) -> Int]
    BY LenProperties
  <1>2. IsFiniteSet(1 .. Len(a)) /\ Cardinality(1 .. Len(a)) = Len(a)
    BY <1>1, FS_Interval
  <1>3. Kept(a) \in SUBSET (1 .. Len(a))
    BY <1>1 DEF Kept
  <1>4. IsFiniteSet(Kept(a)) /\ Cardinality(Kept(a)) <= Len(a)
    BY <1>2, <1>3, FS_Subset
  <1>5. \A j \in Kept(a) : j \in Int /\ a[j] \in Int
    BY <1>1, <1>3
  <1> QED BY <1>4, <1>5, FS_CardinalityType

LEMMA OrderSorts ==
    ASSUME NEW a \in Seq(Int)
    PROVE  /\ Order(a) \in [1 .. Cardinality(Kept(a)) -> Kept(a)]
           /\ Ascending(a, Order(a))
  <1>1. \E p \in [1 .. Cardinality(Kept(a)) -> Kept(a)] : Ascending(a, p)
    BY KeptIsFinite, SortingExists
  <1> QED BY <1>1 DEF Order, Ascending

\* The ids are sorted, and are those of the range, without the nulls.
LEMMA IdsConverted ==
    ASSUME NEW a \in Seq(Int), kind = "ids"
    PROVE  LET c == Converted(a)
               ids == {a[j] : j \in DOMAIN a} \ {None}
           IN  /\ c \in Seq(Int) /\ Len(c) <= Len(a)
               /\ \A k \in 1 .. Len(c) : c[k] \in ids
               /\ \A i, k \in 1 .. Len(c) : i < k => c[i] <= c[k]
               /\ \A e \in ids : \E k \in 1 .. Len(c) : c[k] = e
  <1> DEFINE n == Cardinality(Kept(a))
             p == Order(a)
             c == Converted(a)
             ids == {a[j] : j \in DOMAIN a} \ {None}
  <1>1. n \in Nat /\ n <= Len(a) /\ IsFiniteSet(Kept(a))
        /\ \A j \in Kept(a) : j \in Int /\ a[j] \in Int
    BY KeptIsFinite
  <1>2. p \in [1 .. n -> Kept(a)] /\ Ascending(a, p)
    BY OrderSorts
  <1>3. c = [k \in 1 .. n |-> a[p[k]]]
    BY DEF Converted
  <1>4. c \in [1 .. n -> Int] /\ DOMAIN c = 1 .. n
    BY <1>1, <1>2, <1>3
  <1>5. c \in Seq(Int) /\ Len(c) = n
    <2>1. c \in Seq(Int)
      BY <1>1, <1>4, SeqDef
    <2>2. Len(c) \in Nat /\ DOMAIN c = 1 .. Len(c)
      BY <2>1, LenProperties
    <2> QED BY <1>1, <1>4, <2>1, <2>2
  <1>6. \A k \in 1 .. n : c[k] \in ids
    BY <1>2, <1>3 DEF Kept
  <1>7. \A i, k \in 1 .. n : i < k => c[i] <= c[k]
    BY <1>2, <1>3 DEF Ascending
  <1>8. ASSUME NEW e \in ids PROVE \E k \in 1 .. n : c[k] = e
    <2>1. PICK j \in Kept(a) : a[j] = e
      BY DEF Kept
    <2>2. PICK k \in 1 .. n : p[k] = j
      BY <1>1, <1>2, SortingIsOnto
    <2> QED BY <1>3, <2>1, <2>2
  <1> QED BY <1>1, <1>5, <1>6, <1>7, <1>8

\* A converted answer is a sequence, whose length the count holds.
LEMMA ConvertedIsASequence ==
    ASSUME NEW a, Possible(a)
    PROVE  /\ Len(Converted(a)) \in Nat
           /\ kind # "string" => Len(Converted(a)) <= IntMax
  <1>1. a \in Seq(Int) /\ Len(a) \in Nat
    BY LenProperties DEF Possible
  <1>2. CASE kind = "ids"
    <2>1. Converted(a) \in Seq(Int) /\ Len(Converted(a)) <= Len(a)
      BY <1>1, <1>2, IdsConverted
    <2>2. Len(Converted(a)) \in Nat
      BY <2>1, LenProperties
    <2> QED BY <1>1, <1>2, <2>1, <2>2, MaxAssumption DEF Possible
  <1>3. CASE kind # "ids"
    BY <1>1, <1>3 DEF Converted, Possible
  <1> QED BY <1>2, <1>3

----------------------------------------------------------------------------
(* The host's loop.                                                        *)

\* The strengthening: the host asks with a length an int32_t holds, also
\* after it has grown its buffer, and the answer is one the call may yield.
LoopInvariant ==
    /\ kind \in Kinds /\ answer \in Answers[kind]
    /\ cap \in 0 .. IntMax
    /\ out = [k \in Cells |-> out[k]]

LEMMA AnswerIsPossible ==
    ASSUME LoopInvariant
    PROVE  Possible(answer)
  BY AnswersAssumption DEF LoopInvariant, Possible

LEMMA GrownInRange ==
    ASSUME NEW r \in Nat
    PROVE  Grown(r) \in 0 .. IntMax
  BY SlackAssumption, MaxAssumption DEF Grown, Smaller

LEMMA NeededIsNat ==
    ASSUME NEW a, Possible(a)
    PROVE  Needed(Converted(a)) \in Nat
  BY ConvertedIsASequence, MaxAssumption DEF Needed, Smaller

LEMMA LoopInvariantInit == Init => LoopInvariant
  <1> SUFFICES ASSUME Init PROVE LoopInvariant
    OBVIOUS
  <1>1. out = [k \in Cells |-> out[k]]
    BY DEF Init
  <1> QED BY <1>1, CapsAssumption DEF Init, LoopInvariant

LEMMA LoopInvariantNext == LoopInvariant /\ [Next]_vars => LoopInvariant'
  <1> SUFFICES ASSUME LoopInvariant, [Next]_vars PROVE LoopInvariant'
    OBVIOUS
  <1>1. CASE Call
    <2>1. out' = [k \in Cells |-> out'[k]]
      BY <1>1 DEF Call, Written
    <2>2. ret' \in Nat
      BY <1>1, AnswerIsPossible, NeededIsNat DEF Call
    <2>3. cap' = cap \/ cap' = Grown(ret')
      BY <1>1 DEF Call
    <2> QED BY <1>1, <2>1, <2>2, <2>3, GrownInRange DEF Call, LoopInvariant
  <1>2. CASE CallMalformed
    BY <1>2 DEF CallMalformed, LoopInvariant
  <1>3. CASE CallThrows
    <2>1. out' = [k \in Cells |-> out'[k]]
      BY <1>3 DEF CallThrows, LoopInvariant
    <2> QED BY <1>3, <2>1 DEF CallThrows, LoopInvariant
  <1>4. CASE AskAgain
    BY <1>4 DEF AskAgain, LoopInvariant
  <1>5. ASSUME NEW a \in Answers[kind], Change(a) PROVE LoopInvariant'
    BY <1>5 DEF Change, LoopInvariant
  <1>6. CASE UNCHANGED vars
    BY <1>6 DEF vars, LoopInvariant
  <1> QED BY <1>1, <1>2, <1>3, <1>4, <1>5, <1>6 DEF Next

THEOREM LoopIsInvariant == Spec => []LoopInvariant
  BY LoopInvariantInit, LoopInvariantNext, PTL DEF Spec

\* The cells there is room for hold the head of the answer; a string's NUL
\* comes after it, and the cells after that are left alone.
LEMMA WrittenCells ==
    ASSUME NEW n \in 0 .. IntMax, NEW a, Len(a) \in Nat
    PROVE  /\ Room(n, a) \in 0 .. n /\ Room(n, a) <= Len(a)
           /\ kind # "string" => Room(n, a) = Smaller(n, Len(a))
           /\ kind = "string" /\ n > 0 =>
                 /\ Room(n, a) + 1 \in 1 .. n
                 /\ Room(n, a) = Smaller(n - 1, Len(a))
                 /\ Written(n, a)[Room(n, a) + 1] = Nul
           /\ \A k \in 1 .. Room(n, a) : Written(n, a)[k] = Elem(a[k])
           /\ \A k \in Cells : k > n => Written(n, a)[k] = out[k]
  <1>1. n \in Int /\ IntMax \in Int
    BY MaxAssumption
  <1>2. Room(n, a) \in 0 .. n /\ Room(n, a) <= Len(a)
    BY <1>1 DEF Room, Smaller
  <1>3. kind # "string" => Room(n, a) = Smaller(n, Len(a))
    BY <1>1 DEF Room, Smaller
  <1>4. kind = "string" /\ n > 0 =>
           Room(n, a) + 1 \in 1 .. n /\ Room(n, a) = Smaller(n - 1, Len(a))
    BY <1>1 DEF Room, Smaller
  <1>5. \A k \in Cells :
            Written(n, a)[k] =
                CASE k <= Room(n, a) -> Elem(a[k])
                  [] kind = "string" /\ n > 0 /\ k = Room(n, a) + 1 -> Nul
                  [] OTHER -> out[k]
    BY DEF Written
  <1>6. kind = "string" /\ n > 0 => Written(n, a)[Room(n, a) + 1] = Nul
    BY <1>1, <1>2, <1>4, <1>5 DEF Cells
  <1>7. \A k \in 1 .. Room(n, a) : Written(n, a)[k] = Elem(a[k])
    BY <1>1, <1>2, <1>5 DEF Cells
  <1>8. ASSUME NEW k \in Cells, k > n PROVE Written(n, a)[k] = out[k]
    <2>1. ~ (k <= Room(n, a)) /\ ~ (kind = "string" /\ n > 0 /\ k = Room(n, a) + 1)
      BY <1>1, <1>2, <1>4, <1>8 DEF Cells
    <2> QED BY <1>5, <2>1
  <1> QED BY <1>2, <1>3, <1>4, <1>6, <1>7, <1>8

----------------------------------------------------------------------------

LEMMA TakenIsWholeNext ==
    LoopInvariant /\ TakenIsWhole /\ [Next]_vars => TakenIsWhole'
  <1> SUFFICES ASSUME LoopInvariant, TakenIsWhole, [Next]_vars, pc' = "taken"
               PROVE  /\ Len(Converted(seen)') = ret'
                      /\ \A k \in 1 .. ret' : out'[k] = Elem(Converted(seen)'[k])
                      /\ kind' = "string" => out'[ret' + 1] = Nul
    BY DEF TakenIsWhole, Elem, Nul
  <1>1. CASE Call
    <2> DEFINE a == Converted(answer)
    <2>1. /\ out' = Written(cap, a) /\ ret' = Needed(a) /\ Fits(ret')
          /\ kind' = kind /\ seen' = answer
      BY <1>1 DEF Call
    <2>2. Converted(seen)' = a
      BY <2>1 DEF Converted, Order, Kept
    <2>3. Len(a) \in Nat /\ (kind # "string" => Len(a) <= IntMax)
      BY AnswerIsPossible, ConvertedIsASequence
    <2>4. cap \in 0 .. IntMax /\ IntMax \in Nat
      BY MaxAssumption DEF LoopInvariant
    <2>5. ret' = Len(a) /\ (kind = "string" => ret' < cap) /\ ret' <= cap
      BY <2>1, <2>3, <2>4 DEF Needed, Fits, Smaller
    <2>6. Room(cap, a) = ret'
      BY <2>3, <2>4, <2>5, WrittenCells DEF Smaller
    <2>7. \A k \in 1 .. ret' : out'[k] = Elem(a[k])
      BY <2>1, <2>3, <2>4, <2>6, WrittenCells
    <2>8. kind = "string" => out'[ret' + 1] = Nul
      <3>1. kind = "string" => cap > 0
        BY <2>3, <2>4, <2>5
      <3> QED BY <2>1, <2>3, <2>4, <2>6, <3>1, WrittenCells
    <2> QED BY <2>1, <2>2, <2>5, <2>7, <2>8
  <1>2. CASE ~ Call
    <2>1. pc = "taken" /\ UNCHANGED <<kind, seen, ret, out>>
      BY <1>2 DEF Next, CallMalformed, CallThrows, AskAgain, Change, vars
    <2>2. Converted(seen)' = Converted(seen)
      BY <2>1 DEF Converted, Order, Kept
    <2> QED BY <2>1, <2>2 DEF TakenIsWhole
  <1> QED BY <1>1, <1>2

\* What fits is whole: a host that takes what came back, because the length
\* returned says there was room for it, has the answer of that call, all of it
\* and nothing else, at any INT32_MAX and for strings longer than that.
THEOREM TakenAnswerIsWhole == Spec => []TakenIsWhole
  <1>1. Init => TakenIsWhole
    BY DEF Init, TakenIsWhole
  <1> QED BY <1>1, TakenIsWholeNext, LoopIsInvariant, PTL DEF Spec

\* No writer leaves the buffer of its call, and a string ends inside it.
THEOREM WritersStayInBuffer == Spec => StaysInBuffer
  <1> DEFINE Stays ==
          /\ \A k \in Cells : k > cap \/ code' = "BAD_BUFFER" => out'[k] = out[k]
          /\ kind = "string" /\ cap > 0 /\ (Call \/ CallThrows) =>
                \E k \in 1 .. cap : out'[k] = Nul
  <1>1. ASSUME LoopInvariant, Next PROVE Stays
    <2>1. cap \in 0 .. IntMax /\ IntMax \in Nat /\ Len(Converted(answer)) \in Nat
      BY <1>1, AnswerIsPossible, ConvertedIsASequence, MaxAssumption DEF LoopInvariant
    <2>2. CASE Call
      <3>1. out' = Written(cap, Converted(answer)) /\ code' = "none"
        BY <2>2 DEF Call
      <3>2. \A k \in Cells : k > cap => out'[k] = out[k]
        BY <2>1, <3>1, WrittenCells
      <3>3. kind = "string" /\ cap > 0 => \E k \in 1 .. cap : out'[k] = Nul
        BY <2>1, <3>1, WrittenCells
      <3> QED BY <3>1, <3>2, <3>3
    <2>3. CASE CallThrows
      <3>1. code' = "EXCEPTION"
        BY <2>3 DEF CallThrows
      <3>2. \A k \in Cells : k > cap => out'[k] = out[k]
        BY <1>1, <2>1, <2>3 DEF CallThrows, LoopInvariant, Cells
      <3>3. kind = "string" /\ cap > 0 => 1 \in 1 .. cap /\ out'[1] = Nul
        BY <1>1, <2>1, <2>3 DEF CallThrows, LoopInvariant, Cells
      <3> QED BY <3>1, <3>2, <3>3
    <2>4. CASE ~ Call /\ ~ CallThrows
      <3>1. out' = out
        BY <1>1, <2>4 DEF Next, CallMalformed, AskAgain, Change
      <3> QED BY <2>4, <3>1
    <2> QED BY <2>2, <2>3, <2>4
  <1>2. LoopInvariant /\ [Next]_vars => [Stays]_vars
    BY <1>1
  <1> QED BY <1>2, LoopIsInvariant, PTL DEF Spec, StaysInBuffer

\* The ids of a truncated collection are the smallest, whatever order the
\* range was iterated in: none but its own, ascending, and none left out that
\* is less than one written.
THEOREM TruncatedHeadIsSmallest == Spec => TruncatedIsSmallest
  <1> DEFINE Smallest ==
          kind = "ids" /\ Call =>
              LET ids == {answer[j] : j \in DOMAIN answer} \ {None}
              IN  \A k \in 1 .. Smaller(cap, ret') :
                      /\ out'[k][2] \in ids
                      /\ \A e \in ids : e < out'[k][2] =>
                            \E j \in 1 .. k - 1 : out'[j] = Elem(e)
  <1>1. ASSUME LoopInvariant, kind = "ids", Call PROVE Smallest
    <2> DEFINE a == Converted(answer)
               ids == {answer[j] : j \in DOMAIN answer} \ {None}
    <2>1. answer \in Seq(Int)
      BY <1>1, AnswerIsPossible DEF Possible
    <2>2. /\ a \in Seq(Int)
          /\ \A k \in 1 .. Len(a) : a[k] \in ids
          /\ \A i, k \in 1 .. Len(a) : i < k => a[i] <= a[k]
          /\ \A e \in ids : \E k \in 1 .. Len(a) : a[k] = e
      BY <1>1, <2>1, IdsConverted
    <2>3. Len(a) \in Nat /\ a \in [1 .. Len(a) -> Int]
      BY <2>2, LenProperties
    <2>4. cap \in 0 .. IntMax /\ IntMax \in Nat
      BY <1>1, MaxAssumption DEF LoopInvariant
    <2>5. out' = Written(cap, a) /\ ret' = Len(a)
      BY <1>1 DEF Call, Needed
    <2>6. Room(cap, a) = Smaller(cap, ret')
      BY <1>1, <2>3, <2>4, <2>5, WrittenCells
    <2>7. \A k \in 1 .. Smaller(cap, ret') : out'[k] = Elem(a[k]) /\ out'[k][2] = a[k]
      BY <2>3, <2>4, <2>5, <2>6, WrittenCells DEF Elem
    <2>8. ASSUME NEW k \in 1 .. Smaller(cap, ret') PROVE k \in 1 .. Len(a)
      BY <2>3, <2>4, <2>5 DEF Smaller
    <2>9. ASSUME NEW k \in 1 .. Smaller(cap, ret'), NEW e \in ids, e < out'[k][2]
          PROVE  \E j \in 1 .. k - 1 : out'[j] = Elem(e)
      <3>1. PICK j \in 1 .. Len(a) : a[j] = e
        BY <2>2
      <3>2. k \in 1 .. Len(a) /\ out'[k][2] = a[k] /\ a[j] < a[k]
        BY <2>7, <2>8, <2>9, <3>1
      <3>3. j < k
        <4>1. a[j] \in Int /\ a[k] \in Int
          BY <2>3, <3>1, <3>2
        <4>2. k < j => a[k] <= a[j]
          BY <2>2, <3>1, <3>2
        <4> QED BY <2>3, <3>1, <3>2, <4>1, <4>2
      <3>4. j \in 1 .. k - 1 /\ j \in 1 .. Smaller(cap, ret')
        BY <2>3, <2>4, <2>5, <3>1, <3>2, <3>3 DEF Smaller
      <3> QED BY <2>7, <3>1, <3>4
    <2> QED BY <2>2, <2>7, <2>8, <2>9
  <1>2. LoopInvariant /\ [Next]_vars => [Smallest]_vars
    BY <1>1
  <1> QED BY <1>2, LoopIsInvariant, PTL DEF Spec, TruncatedIsSmallest

\* What HostServed rests on: a call that did not fit makes the host grow its
\* buffer, to one that fits what it was told, unless the answer is a string that
\* fits no buffer.  If the answer stays as it is, the next call is the last.
THEOREM OneRetryServes ==
    Spec => [][Call /\ pc' = "host" =>
                  \/ cap < cap' /\ Fits(ret)'
                  \/ kind = "string" /\ Len(answer) >= IntMax]_vars
  <1> DEFINE Served ==
          Call /\ pc' = "host" =>
              \/ cap < cap' /\ Fits(ret)'
              \/ kind = "string" /\ Len(answer) >= IntMax
  <1>1. ASSUME LoopInvariant, Call, pc' = "host",
               ~ (kind = "string" /\ Len(answer) >= IntMax)
        PROVE  cap < cap' /\ Fits(ret)'
    <2> DEFINE a == Converted(answer)
    <2>1. /\ cap \in 0 .. IntMax /\ IntMax \in Nat /\ Slack \in Nat
          /\ Len(a) \in Nat /\ (kind # "string" => Len(a) <= IntMax)
      BY <1>1, AnswerIsPossible, ConvertedIsASequence, MaxAssumption, SlackAssumption
      DEF LoopInvariant
    <2>2. kind = "string" => a = answer
      BY DEF Converted
    <2>3. ret' = Len(a) /\ (kind = "string" => Len(a) < IntMax)
      BY <1>1, <2>1, <2>2 DEF Call, Needed, Smaller
    <2>4. kind' = kind /\ cap' = Grown(ret') /\ ~ Fits(ret')
      BY <1>1 DEF Call
    <2> QED BY <2>1, <2>3, <2>4 DEF Grown, Smaller, Fits
  <1>2. LoopInvariant /\ [Next]_vars => [Served]_vars
    BY <1>1
  <1> QED BY <1>2, LoopIsInvariant, PTL DEF Spec

=============================================================================
