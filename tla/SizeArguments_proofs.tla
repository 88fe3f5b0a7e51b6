------------------------ MODULE SizeArguments_proofs ------------------------
(***************************************************************************)
(* For every set of suffixes, every order in which the map hands them out,  *)
(* every width of the integers and every argument: the sort puts the longer *)
(* suffixes first, so parseSize reads what was meant, and no size that is   *)
(* not positive makes create or grow touch an image.                        *)
(***************************************************************************)
EXTENDS SizeArguments, FiniteSetTheorems, NaturalsInduction, WellFoundedInduction, TLAPS

------------------------------------------------------------------------------
(* Numbers *)

\* A remainder and what it leaves.
LEMMA Remainder ==
  ASSUME NEW b \in Int, NEW m \in Nat \ {0}
  PROVE  /\ b \div m \in Int /\ b % m \in 0..(m - 1)
         /\ b = m * (b \div m) + (b % m)
<1>1. b \div m \in Int
  OBVIOUS
<1>2. b % m \in 0..(m - 1)
  OBVIOUS
<1>3. b = m * (b \div m) + (b % m)
  OBVIOUS
<1> QED
  BY <1>1, <1>2, <1>3

\* A number below the modulus is its own remainder.
LEMMA SmallRemainder ==
  ASSUME NEW b \in Nat, NEW m \in Nat \ {0}, b < m
  PROVE  b % m = b
OBVIOUS

\* An int64 product stays an int64, and is right if it fits.
LEMMA WrapIsInt64 ==
  ASSUME NEW x \in Int
  PROVE  /\ Wrap(x) \in (-MaxInt - 1)..MaxInt
         /\ x \in 0..MaxInt => Wrap(x) = x
<1> DEFINE m == 2 * (MaxInt + 1)
           b == x + MaxInt + 1
<1>1. MaxInt \in Nat /\ m \in Nat \ {0} /\ b \in Int
  BY SizeAssumption
<1>2. b % m \in 0..(m - 1)
  <2> HIDE DEF b, m
  <2> QED
    BY <1>1, Remainder
<1>3. x \in 0..MaxInt => b % m = b
  <2>1. x \in 0..MaxInt => b \in Nat /\ b < m
    BY <1>1
  <2> HIDE DEF b, m
  <2> QED
    BY <1>1, <2>1, SmallRemainder
<1>4. Wrap(x) = (b % m) - (MaxInt + 1)
  BY DEF Wrap
<1>5. (b % m) \in Int
  BY <1>2
<1> DEFINE c == b % m
<1>6. c \in Int /\ 0 <= c /\ c <= 2 * (MaxInt + 1) - 1 /\ (x \in 0..MaxInt => c = x + MaxInt + 1) /\ Wrap(x) = c - (MaxInt + 1)
  BY <1>1, <1>2, <1>3, <1>4, <1>5
<1> HIDE DEF c, b, m
<1> QED
  BY <1>1, <1>6

\* The multipliers are positive.
LEMMA MultiplierPositive ==
  ASSUME NEW q \in Units
  PROVE  Multiplier[q] \in Nat \ {0} /\ q \in Nat
<1>1. Multiplier \in [Units -> Nat \ {0}] /\ Units = 0..(Cardinality(Units) - 1)
  BY SizeAssumption
<1>2. Multiplier[q] \in Nat \ {0}
  BY <1>1
<1>3. q \in 0..(Cardinality(Units) - 1)
  BY <1>1
<1> QED
  BY <1>2, <1>3

------------------------------------------------------------------------------
(* The order of the suffixes *)

\* Every suffix is among the keys.
LEMMA KeysOnto ==
  ASSUME NEW k \in Orders, NEW s \in Suffixes
  PROVE  \E a \in 1..Cardinality(Suffixes) : k[a] = s
<1> DEFINE N == Cardinality(Suffixes)
<1>1. N \in Nat /\ IsFiniteSet(Suffixes)
  BY SizeAssumption, FS_CardinalityType
<1>2. IsFiniteSet(1..N) /\ Cardinality(1..N) = N
  BY <1>1, FS_Interval
<1>3. k \in Injection(1..N, Suffixes)
  BY DEF Orders, Injection, IsInjective
<1>4. k \in Surjection(1..N, Suffixes)
  BY <1>1, <1>2, <1>3, FS_Injection
<1> QED
  BY <1>4 DEF Surjection

N == Cardinality(Suffixes)

\* As many keys as there are suffixes.
LEMMA KeysAre ==
  ASSUME NEW k \in Orders
  PROVE  /\ k \in [1..N -> Suffixes] /\ DOMAIN k = 1..N /\ Len(k) = N /\ N \in Nat \ {0}
         /\ \A a \in 1..N : Length[k[a]] \in Nat
<1>1. N \in Nat /\ 0 \in Units /\ Named \in [Units -> Suffixes] /\ Length \in [Suffixes -> Nat \ {0}]
      /\ IsFiniteSet(Suffixes)
  BY SizeAssumption, FS_CardinalityType DEF N
<1>2. k \in [1..N -> Suffixes]
  BY DEF Orders, N
<1>3. k \in Seq(Suffixes) /\ Len(k) = N
  BY <1>1, <1>2
<1>4. N # 0
  <2>1. Suffixes # {}
    BY <1>1
  <2> QED
    BY <1>1, <2>1, FS_EmptySet DEF N
<1> QED
  BY <1>1, <1>2, <1>3, <1>4

\* The keys up to b are in order, but for the one at j, which is on its way to the front.
SortedButAt(b, m) ==
  \A x, y \in 1..N : x < y /\ y <= b /\ y # m => Length[keys[x]] >= Length[keys[y]]

Sorted == \A x, y \in 1..N : x < y => Length[keys[x]] >= Length[keys[y]]

\* The longer suffixes come first; the search passes over those that are not at the
\* end of the argument.
SortInv ==
  /\ pc = "sort" => j <= i /\ SortedButAt(i, j) /\ (i > N => j = i)
  /\ pc # "sort" => Sorted
  /\ pc = "match" => \A a \in 1..N : a < i => keys[a] \notin Ends[word]

\* The command line, and what each stage has returned so far.
Line ==
  /\ TypeOK
  /\ cmd \in Commands /\ num \in Int /\ word \in Words
  /\ pc # "done" => res = "none" /\ file = OldSize
  /\ file # OldSize => WellFormed /\ (cmd \in {"create", "grow"} => size > 0)
  /\ res = "nil" => pc = "done" /\ file = size /\ (cmd \in {"create", "grow"} => size > 0)

\* The report is that of the command.
Reported ==
  res = "nil" =>
    IF cmd = "fsgrow" THEN report \in execHumanSizes(Unsigned(size)) ELSE report = humanSize(size)

ParseInv == Line /\ SortInv /\ ParsesAsAsked /\ Reported

\* A step of the inner loop.
LEMMA SwapSorts ==
  ASSUME ParseInv, Swap
  PROVE  keys' \in Orders /\ j' \in 1..(N + 1) /\ j' <= i /\ SortedButAt(i, j)' /\ (i > N => j' = i)
<1>0. /\ keys \in Orders /\ i \in 1..(N + 1) /\ j \in 1..(N + 1) /\ pc = "sort" /\ i <= N /\ j > 1
      /\ j <= i /\ SortedButAt(i, j)
      /\ Length[keys[j]] > Length[keys[j - 1]] /\ keys' = [keys EXCEPT ![j] = keys[j - 1], ![j - 1] = keys[j]]
      /\ j' = j - 1 /\ i' = i
  BY KeysAre DEF ParseInv, Line, TypeOK, SortInv, Swap, Misplaced
<1>1. /\ keys \in [1..N -> Suffixes] /\ N \in Nat \ {0} /\ \A a \in 1..N : Length[keys[a]] \in Nat
  BY <1>0, KeysAre
<1>2. j \in 1..N /\ j - 1 \in 1..N /\ j \in Nat /\ i \in Nat
  BY <1>0, <1>1
<1>3. /\ keys'[j] = keys[j - 1] /\ keys'[j - 1] = keys[j]
      /\ \A a \in 1..N : a # j /\ a # j - 1 => keys'[a] = keys[a]
      /\ keys' \in [1..N -> Suffixes]
  BY <1>0, <1>1, <1>2
<1>4. keys' \in Orders
  <2>1. \A a, b \in 1..N : keys[a] = keys[b] => a = b
    BY <1>0, <1>1 DEF Orders
  <2>2. ASSUME NEW a \in 1..N, NEW b \in 1..N, keys'[a] = keys'[b] PROVE a = b
    <3>1. CASE a = j
      BY <1>2, <1>3, <2>1, <2>2, <3>1
    <3>2. CASE a = j - 1
      BY <1>2, <1>3, <2>1, <2>2, <3>2
    <3>3. CASE a # j /\ a # j - 1
      BY <1>2, <1>3, <2>1, <2>2, <3>3
    <3> QED
      BY <3>1, <3>2, <3>3
  <2>3. DOMAIN keys' = 1..N
    BY <1>3
  <2> QED
    BY <1>3, <2>2, <2>3 DEF Orders, N
<1>5. ASSUME NEW x \in 1..N, NEW y \in 1..N, x < y, y <= i, y # j - 1
      PROVE  Length[keys'[x]] >= Length[keys'[y]]
  <2>0. \A a, b \in 1..N : a < b /\ b <= i /\ b # j => Length[keys[a]] >= Length[keys[b]]
    BY <1>0 DEF SortedButAt
  <2>1. CASE y = j /\ x = j - 1
    BY <1>0, <1>1, <1>2, <1>3, <2>1
  <2>2. CASE y = j /\ x # j - 1
    <3>1. x < j - 1 /\ x # j
      BY <1>2, <1>5, <2>2
    <3>2. keys'[x] = keys[x] /\ keys'[y] = keys[j - 1] /\ j - 1 <= i /\ j - 1 # j
      BY <1>0, <1>2, <1>3, <2>2, <3>1
    <3> QED
      BY <1>2, <2>0, <3>1, <3>2
  <2>3. CASE y # j
    <3>1. keys'[y] = keys[y]
      BY <1>3, <1>5, <2>3
    <3>2. CASE x = j
      <4>1. j - 1 < y
        BY <1>2, <1>5, <3>2
      <4> QED
        BY <1>2, <1>3, <1>5, <2>0, <2>3, <3>1, <3>2, <4>1
    <3>3. CASE x = j - 1
      <4>1. j < y
        BY <1>2, <1>5, <2>3, <3>3
      <4> QED
        BY <1>2, <1>3, <1>5, <2>0, <2>3, <3>1, <3>3, <4>1
    <3>4. CASE x # j /\ x # j - 1
      BY <1>3, <1>5, <2>0, <2>3, <3>1, <3>4
    <3> QED
      BY <3>2, <3>3, <3>4
  <2> QED
    BY <2>1, <2>2, <2>3
<1>6. SortedButAt(i, j)'
  <2>1. \A x, y \in 1..N : x < y /\ y <= i' /\ y # j' => Length[keys'[x]] >= Length[keys'[y]]
    BY <1>0, <1>5
  <2> QED
    BY <2>1 DEF SortedButAt, N
<1> QED
  BY <1>0, <1>1, <1>2, <1>4, <1>6

\* A step of the outer loop: one more key is in its place.
LEMMA NextKeySorts ==
  ASSUME ParseInv, NextKey
  PROVE  SortInv' /\ i' \in 1..(N + 1) /\ j' \in 1..(N + 1)
<1>0. /\ keys \in Orders /\ i \in 1..(N + 1) /\ j \in 1..(N + 1) /\ pc = "sort" /\ keys' = keys /\ Len(keys) = N
      /\ j <= i /\ SortedButAt(i, j) /\ (i > N => j = i)
  BY KeysAre DEF ParseInv, Line, TypeOK, SortInv, NextKey
<1>1. N \in Nat \ {0} /\ (\A a \in 1..N : Length[keys[a]] \in Nat) /\ i \in Nat /\ j \in Nat
  BY <1>0, KeysAre
<1>2. \A a, b \in 1..N : a < b /\ b <= i /\ b # j => Length[keys[a]] >= Length[keys[b]]
  BY <1>0 DEF SortedButAt
<1>3. CASE i <= N /\ ~(j > 1 /\ Misplaced(keys[j], keys[j - 1])) /\ i' = i + 1 /\ j' = i + 1 /\ pc' = pc
  <2>1. ASSUME NEW x \in 1..N, NEW y \in 1..N, x < y, y <= i PROVE Length[keys[x]] >= Length[keys[y]]
    <3>1. CASE y # j
      BY <1>2, <2>1, <3>1
    <3>2. CASE y = j
      <4>1. j > 1 /\ j - 1 \in 1..N
        BY <1>1, <2>1, <3>2
      <4>2. Length[keys[j - 1]] >= Length[keys[j]]
        BY <1>1, <1>3, <2>1, <3>2, <4>1 DEF Misplaced
      <4>3. x = j - 1 \/ x < j - 1
        BY <1>1, <2>1, <3>2
      <4>4. x < j - 1 => Length[keys[x]] >= Length[keys[j - 1]]
        <5>1. j - 1 <= i /\ j - 1 # j
          BY <1>0, <1>1
        <5> QED
          BY <1>2, <4>1, <5>1
      <4> QED
        BY <1>1, <2>1, <3>2, <4>1, <4>2, <4>3, <4>4
    <3> QED
      BY <3>1, <3>2
  <2>2. \A x, y \in 1..N : x < y /\ y <= i + 1 /\ y # i + 1 => Length[keys[x]] >= Length[keys[y]]
    BY <1>1, <2>1
  <2>3. SortedButAt(i, j)'
    <3>1. \A x, y \in 1..N : x < y /\ y <= i' /\ y # j' => Length[keys'[x]] >= Length[keys'[y]]
      BY <1>0, <1>3, <2>2
    <3> QED
      BY <3>1 DEF SortedButAt, N
  <2>4. SortInv'
    BY <1>0, <1>1, <1>3, <2>3 DEF SortInv
  <2> QED
    BY <1>0, <1>1, <1>3, <2>4
<1>4. CASE i > N /\ i' = 1 /\ j' = 1 /\ pc' = "match"
  <2>1. Sorted'
    <3>1. \A x, y \in 1..N : x < y => Length[keys'[x]] >= Length[keys'[y]]
      BY <1>0, <1>1, <1>2, <1>4
    <3> QED
      BY <3>1 DEF Sorted, N
  <2>2. \A a \in 1..N : ~(a < 1)
    BY <1>1
  <2>3. SortInv'
    BY <1>4, <2>1, <2>2 DEF SortInv, N
  <2> QED
    BY <1>1, <1>4, <2>3
<1> QED
  BY <1>0, <1>3, <1>4 DEF NextKey, GoTo

\* The suffixes of one argument: the argument itself is the longest.
LEMMA OneSuffix ==
  ASSUME NEW w \in Words, NEW s \in Ends[w]
  PROVE  /\ w # NoWord /\ s \in Suffixes
         /\ w \in Suffixes => w \in Ends[w] /\ (Length[s] >= Length[w] => s = w)
<1>1. Ends \in [Words -> SUBSET Suffixes] /\ Length \in [Suffixes -> Nat \ {0}] /\ Ends[NoWord] = {}
  BY SizeAssumption
<1>2. \A a, b \in Ends[w] : Length[a] = Length[b] => a = b
  BY SizeAssumption
<1>3. w \in Suffixes => w \in Ends[w] /\ Length[s] <= Length[w]
  BY SizeAssumption
<1>4. s \in Suffixes /\ w # NoWord
  BY <1>1
<1>5. w \in Suffixes => Length[s] \in Nat /\ Length[w] \in Nat
  BY <1>1, <1>4
<1> QED
  BY <1>2, <1>3, <1>4, <1>5

\* What follows a well-formed number has a multiplier.
LEMMA AskedIsInt ==
  ASSUME num \in Int, word \in Suffixes \cup {NoWord}
  PROVE  Asked \in Int
<1>1. Power \in [Suffixes -> Units]
  BY SizeAssumption
<1>2. CASE word = NoWord
  BY <1>2 DEF Asked
<1>3. CASE word # NoWord
  <2>1. Multiplier[Power[word]] \in Nat
    BY <1>1, <1>3, MultiplierPositive
  <2>2. Asked = num * Multiplier[Power[word]]
    BY <1>3 DEF Asked
  <2> QED
    BY <2>1, <2>2
<1> QED
  BY <1>2, <1>3

\* The suffix the search stops at is the one that was meant.
LEMMA MatchParses ==
  ASSUME ParseInv, Match
  PROVE  /\ SortInv' /\ ParsesAsAsked' /\ i' \in 1..(N + 1) /\ pc' \in {"match", "run", "done"}
         /\ size' \in (-MaxInt - 1)..MaxInt /\ res' = (IF pc' = "done" THEN "err" ELSE res)
<1>0. /\ keys \in Orders /\ i \in 1..(N + 1) /\ pc = "match" /\ keys' = keys /\ Len(keys) = N /\ i <= N
      /\ word' = word /\ num' = num /\ Sorted /\ num \in Int /\ word \in Words
      /\ \A a \in 1..N : a < i => keys[a] \notin Ends[word]
  BY KeysAre DEF ParseInv, Line, TypeOK, SortInv, Match
<1>1. N \in Nat \ {0} /\ keys \in [1..N -> Suffixes] /\ i \in Nat /\ i \in 1..N
  BY <1>0, KeysAre
<1>2. Sorted'
  BY <1>0 DEF Sorted, N
<1>3. MaxInt \in Nat /\ Power \in [Suffixes -> Units] /\ NoWord \notin Suffixes
  BY SizeAssumption
<1>4. size \in (-MaxInt - 1)..MaxInt /\ res = "none"
  BY <1>0 DEF ParseInv, Line, TypeOK
<1>5. CASE keys[i] \notin Ends[word] /\ i' = i + 1 /\ UNCHANGED <<pc, size, res>>
  <2>1. \A a \in 1..N : a < i + 1 => keys[a] \notin Ends[word]
    BY <1>0, <1>1, <1>5
  <2>2. SortInv'
    BY <1>0, <1>2, <1>5, <2>1 DEF SortInv, N
  <2>3. ParsesAsAsked'
    BY <1>0, <1>5 DEF ParsesAsAsked
  <2> QED
    BY <1>0, <1>1, <1>4, <1>5, <2>2, <2>3
<1>6. CASE keys[i] \in Ends[word] /\ i' = i
  <2>1. word # NoWord
    BY <1>0, <1>6, OneSuffix
  <2>2. word \in Suffixes => keys[i] = word
    <3> SUFFICES ASSUME word \in Suffixes PROVE keys[i] = word
      OBVIOUS
    <3>1. PICK p \in 1..N : keys[p] = word
      BY <1>0, KeysOnto DEF N
    <3>2. p >= i
      BY <1>0, <1>1, <1>6, <3>1, OneSuffix
    <3>3. p > i => Length[keys[i]] >= Length[keys[p]]
      BY <1>0, <1>1 DEF Sorted
    <3>4. CASE p = i
      BY <3>1, <3>4
    <3>5. CASE p > i
      BY <1>0, <1>6, <3>1, <3>3, <3>5, OneSuffix
    <3> QED
      BY <1>1, <3>2, <3>4, <3>5
  <2> DEFINE rest == IF keys[i] = word THEN NoWord ELSE word
  <2>3. rest = NoWord <=> word \in Suffixes
    BY <1>1, <1>3, <2>1, <2>2
  <2>4. WellFormed <=> rest = NoWord /\ num <= MaxInt /\ num > 0
    BY <1>0, <1>3, <2>1, <2>3 DEF WellFormed
  <2>5. CASE Accepted(rest) /\ size' = Wrap(num * Multiplier[Power[keys[i]]]) /\ pc' = "run" /\ res' = res
    <3>1. WellFormed /\ word \in Suffixes /\ keys[i] = word
      BY <2>2, <2>3, <2>4, <2>5 DEF Accepted
    <3>2. Asked = num * Multiplier[Power[word]] /\ size' = Wrap(Asked)
      BY <2>1, <2>5, <3>1 DEF Asked
    <3>3. Asked \in Int
      BY <1>0, <3>1, AskedIsInt
    <3>4. Asked >= 0
      <4>1. Multiplier[Power[word]] \in Nat
        BY <1>3, <3>1, MultiplierPositive
      <4>2. num \in Nat
        BY <1>3, <3>1 DEF WellFormed
      <4> QED
        BY <3>2, <4>1, <4>2
    <3>5. size' \in (-MaxInt - 1)..MaxInt /\ (Asked <= MaxInt => size' = Asked)
      BY <1>3, <3>2, <3>3, <3>4, WrapIsInt64
    <3>6. WellFormed' /\ Asked' = Asked
      BY <1>0, <3>1 DEF WellFormed, Asked
    <3>7. ParsesAsAsked'
      BY <3>5, <3>6 DEF ParsesAsAsked
    <3>8. SortInv'
      BY <1>2, <2>5 DEF SortInv
    <3> QED
      BY <1>0, <1>1, <1>4, <1>6, <2>5, <3>5, <3>7, <3>8
  <2>6. CASE ~Accepted(rest) /\ pc' = "done" /\ res' = "err" /\ size' = size
    <3>1. ~WellFormed
      BY <2>4, <2>6 DEF Accepted
    <3>2. ~WellFormed'
      BY <1>0, <3>1 DEF WellFormed
    <3>3. ParsesAsAsked' /\ SortInv'
      BY <1>2, <2>6, <3>2 DEF ParsesAsAsked, SortInv
    <3> QED
      BY <1>0, <1>1, <1>4, <1>6, <2>6, <3>3
  <2>7. \/ Accepted(rest) /\ size' = Wrap(num * Multiplier[Power[keys[i]]]) /\ pc' = "run" /\ res' = res
        \/ ~Accepted(rest) /\ pc' = "done" /\ res' = "err" /\ size' = size
    BY <1>0, <1>6 DEF Match, Fail, GoTo
  <2> QED
    BY <2>5, <2>6, <2>7
<1> QED
  BY <1>5, <1>6 DEF Match

\* With no suffix at the end, only a plain number is right.
LEMMA PlainNumberParses ==
  ASSUME ParseInv, PlainNumber
  PROVE  /\ SortInv' /\ ParsesAsAsked' /\ pc' \in {"run", "done"}
         /\ size' \in (-MaxInt - 1)..MaxInt /\ res' = (IF pc' = "done" THEN "err" ELSE res)
<1>0. /\ keys \in Orders /\ i \in 1..(N + 1) /\ pc = "match" /\ keys' = keys /\ Len(keys) = N /\ i > N
      /\ word' = word /\ num' = num /\ Sorted /\ num \in Int /\ word \in Words
      /\ \A a \in 1..N : a < i => keys[a] \notin Ends[word]
  BY KeysAre DEF ParseInv, Line, TypeOK, SortInv, PlainNumber
<1>1. N \in Nat \ {0} /\ i \in Nat
  BY <1>0, KeysAre
<1>2. Sorted'
  BY <1>0 DEF Sorted, N
<1>3. MaxInt \in Nat
  BY SizeAssumption
<1>4. size \in (-MaxInt - 1)..MaxInt /\ res = "none"
  BY <1>0 DEF ParseInv, Line, TypeOK
<1>5. word \notin Suffixes
  <2> SUFFICES ASSUME word \in Suffixes PROVE FALSE
    OBVIOUS
  <2>1. PICK p \in 1..N : keys[p] = word
    BY <1>0, KeysOnto DEF N
  <2>2. word \in Ends[word]
    BY SizeAssumption
  <2>3. p < i
    BY <1>0, <1>1
  <2> QED
    BY <1>0, <2>1, <2>2, <2>3
<1>6. WellFormed <=> word = NoWord /\ num <= MaxInt /\ num > 0
  BY <1>0, <1>3, <1>5 DEF WellFormed
<1>7. CASE Accepted(word) /\ size' = num /\ pc' = "run" /\ res' = res
  <2>1. WellFormed /\ Asked = num /\ WellFormed' /\ Asked' = num
    BY <1>0, <1>6, <1>7 DEF WellFormed, Asked, Accepted
  <2>2. size' \in (-MaxInt - 1)..MaxInt
    BY <1>0, <1>3, <1>7 DEF Accepted
  <2>3. ParsesAsAsked' /\ SortInv'
    BY <1>2, <1>7, <2>1 DEF ParsesAsAsked, SortInv
  <2> QED
    BY <1>7, <2>2, <2>3
<1>8. CASE ~Accepted(word) /\ pc' = "done" /\ res' = "err" /\ size' = size
  <2>1. ~WellFormed
    BY <1>6, <1>8 DEF Accepted
  <2>2. ~WellFormed'
    BY <1>0, <2>1 DEF WellFormed
  <2>3. ParsesAsAsked' /\ SortInv'
    BY <1>2, <1>8, <2>2 DEF ParsesAsAsked, SortInv
  <2> QED
    BY <1>4, <1>8, <2>3
<1> QED
  BY <1>7, <1>8 DEF PlainNumber, Fail, GoTo

------------------------------------------------------------------------------
(* The sizes *)

\* Every command leaves what parseSize returned alone.
LEMMA CommandsKeepParse ==
  ASSUME ParseInv, pc = "run", pc' = "done", UNCHANGED <<cmd, num, word, keys, i, j, size>>
  PROVE  SortInv' /\ ParsesAsAsked'
<1>1. Sorted /\ WellFormed /\ (Asked <= MaxInt => size = Asked)
  BY DEF ParseInv, SortInv, ParsesAsAsked
<1>2. Sorted' /\ WellFormed' /\ Asked' = Asked
  BY <1>1 DEF Sorted, N, WellFormed, Asked
<1> QED
  BY <1>1, <1>2 DEF SortInv, ParsesAsAsked

\* A command begins with the keys in any order and nothing sorted.
LEMMA InitParse ==
  ASSUME Init PROVE ParseInv
<1>1. keys \in Orders /\ Len(keys) = N /\ N \in Nat \ {0}
  BY KeysAre DEF Init
<1>2. MaxInt \in Nat /\ Nums \subseteq Int
  BY SizeAssumption
<1>3. Line
  BY <1>1, <1>2 DEF Init, Line, TypeOK
<1>4. SortInv
  <2>1. \A x, y \in 1..N : ~(x < y /\ y <= 2 /\ y # 2)
    BY <1>1
  <2>2. SortedButAt(i, j)
    BY <2>1 DEF Init, SortedButAt
  <2> QED
    BY <2>2 DEF Init, SortInv
<1>5. ParsesAsAsked /\ Reported
  BY DEF Init, ParsesAsAsked, Reported
<1> QED
  BY <1>3, <1>4, <1>5 DEF ParseInv

\* The inductive invariant.
LEMMA NextParse ==
  ASSUME ParseInv, [Next]_vars PROVE ParseInv'
<1>0. /\ Line /\ TypeOK /\ SortInv /\ ParsesAsAsked /\ Reported
  BY DEF ParseInv, Line
<1>1. Len(keys) = N /\ keys \in Orders
  BY <1>0, KeysAre DEF TypeOK
<1>2. ASSUME pc # "done", keys' \in Orders, i' \in 1..(N + 1), j' \in 1..(N + 1),
             pc' \in {"sort", "match", "run", "done"}, size' \in (-MaxInt - 1)..MaxInt,
             res' = (IF pc' = "done" THEN "err" ELSE res), UNCHANGED <<cmd, num, word, file, report>>
      PROVE  Line' /\ Reported'
  <2>1. Len(keys') = N
    BY <1>2, KeysAre
  <2>2. TypeOK'
    BY <1>0, <1>2, <2>1 DEF TypeOK, Line
  <2>3. res' # "nil" /\ file' = OldSize
    BY <1>0, <1>2 DEF Line
  <2>4. pc' # "done" => res' = "none" /\ file' = OldSize
    BY <1>0, <1>2 DEF Line
  <2>5. Line'
    BY <1>0, <1>2, <2>2, <2>3, <2>4 DEF Line
  <2> QED
    BY <2>3, <2>5 DEF Reported
<1>3. CASE Swap
  <2>1. SortInv' /\ keys' \in Orders /\ j' \in 1..(N + 1)
    BY <1>3, SwapSorts DEF SortInv, Swap
  <2>2. ParsesAsAsked'
    BY <1>3 DEF Swap, ParsesAsAsked
  <2>3. Line' /\ Reported'
    BY <1>0, <1>1, <1>2, <1>3, <2>1 DEF Swap, TypeOK, Line
  <2> QED
    BY <2>1, <2>2, <2>3 DEF ParseInv
<1>4. CASE NextKey
  <2>1. SortInv' /\ i' \in 1..(N + 1) /\ j' \in 1..(N + 1)
    BY <1>4, NextKeySorts
  <2>2. ParsesAsAsked'
    BY <1>4 DEF NextKey, GoTo, ParsesAsAsked
  <2>3. Line' /\ Reported'
    BY <1>0, <1>1, <1>2, <1>4, <2>1 DEF NextKey, GoTo, TypeOK, Line
  <2> QED
    BY <2>1, <2>2, <2>3 DEF ParseInv
<1>5. CASE Match
  <2>1. /\ SortInv' /\ ParsesAsAsked' /\ i' \in 1..(N + 1) /\ pc' \in {"match", "run", "done"}
        /\ size' \in (-MaxInt - 1)..MaxInt /\ res' = (IF pc' = "done" THEN "err" ELSE res)
    BY <1>5, MatchParses
  <2>2. pc # "done" /\ keys' = keys /\ j' = j /\ UNCHANGED <<cmd, num, word, file, report>>
    BY <1>5 DEF Match
  <2>3. Line' /\ Reported'
    BY <1>0, <1>1, <1>2, <2>1, <2>2 DEF TypeOK
  <2> QED
    BY <2>1, <2>3 DEF ParseInv
<1>6. CASE PlainNumber
  <2>1. /\ SortInv' /\ ParsesAsAsked' /\ pc' \in {"run", "done"}
        /\ size' \in (-MaxInt - 1)..MaxInt /\ res' = (IF pc' = "done" THEN "err" ELSE res)
    BY <1>6, PlainNumberParses
  <2>2. pc # "done" /\ keys' = keys /\ i' = i /\ j' = j /\ UNCHANGED <<cmd, num, word, file, report>>
    BY <1>6 DEF PlainNumber
  <2>3. Line' /\ Reported'
    BY <1>0, <1>1, <1>2, <2>1, <2>2 DEF TypeOK
  <2> QED
    BY <2>1, <2>3 DEF ParseInv
<1>7. ASSUME pc = "run", UNCHANGED <<cmd, num, word, keys, i, j, size>>, pc' = "done",
             \/ res' = "err" /\ (cmd \in {"create", "grow"} /\ ~(size > 0) => UNCHANGED file)
             \/ /\ res' = "nil" /\ file' = size
                /\ cmd \in {"create", "grow"} => size > 0
                /\ IF cmd = "fsgrow" THEN report' \in execHumanSizes(Unsigned(size))
                   ELSE report' = humanSize(size)
      PROVE  ParseInv'
  <2>1. SortInv' /\ ParsesAsAsked'
    BY <1>7, CommandsKeepParse
  <2>2. TypeOK'
    BY <1>0, <1>7 DEF TypeOK
  <2>3. Line'
    <3>1. WellFormed /\ WellFormed' /\ file = OldSize
      BY <1>0, <1>7 DEF ParsesAsAsked, WellFormed, Line
    <3> QED
      BY <1>0, <1>7, <2>2, <3>1 DEF Line
  <2>4. CASE res' = "err"
    BY <2>1, <2>3, <2>4 DEF ParseInv, Reported
  <2>5. CASE res' = "nil"
    <3>1. IF cmd = "fsgrow" THEN report' \in execHumanSizes(Unsigned(size)) ELSE report' = humanSize(size)
      BY <1>7, <2>5
    <3>2. cmd' = cmd /\ size' = size
      BY <1>7
    <3>3. IF cmd' = "fsgrow" THEN report' \in execHumanSizes(Unsigned(size'))
          ELSE report' = humanSize(size')
      BY <3>1, <3>2
    <3>4. Reported'
      BY <2>5, <3>3 DEF Reported, execHumanSizes, execUnit, Unsigned, humanSize, Units
    <3> QED
      BY <2>1, <2>3, <3>4 DEF ParseInv
  <2> QED
    BY <1>7, <2>4, <2>5
<1>8. CASE runCreate
  BY <1>7, <1>8, SMT DEF runCreate, Succeed, Refused, Breaks, Fail, GoTo, LibraryAccepts
<1>9. CASE growCommand
  BY <1>7, <1>9, SMT DEF growCommand, Succeed, Refused, Breaks, Fail, GoTo, LibraryAccepts
<1>10. CASE runQCOW2Create
  BY <1>7, <1>10, SMT DEF runQCOW2Create, Succeed, Refused, Breaks, Fail, GoTo
<1>11. CASE runEfi
  BY <1>7, <1>11, SMT DEF runEfi, Succeed, Refused, Breaks, Fail, GoTo
<1>12. CASE GrowFromImage
  BY <1>7, <1>12, SMT DEF GrowFromImage, Breaks, Fail, GoTo
<1>13. CASE UNCHANGED vars
  <2>1. Line' /\ SortInv'
    BY <1>0, <1>13 DEF vars, Line, WellFormed, TypeOK, SortInv, Sorted, SortedButAt, N
  <2>2. ParsesAsAsked'
    BY <1>0, <1>13 DEF vars, ParsesAsAsked, WellFormed, Asked
  <2>3. res' = res /\ cmd' = cmd /\ report' = report /\ size' = size
    BY <1>13 DEF vars
  <2>4. res' = "nil" => IF cmd' = "fsgrow" THEN report' \in execHumanSizes(Unsigned(size'))
                       ELSE report' = humanSize(size')
    BY <1>0, <2>3 DEF Reported
  <2>5. Reported'
    BY <2>4 DEF Reported, execHumanSizes, execUnit, Unsigned, humanSize, Units
  <2> QED
    BY <2>1, <2>2, <2>5 DEF ParseInv
<1> QED
  BY <1>3, <1>4, <1>5, <1>6, <1>8, <1>9, <1>10, <1>11, <1>12, <1>13 DEF Next

\* The invariant of every run of a command.
THEOREM ParseInvariant == Spec => []ParseInv
  BY InitParse, NextParse, PTL DEF Spec

\* Every variable keeps its type: the search never runs past the keys, and sizes are int64.
THEOREM TypeCorrect == Spec => []TypeOK
<1>1. ParseInv => TypeOK
  BY DEF ParseInv, Line
<1> QED
  BY <1>1, ParseInvariant, PTL

\* parseSize takes exactly the well-formed arguments, and returns the bytes they stand
\* for if an int64 holds them, in whatever order the map hands out its suffixes.
THEOREM ParsesRight == Spec => []ParsesAsAsked
<1>1. ParseInv => ParsesAsAsked
  BY DEF ParseInv
<1> QED
  BY <1>1, ParseInvariant, PTL

\* Neither an argument that is not well-formed nor a product that wrapped to zero or below
\* lets create or grow touch the image, and a size other than the one asked for is one
\* whose product did not fit.
THEOREM StaysPositive == Spec => []SizesStayPositive
<1>1. ASSUME ParseInv PROVE SizesStayPositive
  <2>1. Line /\ ParsesAsAsked /\ MaxInt \in Nat /\ OldSize \in 1..MaxInt
    BY <1>1, SizeAssumption DEF ParseInv
  <2>2. /\ ~WellFormed => file = OldSize /\ res # "nil"
        /\ cmd \in {"create", "grow"} /\ size <= 0 => file = OldSize /\ res # "nil"
    BY <2>1 DEF Line, ParsesAsAsked, TypeOK
  <2>3. res = "nil" /\ file # Asked => Asked > MaxInt
    <3> SUFFICES ASSUME res = "nil", file # Asked PROVE Asked > MaxInt
      OBVIOUS
    <3>1. WellFormed /\ file = size /\ ~(Asked <= MaxInt)
      BY <2>1 DEF Line, ParsesAsAsked
    <3>2. Asked \in Int
      BY <2>1, <3>1, AskedIsInt DEF Line, WellFormed
    <3> QED
      BY <2>1, <3>1, <3>2
  <2> QED
    BY <2>1, <2>2, <2>3 DEF SizesStayPositive, Line
<1> QED
  BY <1>1, ParseInvariant, PTL

------------------------------------------------------------------------------
(* What the commands print *)

\* A set of naturals that is not empty has a least element.
LEMMA LeastOf ==
  ASSUME NEW T, T \subseteq Nat, T # {}
  PROVE  \E x \in T : \A y \in T : x <= y
<1> DEFINE R == {p \in Nat \X Nat : p[1] < p[2]}
<1>1. R = OpToRel(<, Nat)
  BY DEF OpToRel
<1>2. IsWellFoundedOn(R, Nat)
  BY <1>1, NatLessThanWellFounded
<1> HIDE DEF R
<1>3. PICK x \in T : \A y \in T : ~(<<y, x>> \in R)
  BY <1>2, WFMin
<1>4. ASSUME NEW y \in T, ~(x <= y) PROVE FALSE
  <2>1. x \in Nat /\ y \in Nat
    OBVIOUS
  <2>2. <<y, x>> \in R
    BY <1>4, <2>1 DEF R
  <2> QED
    BY <1>3, <2>2
<1> QED
  BY <1>4

\* A set of units that is not empty has a greatest one.
LEMMA LargestUnit ==
  ASSUME NEW T, T \subseteq Units, T # {}
  PROVE  \E x \in T : \A y \in T : y <= x
<1> DEFINE n == Cardinality(Units)
           D == {n - t : t \in T}
<1>1. n \in Nat /\ Units = 0..(n - 1)
  BY SizeAssumption, FS_CardinalityType
<1>2. \A t \in T : t \in Nat /\ t < n
  BY <1>1
<1>3. D \subseteq Nat /\ D # {}
  BY <1>1, <1>2
<1>4. PICK d \in D : \A e \in D : d <= e
  <2> HIDE DEF D
  <2> QED
    BY <1>3, LeastOf
<1>5. PICK x \in T : d = n - x
  OBVIOUS
<1>6. ASSUME NEW y \in T PROVE y <= x
  <2>1. n - y \in D
    OBVIOUS
  <2>2. d <= n - y
    BY <1>4, <2>1
  <2> HIDE DEF n, D
  <2> QED
    BY <1>1, <1>2, <1>5, <2>2
<1> QED
  BY <1>6

\* Bytes are the unit of every size.
LEMMA Bytes ==
  /\ 0 \in Units /\ Multiplier[0] = 1
  /\ \A q \in Units : Power[Named[q]] = q
BY SizeAssumption

\* humanSize prints a unit that divides the size.
LEMMA HumanSizeDivides ==
  ASSUME NEW b \in Nat \ {0}
  PROVE  LET h == humanSize(b)
         IN /\ h.power \in Units /\ h.count \in Nat \ {0}
            /\ h.count * Multiplier[h.power] = b /\ h.count <= b
<1> DEFINE fits == {q \in Units : b >= Multiplier[q] /\ b % Multiplier[q] = 0}
           u == CHOOSE q \in fits : \A r \in fits : r <= q
<1>1. b >= 1 /\ b % 1 = 0
  OBVIOUS
<1>2. 0 \in fits
  BY <1>1, Bytes
<1>3. \E q \in fits : \A r \in fits : r <= q
  <2>1. fits \subseteq Units /\ fits # {}
    BY <1>2
  <2> HIDE DEF fits
  <2> QED
    BY <2>1, LargestUnit
<1>4. u \in fits
  <2> HIDE DEF fits
  <2> QED
    BY <1>3
<1>5. humanSize(b) = [count |-> b \div Multiplier[u], power |-> u]
  BY <1>2 DEF humanSize
<1> DEFINE m == Multiplier[u]
           c == b \div m
<1>6. u \in Units /\ b >= m /\ b % m = 0
  BY <1>4
<1> HIDE DEF u, fits
<1>7. m \in Nat \ {0}
  BY <1>6, MultiplierPositive
<1>8. humanSize(b).count = c /\ humanSize(b).power = u
  BY <1>5
<1> HIDE DEF c, m
<1>9. c \in Int /\ b = m * c
  <2>1. b \div m \in Int /\ b = m * (b \div m) + (b % m)
    BY <1>7, Remainder
  <2>2. c = b \div m
    BY DEF c
  <2> QED
    BY <1>6, <1>7, <2>1, <2>2
<1>10. c \in Nat \ {0} /\ c <= b /\ c * m = b
  <2>1. \A x \in Int, y \in Nat \ {0}, z \in Nat \ {0} : z = y * x => x \in Nat \ {0} /\ x <= z /\ x * y = z
    OBVIOUS
  <2> QED
    BY <1>7, <1>9, <2>1
<1> QED
  BY <1>6, <1>8, <1>10 DEF m

\* execUnit is a unit that fits.
LEMMA ExecUnitFits ==
  ASSUME NEW b \in Nat \ {0}
  PROVE  execUnit(b) \in Units /\ b >= Multiplier[execUnit(b)]
<1> DEFINE fits == {q \in Units : b >= Multiplier[q]}
<1>1. 0 \in fits
  BY Bytes
<1>2. execUnit(b) = CHOOSE q \in fits : \A r \in fits : r <= q
  BY <1>1 DEF execUnit
<1>3. \E q \in fits : \A r \in fits : r <= q
  <2>1. fits \subseteq Units /\ fits # {}
    BY <1>1
  <2> HIDE DEF fits
  <2> QED
    BY <2>1, LargestUnit
<1>4. execUnit(b) \in fits
  <2> HIDE DEF fits
  <2> QED
    BY <1>2, <1>3
<1> QED
  BY <1>4

\* The nearest tenth is within half a tenth.
LEMMA NearestTenth ==
  ASSUME NEW b \in Nat, NEW m \in Nat \ {0}, b >= m, NEW c \in Int,
         LET low == (10 * b) \div m
             off == 2 * ((10 * b) % m)
         IN (c = low /\ off <= m) \/ (c = low + 1 /\ off >= m)
  PROVE  2 * (c * m - 10 * b) <= b /\ 2 * (10 * b - c * m) <= b
<1> DEFINE a == 10 * b
           low == a \div m
           rem == a % m
           p == m * low
<1>1. a \in Int
  OBVIOUS
<1>2. low \in Int /\ rem \in 0..(m - 1) /\ a = m * low + rem
  <2> HIDE DEF a
  <2> QED
    BY <1>1, Remainder
<1>3. (c = low /\ 2 * rem <= m) \/ (c = low + 1 /\ 2 * rem >= m)
  OBVIOUS
<1>4. a = 10 * b
  OBVIOUS
<1> HIDE DEF a, low, rem
<1>5. p \in Int /\ (c = low => c * m = p) /\ (c = low + 1 => c * m = p + m)
  BY <1>2
<1>6. a = p + rem /\ rem \in Int /\ 0 <= rem /\ rem <= m - 1
  BY <1>2
<1> DEFINE d == c * m
<1>7. (d = p /\ 2 * rem <= m) \/ (d = p + m /\ 2 * rem >= m)
  BY <1>3, <1>5
<1> HIDE DEF p, d
<1>8. 2 * (d - 10 * b) <= b /\ 2 * (10 * b - d) <= b
  BY <1>4, <1>5, <1>6, <1>7
<1> QED
  BY <1>8 DEF d

\* What the two humanSize functions print tells the size.
THEOREM ReportTells == Spec => []ReportTellsSize
<1>1. ASSUME ParseInv PROVE ReportTellsSize
  <2> SUFFICES ASSUME res = "nil", file > 0 PROVE ReportTellsSize
    BY DEF ReportTellsSize
  <2>1. file = size /\ size \in (-MaxInt - 1)..MaxInt /\ Reported /\ MaxInt \in Nat
    BY <1>1, SizeAssumption DEF ParseInv, Line, TypeOK
  <2>2. file \in Nat \ {0} /\ file <= MaxInt
    BY <2>1
  <2>3. ASSUME cmd # "fsgrow"
        PROVE  /\ report.count \in 1..MaxInt
               /\ report.count * Multiplier[Power[Named[report.power]]] = file
    <3>1. report = humanSize(file)
      BY <2>1, <2>3 DEF Reported
    <3>2. /\ report.power \in Units /\ report.count \in Nat \ {0} /\ report.count <= file
          /\ report.count * Multiplier[report.power] = file
      BY <2>2, <3>1, HumanSizeDivides
    <3>3. Power[Named[report.power]] = report.power
      BY <3>2, Bytes
    <3> QED
      BY <2>1, <2>2, <3>2, <3>3
  <2>4. ASSUME cmd = "fsgrow"
        PROVE  LET printed == report.count * Multiplier[Power[Named[report.power]]]
                   tenths == IF report.power = 0 THEN 10 * printed ELSE printed
               IN 2 * (tenths - 10 * file) <= file /\ 2 * (10 * file - tenths) <= file
    <3> DEFINE q == execUnit(file)
               m == Multiplier[q]
    <3>1. Unsigned(size) = file
      <4> DEFINE w == 2 * (MaxInt + 1)
      <4>1. w \in Nat \ {0} /\ size \in Nat /\ size < w
        BY <2>1, <2>2
      <4>2. size % w = size
        <5> HIDE DEF w
        <5> QED
          BY <4>1, SmallRemainder
      <4> QED
        BY <2>1, <4>2 DEF Unsigned
    <3>2. report \in execHumanSizes(file)
      BY <2>1, <2>4, <3>1 DEF Reported
    <3>3. q \in Units /\ file >= m /\ m \in Nat \ {0} /\ Power[Named[q]] = q
      BY <2>2, ExecUnitFits, MultiplierPositive, Bytes
    <3> DEFINE low == (10 * file) \div m
               off == 2 * ((10 * file) % m)
    <3>4. CASE q = 0
      <4>1. report.count = file /\ report.power = 0
        BY <3>2, <3>4 DEF execHumanSizes
      <4>2. Multiplier[Power[Named[report.power]]] = 1
        BY <4>1, Bytes
      <4> QED
        BY <2>2, <4>1, <4>2
    <3>5. CASE q # 0
      <4>1. PICK c \in (IF off <= m THEN {low} ELSE {}) \cup (IF off >= m THEN {low + 1} ELSE {}) :
                   report = [count |-> c, power |-> q]
        BY <3>2, <3>5 DEF execHumanSizes
      <4>2. low \in Int
        <5>1. 10 * file \in Int
          BY <2>2
        <5> QED
          BY <3>3, <5>1, Remainder
      <4>3. (c = low /\ off <= m) \/ (c = low + 1 /\ off >= m)
        <5> HIDE DEF low, off, m, q
        <5> QED
          OBVIOUS
      <4>4. c \in Int
        BY <4>2, <4>3
      <4>5. 2 * (c * m - 10 * file) <= file /\ 2 * (10 * file - c * m) <= file
        BY <2>2, <3>3, <4>3, <4>4, NearestTenth
      <4>6. report.count = c /\ report.power = q /\ Multiplier[Power[Named[report.power]]] = m
        BY <3>3, <4>1
      <4> QED
        BY <3>5, <4>5, <4>6
    <3> QED
      BY <3>4, <3>5
  <2> QED
    BY <2>3, <2>4 DEF ReportTellsSize
<1> QED
  BY <1>1, ParseInvariant, PTL
=============================================================================
