---------------------------- MODULE SizeArguments ----------------------------
(***************************************************************************)
(* The commands that take a size: create raw, dmg, qcow2 and efivars, grow, *)
(* and the exec commands xfs grow and zfs grow.  Each has the same parser   *)
(* (three copies of parseSize), hands the number to the library or to a     *)
(* driver and prints what its humanSize makes of it.                        *)
(*                                                                          *)
(* An argument is a number and what follows it.  parseSize looks for its    *)
(* suffixes in the order of a Go map, which is any order, put right by an   *)
(* insertion sort; the product is an int64.                                 *)
(***************************************************************************)
EXTENDS Integers, Sequences, FiniteSets

CONSTANTS
  Suffixes,   \* the keys of the map, in lower case
  Length,     \* Length[s]: how long a suffix is
  Kilo,       \* 1024
  Multiplier, \* 1, Kilo, Kilo * Kilo and so on, as many as there are units
  Power,      \* Power[s]: the suffix stands for Multiplier[Power[s]]
  Words,      \* what may follow the number, the empty word and unknown ones too
  Ends,       \* Ends[w]: the suffixes that w ends with
  NoWord,     \* the empty word
  Named,      \* Named[q]: the suffix humanSize prints for Multiplier[q]
  Nums,       \* the numbers tried
  MaxInt,     \* the largest int64
  OldSize     \* the size of the image that is there

Commands == {"create", "qcow2", "efivars", "grow", "fsgrow"}

Units == DOMAIN Multiplier

ASSUME SizeAssumption ==
  /\ IsFiniteSet(Suffixes)
  /\ Suffixes \subseteq Words
  /\ NoWord \in Words \ Suffixes
  /\ Length \in [Suffixes -> Nat \ {0}]
  /\ Power \in [Suffixes -> Units]
  /\ Ends \in [Words -> SUBSET Suffixes]
  /\ \A w \in Words : \A s, t \in Ends[w] : Length[s] = Length[t] => s = t
  /\ \A s \in Suffixes : s \in Ends[s] /\ \A t \in Ends[s] : Length[t] <= Length[s]
  /\ Ends[NoWord] = {}
  /\ Nums \subseteq Int
  /\ Kilo \in Nat \ {0, 1}
  /\ IsFiniteSet(Units)
  /\ Units = 0..(Cardinality(Units) - 1)
  /\ 0 \in Units
  /\ Multiplier \in [Units -> Nat \ {0}]
  /\ Multiplier[0] = 1
  /\ \A q \in Units \ {0} : Multiplier[q] = Kilo * Multiplier[q - 1]
  /\ MaxInt \in Nat /\ OldSize \in 1..MaxInt
  /\ Named \in [Units -> Suffixes]
  /\ \A q \in Units : Power[Named[q]] = q

VARIABLES
  cmd, num, word,  \* the command line
  keys, i, j,      \* the locals of parseSize
  pc,
  size,            \* what parseSize returned
  file,            \* the size of the image file (0: empty or gone), or of its filesystem
  report, res      \* what the command prints and returns

vars == <<cmd, num, word, keys, i, j, pc, size, file, report, res>>

Orders == {k \in [1..Cardinality(Suffixes) -> Suffixes] :
             \A a, b \in DOMAIN k : k[a] = k[b] => a = b}
NoReport == [count |-> 0, power |-> 0]

\* int64 arithmetic
Wrap(x) == ((x + MaxInt + 1) % (2 * (MaxInt + 1))) - (MaxInt + 1)

Init ==
  /\ cmd \in Commands
  /\ num \in Nums
  /\ word \in Words
  /\ keys \in Orders
  /\ i = 2 /\ j = 2
  /\ pc = "sort"
  /\ size = 0
  /\ file = OldSize
  /\ report = NoReport
  /\ res = "none"

GoTo(l) == pc' = l
Fail == GoTo("done") /\ res' = "err"

-----------------------------------------------------------------------------
(* parseSize *)

\* Mutant: shorter suffixes are tried first.
Misplaced_Shortest(a, b) == Length[a] < Length[b]

\* Suffix a, behind b, belongs before it.
Misplaced(a, b) == Length[a] > Length[b]

\* The inner loop: keys[j] moves towards the front.
Swap ==
  /\ pc = "sort" /\ i <= Len(keys)
  /\ j > 1 /\ Misplaced(keys[j], keys[j - 1])
  /\ keys' = [keys EXCEPT ![j] = keys[j - 1], ![j - 1] = keys[j]]
  /\ j' = j - 1
  /\ UNCHANGED <<cmd, num, word, i, pc, size, file, report, res>>

\* Mutant: the outer loop runs one key too far before the search begins.
NextKey_TooFar ==
  /\ pc = "sort"
  /\ \/ /\ i <= Len(keys) + 1
        /\ ~(i <= Len(keys) /\ j > 1 /\ Misplaced(keys[j], keys[j - 1]))
        /\ i' = i + 1 /\ j' = i + 1
        /\ UNCHANGED pc
     \/ /\ i > Len(keys) + 1
        /\ i' = 1 /\ j' = 1
        /\ GoTo("match")
  /\ UNCHANGED <<cmd, num, word, keys, size, file, report, res>>

\* The outer loop goes on; i counts the suffixes tried when the sort is over.
NextKey ==
  /\ pc = "sort"
  /\ \/ /\ i <= Len(keys)
        /\ ~(j > 1 /\ Misplaced(keys[j], keys[j - 1]))
        /\ i' = i + 1 /\ j' = i + 1
        /\ UNCHANGED pc
     \/ /\ i > Len(keys)
        /\ i' = 1 /\ j' = 1
        /\ GoTo("match")
  /\ UNCHANGED <<cmd, num, word, keys, size, file, report, res>>

\* strconv.ParseInt of the number and what is left behind it, then the sign.
Accepted(rest) == rest = NoWord /\ num <= MaxInt /\ num > 0

\* The first suffix the argument ends with decides: what is in front of it has to
\* be a positive number.  The product is not tested.
Match ==
  /\ pc = "match" /\ i <= Len(keys)
  /\ \/ /\ keys[i] \notin Ends[word]
        /\ i' = i + 1
        /\ UNCHANGED <<pc, size, res>>
     \/ /\ keys[i] \in Ends[word]
        /\ LET rest == IF keys[i] = word THEN NoWord ELSE word
           IN IF Accepted(rest)
                THEN /\ size' = Wrap(num * Multiplier[Power[keys[i]]])
                     /\ GoTo("run") /\ UNCHANGED res
                ELSE Fail /\ UNCHANGED size
        /\ UNCHANGED i
  /\ UNCHANGED <<cmd, num, word, keys, j, file, report>>

\* No suffix: a plain number of bytes, or an error.
PlainNumber ==
  /\ pc = "match" /\ i > Len(keys)
  /\ IF Accepted(word)
       THEN size' = num /\ GoTo("run") /\ UNCHANGED res
       ELSE Fail /\ UNCHANGED size
  /\ UNCHANGED <<cmd, num, word, keys, i, j, file, report>>

-----------------------------------------------------------------------------
(* The commands *)

\* Mutant: the largest unit is printed without a test for a remainder.
humanSize_Rounds(b) ==
  LET fits == {q \in Units : b >= Multiplier[q]}
      q == IF fits = {} THEN 0 ELSE CHOOSE q \in fits : \A r \in fits : r <= q
  IN [count |-> b \div Multiplier[q], power |-> q]

\* The largest unit that divides the size; bytes for anything else, negative
\* sizes included.
humanSize(b) ==
  LET fits == {q \in Units : b >= Multiplier[q] /\ b % Multiplier[q] = 0}
      q == IF fits = {} THEN 0 ELSE CHOOSE q \in fits : \A r \in fits : r <= q
  IN [count |-> b \div Multiplier[q], power |-> q]

\* uint64 of an int64
Unsigned(x) == x % (2 * (MaxInt + 1))

\* The unit that humanSize of the exec package picks.
execUnit(b) ==
  LET fits == {q \in Units : b >= Multiplier[q]}
  IN IF fits = {} THEN 0 ELSE CHOOSE q \in fits : \A r \in fits : r <= q

\* That humanSize prints one decimal: tenths of the unit, the nearest one (of two
\* that are as near, either), or plain bytes.
execHumanSizes(b) ==
  LET q == execUnit(b)
      m == Multiplier[q]
      low == (10 * b) \div m
      off == 2 * ((10 * b) % m)
  IN IF q = 0 THEN {[count |-> b, power |-> 0]}
     ELSE {[count |-> c, power |-> q] :
             c \in (IF off <= m THEN {low} ELSE {}) \cup (IF off >= m THEN {low + 1} ELSE {})}

\* Mutant: the library does not look at the size.
LibraryAccepts_Any(b) == TRUE

\* Create and Grow refuse a size that is not positive.
LibraryAccepts(b) == b > 0

\* The work is done: the image has the size, and the command prints it.
Succeed ==
  /\ file' = size
  /\ report' = humanSize(size)
  /\ res' = "nil"
  /\ GoTo("done")

\* The image is not touched.
Refused == Fail /\ UNCHANGED <<file, report>>

\* The call fails when it may already have changed the image.
Breaks(left) == Fail /\ file' \in left /\ UNCHANGED report

\* create raw and create dmg.  Past its checks the library may still fail: before the
\* file is opened, once O_TRUNC has emptied it (or it is removed), or at its new size.
runCreate ==
  /\ pc = "run" /\ cmd = "create"
  /\ \/ LibraryAccepts(size) /\ (Succeed \/ Breaks({file, 0, size}))
     \/ ~LibraryAccepts(size) /\ Refused
  /\ UNCHANGED <<cmd, num, word, keys, i, j, size>>

\* Grow opens the image and truncates it; either may fail, and then nothing is changed.
growCommand ==
  /\ pc = "run" /\ cmd = "grow"
  /\ \/ LibraryAccepts(size) /\ (Succeed \/ Breaks({file}))
     \/ ~LibraryAccepts(size) /\ Refused
  /\ UNCHANGED <<cmd, num, word, keys, i, j, size>>

\* The qcow2 and uefi libraries get any size; how far they came when they return an
\* error, nothing here says.
Leftovers == {file, 0} \cup (IF size > 0 THEN {size} ELSE {})

runQCOW2Create ==
  /\ pc = "run" /\ cmd = "qcow2"
  /\ Succeed \/ Breaks(Leftovers)
  /\ UNCHANGED <<cmd, num, word, keys, i, j, size>>

runEfi ==
  /\ pc = "run" /\ cmd = "efivars"
  /\ Succeed \/ Breaks(Leftovers)
  /\ UNCHANGED <<cmd, num, word, keys, i, j, size>>

\* XfsGrowFromImage and ZfsGrowFromImage: the driver's GrowTo, which may fail before
\* or after it has grown the filesystem; the size is printed as a uint64.
GrowFromImage ==
  /\ pc = "run" /\ cmd = "fsgrow"
  /\ \/ /\ file' = size
        /\ report' \in execHumanSizes(Unsigned(size))
        /\ res' = "nil"
        /\ GoTo("done")
     \/ Breaks({file, size})
  /\ UNCHANGED <<cmd, num, word, keys, i, j, size>>

Next ==
  \/ Swap \/ NextKey \/ Match \/ PlainNumber
  \/ runCreate \/ growCommand \/ runQCOW2Create \/ runEfi \/ GrowFromImage

Spec == Init /\ [][Next]_vars

-----------------------------------------------------------------------------
(* Properties *)

TypeOK ==
  /\ keys \in Orders
  /\ i \in 1..(Len(keys) + 1) /\ j \in 1..(Len(keys) + 1)
  /\ pc \in {"sort", "match", "run", "done"}
  /\ size \in (-MaxInt - 1)..MaxInt
  /\ res \in {"none", "nil", "err"}

\* Reference: the number of bytes a well-formed argument stands for.
WellFormed == num \in 1..MaxInt /\ word \in Suffixes \cup {NoWord}
Asked == num * (IF word = NoWord THEN 1 ELSE Multiplier[Power[word]])

\* parseSize takes exactly the well-formed arguments and returns the number of
\* bytes they stand for, in whatever order the map hands out its keys, as long as
\* that number is an int64 ("kib" is never taken for "b").
ParsesAsAsked ==
  pc \in {"run", "done"} =>
    /\ (pc = "run" \/ res = "nil") => WellFormed
    /\ WellFormed /\ Asked <= MaxInt => size = Asked

\* No argument, however large, lets create or grow change the image to a size that is
\* not positive: parseSize lets a product wrap to zero or below, and the library stops it
\* before the image is touched.  No command touches the image for an argument that is not
\* well-formed.  A product that wraps to a positive size passes, and that is the only way
\* to a result other than the one asked for.  (A command that fails later, in the library,
\* may leave the image empty or resized, and says so.)
SizesStayPositive ==
  /\ ~WellFormed => file = OldSize /\ res # "nil"
  /\ cmd \in {"create", "grow"} /\ size <= 0 => file = OldSize /\ res # "nil"
  /\ res = "nil" /\ file # Asked => Asked > MaxInt

\* What create and grow print is a size that parseSize reads back as the same number
\* of bytes; what xfs grow and zfs grow print is within a twentieth of the size
\* (the two humanSize functions).
ReportTellsSize ==
  res = "nil" /\ file > 0 =>
    LET printed == report.count * Multiplier[Power[Named[report.power]]]
    IN IF cmd # "fsgrow" THEN report.count \in 1..MaxInt /\ printed = file
       ELSE LET tenths == IF report.power = 0 THEN 10 * printed ELSE printed
            IN 2 * (tenths - 10 * file) <= file /\ 2 * (10 * file - tenths) <= file
==============================================================================
