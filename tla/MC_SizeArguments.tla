-------------------------- MODULE MC_SizeArguments --------------------------
(* An instance of SizeArguments for TLC: five of the suffixes, Kilo = 4 and  *)
(* integers of 8 bits.                                                       *)
EXTENDS SizeArguments, TLC

MCSuffixes == {"b", "k", "kb", "kib", "mib"}
MCLength == ("b" :> 1) @@ ("k" :> 1) @@ ("kb" :> 2) @@ ("kib" :> 3) @@ ("mib" :> 3)
MCPower == ("b" :> 0) @@ ("k" :> 1) @@ ("kb" :> 1) @@ ("kib" :> 1) @@ ("mib" :> 2)
MCMultiplier == (0 :> 1) @@ (1 :> 4) @@ (2 :> 16)
MCWords == MCSuffixes \cup {"", "ib", "x"}
MCEnds ==
  ("b" :> {"b"}) @@ ("k" :> {"k"}) @@ ("kb" :> {"kb", "b"}) @@ ("kib" :> {"kib", "b"})
  @@ ("mib" :> {"mib", "b"}) @@ ("" :> {}) @@ ("ib" :> {"b"}) @@ ("x" :> {})
MCNamed == (0 :> "b") @@ (1 :> "kib") @@ (2 :> "mib")
\* On both sides of every wrap: 8 * 16 = 2^7, 16 * 16 = 2^8, 32 * 4 = 2^7.
MCNums == {-1, 0, 1, 5, 7, 8, 16, 17, 31, 32, 65, 127, 128}
=============================================================================
