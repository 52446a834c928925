----------------------------- MODULE MCVersions -----------------------------
(* Instances of Versions for TLC.                                          *)
EXTENDS Versions, FiniteSets, FiniteSetsExt

CONSTANTS a, b   \* hashes of two variants; a is also a glibc version

Bare(nums) == Plain(nums, 0, 0)
One == Bare(<<1, 0>>)
Some ==
  {One, Bare(<<1>>), Bare(<<1, 0, 0>>), Bare(<<1, 1>>),
   [Bare(<<1, 1, 0>>) EXCEPT !.prefixed = TRUE],
   Plain(<<1, 0>>, 0, 1),
   [One EXCEPT !.variant = a], [One EXCEPT !.variant = b],
   [One EXCEPT !.flavor = a], [One EXCEPT !.flavor = b]}

(* No tag, any one, two, or any two beside 1.0.                            *)
UpTo(n, S) == UNION {kSubset(k, S) : k \in 0..n}
SmallListings == UpTo(2, Some) \cup {{One} \cup l : l \in UpTo(2, Some)}

Comparator(op, nums, rebuild) == [op |-> op, nums |-> nums, rebuild |-> rebuild]
Only(op, nums, rebuild) == {{Comparator(op, nums, rebuild)}}
SomeRequests ==
  {{},
   {Only("=", <<1>>, 0)}, {Only("=", <<1, 0>>, 1)},
   {Only("^", <<1>>, 0), {{Comparator(">=", <<1, 0>>, 1), Comparator("<", <<1, 1>>, 0)},
                          {Comparator(">", <<1>>, 1)}}},
   {Only("~", <<1, 0, 0>>, 0), Only("<=", <<1, 0>>, 0)}}

SomeOthers == {None, {One, Bare(<<1, 1>>), Bare(<<1, 0, 0>>)}}
SomeLines == {{}, {<<1, 1>>}}
=============================================================================
