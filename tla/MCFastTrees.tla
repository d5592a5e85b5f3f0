---------------------------- MODULE MCFastTrees ----------------------------
(* Three equal-looking trees x/p/s, y/p/s and y/q, of which the last has   *)
(* other contents, and one of other times in a directory named like the    *)
(* default exclude; what surrounds them depends on the flags.  Directory b *)
(* is a bind mount of y/p/s.                                               *)
EXTENDS FastTrees

CONSTANTS any

b == <<"b">>
x == <<"x">>
y == <<"y">>
xp == <<"x", "p">>
yp == <<"y", "p">>
xs == <<"x", "p", "s">>
ys == <<"y", "p", "s">>
yq == <<"y", "q">>
yflex == <<"y", "flex">>

MCOrder == <<
  <<>>, b, b \o <<"f">>, b \o <<"g">>,
  x, x \o <<"o">>, xp, xp \o <<"h">>, xs, xs \o <<"f">>, xs \o <<"g">>,
  x \o <<"u">>, x \o <<"u", "v">>, x \o <<"u", "v", "w">>,
  y, yflex, yflex \o <<"f">>, yflex \o <<"g">>, y \o <<"k">>, y \o <<"l">>, y \o <<"m">>,
  yp, ys, ys \o <<"f">>, ys \o <<"g">>,
  yq, yq \o <<"f">>, yq \o <<"g">>, y \o <<"z">> >>

MCTop == <<>>
MCDir == {<<>>, b, x, xp, xs, <<"x", "u">>, <<"x", "u", "v">>, y, yp, ys, yq, yflex}
MCFile == ToSet(MCOrder) \ MCDir
MCPathTo == [n \in MCDir \cup MCFile |-> n]

MCLink == [f \in MCFile |-> IF IsPrefix(b, f) THEN ys \o Tail(f) ELSE f]
(* y/l is another name of x/p/s/f, y/k one of x/o.                         *)
MCInode == [f \in MCFile |-> CASE f = <<"y", "l">> -> xs \o <<"f">>
                               [] f = <<"y", "k">> -> <<"x", "o">>
                               [] OTHER -> MCLink[f]]
SizeOf == [f |-> 1, g |-> 2, h |-> 9, k |-> 3, l |-> 1, m |-> 4, o |-> 3, w |-> 1, z |-> 1]
MCSize == [f \in MCFile |-> SizeOf[Last(f)]]
MCMTime == [f \in MCFile |-> IF f = yflex \o <<"g">> THEN 2 ELSE 1]
MCContent == [f \in MCFile |-> IF f = yq \o <<"g">> THEN "changed" ELSE Last(MCInode[f])]
MCDevice == [d \in MCDir |-> IF d = ys THEN "usb" ELSE "disk"]

MCSpecial == {<<"y", "z">>}
MCSidecar == {<<"y", "m">>}
MCUnreadable == {<<"x", "u">>, yflex \o <<"f">>}
MCFlaky == {b, yq}
MCFresh == {xp \o <<"h">>, <<"y", "k">>}
MCFleeting == {xp \o <<"h">>, yq \o <<"g">>}

(* Sums of it collide where only names or times differ.                    *)
MCHashOf == [e \in {Entry(t[1], t[2]) : t \in {t \in MCDir \X MCFile : Within(t[1], t[2])}} |->
               e[2] + 8 * Len(e[1])]

Name(n) == [anchored |-> FALSE, comps |-> <<{n}>>]
MCDefaults == <<Name("flex")>>

Plain == [roots |-> <<x, y>>, recursive |-> TRUE, oneFileSystem |-> FALSE,
          minSize |-> 0, maxSize |-> 0, checksum |-> FALSE,
          include |-> <<>>, includeFrom |-> <<>>, exclude |-> <<>>, excludeFrom |-> <<>>]

MCOptions == {
  Plain,
  [Plain EXCEPT !.checksum = TRUE],
  (* A root inside another one.                                            *)
  [Plain EXCEPT !.roots = <<x, y, xs>>],
  (* A root behind a bind mount.                                           *)
  [Plain EXCEPT !.roots = <<y, b>>, !.checksum = TRUE],
  (* Directories above the roots look the same as well.                    *)
  [Plain EXCEPT !.roots = <<xp, yp>>, !.maxSize = 5],
  (* The outer root leaves out the directory around the inner one.         *)
  [Plain EXCEPT !.roots = <<x, y, xs>>, !.checksum = TRUE, !.include = <<Name("flex")>>,
                !.exclude = <<Name("p")>>],
  [Plain EXCEPT !.roots = <<y>>, !.recursive = FALSE, !.minSize = 2],
  [Plain EXCEPT !.roots = <<y>>, !.oneFileSystem = TRUE,
                !.includeFrom = <<[pattern |-> [anchored |-> TRUE, comps |-> <<{"flex"}>>],
                                   exclude |-> FALSE]>>],
  [Plain EXCEPT !.minSize = 1,
                !.exclude = <<[anchored |-> FALSE, comps |-> <<{"s", "q"}, {"g"}>>]>>,
                !.excludeFrom = <<[pattern |-> [anchored |-> TRUE, comps |-> <<{"p"}, any, {"g"}>>],
                                   exclude |-> FALSE]>>]}

(* What the theorems of FastTreesProofs suppose of the flags.              *)
ASSUME FlagHypotheses == NoRootIsTop /\ RulesAlwaysSet
=============================================================================
