--------------------------- MODULE MCCleanupQueue ---------------------------
(* Three groups of copies over the daily, weekly and monthly folders of a  *)
(* backup and a folder above them, and at most one pair of trees.          *)
EXTENDS QueueBuild, TLC

Folders == {"daily", "weekly", "monthly"}
MCColumn == {<<c>> : c \in Folders}
MCOrder == [c \in MCColumn |->
              CASE c[1] = "daily" -> 1 [] c[1] = "monthly" -> 2 [] OTHER -> 3]

RankOf(c) == CASE c = "daily" -> 0 [] c = "weekly" -> 1 [] c = "monthly" -> 2
Copies == Folders \X {"/x", "/y", "/yy", "/z", "/t"}
Loose == {<<"/x">>}
MCPath == MCColumn \cup Copies \cup Loose

MCCadence ==
  [c \in MCColumn |-> [rank |-> RankOf(c[1]), prefix |-> "", suffix |-> ""]]
  @@ [p \in Copies |-> [rank |-> RankOf(p[1]), prefix |-> "", suffix |-> p[2]]]
  @@ [p \in Loose |-> NoMatch]
MCColOf == [p \in Copies |-> <<p[1]>>] @@ [p \in Loose |-> NoColumn]

D(s) == <<"daily", s>>
W(s) == <<"weekly", s>>
M(s) == <<"monthly", s>>

TreePairs == {[kind |-> "tree", a |-> p[1], b |-> p[2], size |-> 2] :
            p \in {<<D("/t"), W("/t")>>, <<M("/t"), W("/t")>>}}
Lists(s) == {<<D(s), W(s)>>, <<W(s), D(s)>>, <<M(s), D(s)>>, <<D(s), W(s), M(s)>>}
XLists == Lists("/x") \cup {<<<<"/x">>, D("/x"), W("/x")>>, <<<<"/x">>, M("/x")>>}
YLists == Lists("/y") \cup {<<W("/yy"), D("/y"), W("/y")>>}

(* The checksum pass emits groups by descending size.                      *)
MCInputs ==
  {[trees |-> ts, overlap |-> o, blockSize |-> b, minOverlap |-> m,
    groups |-> << [kind |-> "group", files |-> x, size |-> n[1]],
                  [kind |-> "group", files |-> y, size |-> n[2]],
                  [kind |-> "group", files |-> z, size |-> n[3]] >>] :
     ts \in {<<>>} \cup {<<t>> : t \in TreePairs}, o \in BOOLEAN, b \in 1 .. 2, m \in {0, 3},
     x \in XLists, y \in YLists, z \in Lists("/z"),
     n \in {<<1, 1, 1>>, <<2, 1, 1>>, <<3, 2, 1>>}}
=============================================================================
