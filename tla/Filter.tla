------------------------------- MODULE Filter -------------------------------
(***************************************************************************)
(* Which paths the rsync-like rules leave out (filter.go) and the order    *)
(* main.go puts the rules in.  A path is the sequence of its components, a *)
(* component of a pattern the set of names its wildcards admit, and ** the *)
(* component AnyDepth.                                                     *)
(***************************************************************************)
EXTENDS Naturals, Sequences, FiniteSetsExt

CONSTANTS
  AnyDepth, \* **
  Defaults  \* the patterns always excluded

-----------------------------------------------------------------------------
(* globMatch: the pattern fits the whole of names.                         *)
GlobMatch(comps, names) ==
  LET fits[i \in 1 .. Len(comps) + 1, j \in 1 .. Len(names) + 1] ==
        IF i > Len(comps) THEN j > Len(names)
        ELSE IF comps[i] = AnyDepth
             THEN i = Len(comps) \/ \E k \in j .. Len(names) : fits[i + 1, k]
             ELSE j <= Len(names) /\ names[j] \in comps[i] /\ fits[i + 1, j + 1]
  IN fits[1, 1]

(* A leading slash anchors the pattern, one with a slash inside may begin  *)
(* at any component, one without fits a single component.                  *)
Matches(pattern, rel) ==
  \/ pattern.anchored /\ GlobMatch(pattern.comps, rel)
  \/ /\ ~pattern.anchored /\ Len(pattern.comps) > 1
     /\ \E k \in DOMAIN rel : GlobMatch(pattern.comps, SubSeq(rel, k, Len(rel)))
  \/ /\ ~pattern.anchored /\ Len(pattern.comps) = 1
     /\ \E k \in DOMAIN rel : GlobMatch(pattern.comps, <<rel[k]>>)

Hits(rel, rules) == {k \in DOMAIN rules : Matches(rules[k].pattern, rel)}

(* The last matching rule wins.                                            *)
ShouldExclude(rel, rules) ==
  Hits(rel, rules) # {} /\ rules[Max(Hits(rel, rules))].exclude

AsRules(patterns, exclude) ==
  [k \in DOMAIN patterns |-> [pattern |-> patterns[k], exclude |-> exclude]]

(* --include comes before --exclude, whatever their order on the command   *)
(* line; the rules of the two files say themselves which kind they are.    *)
Rules(opt) ==
  AsRules(Defaults, TRUE) \o AsRules(opt.include, FALSE) \o opt.includeFrom
    \o AsRules(opt.exclude, TRUE) \o opt.excludeFrom
=============================================================================
