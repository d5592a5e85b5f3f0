-------------------------------- MODULE Scan --------------------------------
(***************************************************************************)
(* The walk that fills the scan store (scan.go scanWalk, main.go run): the *)
(* roots one after the other, each in lexical order, a directory listed    *)
(* when it is entered and a file looked at when its turn comes, while      *)
(* files appear and vanish.                                                *)
(***************************************************************************)
EXTENDS Filter, FiniteSets, SequencesExt

CONSTANTS
  Dir, File,  \* File: every name that is not a directory
  Top,        \* "/"
  PathTo,     \* the components of the path of each of them
  Order,      \* all of them in the order of the walk
  Inode,      \* the inode of each name
  Link,       \* the directory entry it shows: two paths lead to one when a
              \* root lies behind a bind mount or a symbolic link (filepath.Abs
              \* resolves none)
  Size,
  Device,     \* the file system of each directory
  Special,    \* names that are no regular files
  Sidecar,    \* names of metadata sidecars
  Unreadable, \* directories that cannot be listed, files that cannot be read
  Fresh,      \* names that are not there at first and may appear
  Fleeting,   \* names that may vanish
  Options     \* the flags of the run

Node == Dir \cup File
Within(d, n) == IsStrictPrefix(PathTo[d], PathTo[n])

(* util.go IsSubdir compares strings: nothing is below "/" for it.         *)
IsSubdir(d, n) == d # Top /\ Within(d, n)

RelPath(d, n) == SubSeq(PathTo[n], Len(PathTo[d]) + 1, Len(PathTo[n]))

ASSUME ScanAssumption ==
  /\ Dir \cap File = {} /\ Top \in Dir /\ PathTo[Top] = <<>>
  /\ PathTo \in [Node -> Seq(UNION {ToSet(PathTo[n]) : n \in Node})]
  /\ \A m, n \in Node : PathTo[m] = PathTo[n] => m = n
  /\ \A n \in Node \ {Top} : \E d \in Dir : Within(d, n) /\ Len(RelPath(d, n)) = 1
  /\ Order \in Seq(Node) /\ ToSet(Order) = Node
  /\ \A j, k \in DOMAIN Order : Within(Order[j], Order[k]) => j < k
  /\ DOMAIN Inode = File /\ Size \in [File -> Nat]
  /\ \A f, g \in File : Inode[f] = Inode[g] => Size[f] = Size[g]
  /\ DOMAIN Link = File /\ \A f, g \in File : Link[f] = Link[g] => Inode[f] = Inode[g]
  /\ Unreadable \subseteq Node
  /\ Fresh \subseteq File /\ Fleeting \subseteq File
  /\ \A f, g \in File : Link[f] = Link[g] => (f \in Fresh <=> g \in Fresh)
                                          /\ (f \in Fleeting <=> g \in Fleeting)
  (* A root named twice counts once.                                       *)
  /\ \A o \in Options : o.roots \in Seq(Dir) /\ o.roots # <<>> /\ IsInjective(o.roots)

VARIABLES
  opt,    \* the flags of this run
  disk,   \* the names there are
  gone,   \* those that have vanished
  phase,  \* "walk", then what the passes make of it
  root,   \* the number of the root walked
  pos,    \* how far in Order the walk is
  cut,    \* directories it does not go into or cannot list
  listed, \* the names its listings have shown
  seen,   \* seenInodes
  rows    \* the scan store: files and the root each was found under

scanVars == <<opt, disk, gone, phase, root, pos, cut, listed, seen, rows>>

-----------------------------------------------------------------------------
Here == opt.roots[root]

InDir(d) == {f \in File : Within(d, f) /\ Len(RelPath(d, f)) = 1}
Listing(d) == IF d \in Unreadable THEN {} ELSE InDir(d) \cap disk

(* Mutant of Nested: only the roots named before i.                        *)
NestedBefore(i) == {opt.roots[j] : j \in {j \in DOMAIN opt.roots :
                                            j < i /\ IsSubdir(opt.roots[i], opt.roots[j])}}

(* rootExcludes: the roots inside root i.                                  *)
Nested(i) == {opt.roots[j] : j \in {j \in DOMAIN opt.roots :
                                      j # i /\ IsSubdir(opt.roots[i], opt.roots[j])}}

Excluded(n) ==
  \/ \E e \in Nested(root) : n = e \/ IsSubdir(e, n)
  \/ ShouldExclude(RelPath(Here, n), Rules(opt))

(* The names the walk of this root still comes to.                         *)
Reached(n) ==
  Within(Here, n) /\ (n \in File => n \in listed) /\ \A d \in cut : ~Within(d, n)
Ahead == {k \in DOMAIN Order : k > pos /\ Reached(Order[k])}
Upcoming == IF phase = "walk" /\ Ahead # {} THEN {Order[Min(Ahead)]} ELSE {}

Step == pos' = Min(Ahead)

(* tieneVariosNombres: the link count, which knows nothing of paths.       *)
ManyNames(f) == \E g \in disk : Inode[g] = Inode[f] /\ Link[g] # Link[f]

PathsOf(f) == {g \in File : Link[g] = Link[f]}

SizeFits(f) ==
  /\ opt.minSize > 0 => Size[f] >= opt.minSize
  /\ opt.maxSize > 0 => Size[f] <= opt.maxSize

-----------------------------------------------------------------------------
(* The first listing is made as the walk begins.                           *)
ScanInit ==
  /\ opt \in Options /\ disk = File \ Fresh /\ gone = {}
  /\ phase = "walk" /\ root = 1 /\ pos = 0 /\ cut = {opt.roots[1]} \cap Unreadable
  /\ listed = Listing(opt.roots[1])
  /\ seen = {} /\ rows = {}

LeftOut(d) ==
  Excluded(d) \/ ~opt.recursive \/ (opt.oneFileSystem /\ Device[d] # Device[Here])

SkipDir(d) ==
  /\ d \in Upcoming \cap Dir /\ LeftOut(d)
  /\ Step /\ cut' = cut \cup {d}
  /\ UNCHANGED <<opt, disk, gone, phase, root, listed, seen, rows>>

EnterDir(d) ==
  /\ d \in Upcoming \cap Dir /\ ~LeftOut(d)
  /\ Step /\ listed' = listed \cup Listing(d) /\ cut' = cut \cup ({d} \cap Unreadable)
  /\ UNCHANGED <<opt, disk, gone, phase, root, seen, rows>>

(* Filtered, no regular file, a sidecar, or gone before it is looked at.   *)
Passed(f) == Excluded(f) \/ f \in Special \/ f \in Sidecar \/ f \notin disk

PassOver(f) ==
  /\ f \in Upcoming \cap File /\ Passed(f)
  /\ Step
  /\ UNCHANGED <<opt, disk, gone, phase, root, cut, listed, seen, rows>>

(* Mutant of Again: each root is walked with a map of its own.             *)
AgainHere(f) ==
  ManyNames(f) /\ \E w \in rows : w.source = root /\ Inode[w.file] = Inode[f]

Again(f) == ManyNames(f) /\ Inode[f] \in seen

SkipHardlink(f) ==
  /\ f \in Upcoming \cap File /\ ~Passed(f) /\ Again(f)
  /\ Step
  /\ UNCHANGED <<opt, disk, gone, phase, root, cut, listed, seen, rows>>

(* The inode is remembered before the size is compared.                    *)
Emit(f) ==
  /\ f \in Upcoming \cap File /\ ~Passed(f) /\ ~Again(f)
  /\ Step
  /\ seen' = IF ManyNames(f) THEN seen \cup {Inode[f]} ELSE seen
  /\ rows' = IF SizeFits(f) THEN rows \cup {[file |-> f, source |-> root]} ELSE rows
  /\ UNCHANGED <<opt, disk, gone, phase, root, cut, listed>>

NextRoot ==
  /\ phase = "walk" /\ Ahead = {} /\ root < Len(opt.roots)
  /\ root' = root + 1 /\ pos' = 0 /\ cut' = {opt.roots[root + 1]} \cap Unreadable
  /\ listed' = Listing(opt.roots[root + 1])
  /\ UNCHANGED <<opt, disk, gone, phase, seen, rows>>

EndOfWalk ==
  /\ phase = "walk" /\ Ahead = {} /\ root = Len(opt.roots)
  /\ phase' = "hash"
  /\ UNCHANGED <<opt, disk, gone, root, pos, cut, listed, seen, rows>>

(* Other programs.                                                         *)
Appear(f) ==
  /\ f \in Fresh \ (disk \cup gone)
  /\ disk' = disk \cup PathsOf(f)
  /\ UNCHANGED <<opt, gone, phase, root, pos, cut, listed, seen, rows>>

Vanish(f) ==
  /\ f \in Fleeting \cap disk
  /\ disk' = disk \ PathsOf(f) /\ gone' = gone \cup PathsOf(f)
  /\ UNCHANGED <<opt, phase, root, pos, cut, listed, seen, rows>>

-----------------------------------------------------------------------------
ScanTypeOK ==
  /\ opt \in Options /\ disk \subseteq File /\ gone \subseteq File
  /\ phase \in {"walk", "hash", "pair", "verify", "content", "done"}
  /\ root \in DOMAIN opt.roots /\ pos \in 0 .. Len(Order)
  /\ cut \subseteq Dir /\ listed \subseteq File
  /\ seen \subseteq {Inode[f] : f \in File}
  /\ rows \subseteq [file : File, source : DOMAIN opt.roots]

(* What the flags ask for, one file at a time: it is a root's if that root *)
(* is the innermost around it, and no name from there down to it is left   *)
(* out.                                                                    *)
Innermost(i, f) ==
  /\ Within(opt.roots[i], f)
  /\ \A j \in DOMAIN opt.roots :
       Within(opt.roots[j], f) => j = i \/ Within(opt.roots[j], opt.roots[i])

Wanted(i, f) ==
  LET r == opt.roots[i]
      between == {d \in Dir : Within(r, d) /\ Within(d, f)} IN
  /\ Innermost(i, f)
  /\ \A n \in between \cup {f} : ~ShouldExclude(RelPath(r, n), Rules(opt))
  /\ between # {} => opt.recursive
  /\ opt.oneFileSystem => \A d \in between : Device[d] = Device[r]
  /\ ({r} \cup between) \cap Unreadable = {}
  /\ f \notin Special \cup Sidecar
  /\ SizeFits(f)

Steady == disk \ Fresh

(* No other directory entry of f's inode is among these.                   *)
SoleLink(f, files) == \A g \in files : Inode[g] = Inode[f] => Link[g] = Link[f]

(* The inventory holds what the flags ask for and nothing else, under the  *)
(* innermost root, however roots and rules overlap and whatever happens on *)
(* the disk meanwhile; and of the hard links of a file, where other        *)
(* programs let them be, exactly one, so that no link is ever a duplicate  *)
(* of another.  A file with a single link is under every path it is        *)
(* reached by.                                                             *)
InventoryIsExact ==
  /\ \A w \in rows : Wanted(w.source, w.file)
  /\ \A w, v \in rows :
       {w.file, v.file} \subseteq Steady /\ Inode[w.file] = Inode[v.file] =>
         w = v \/ SoleLink(w.file, Steady)
  /\ phase # "walk" =>
       \A f \in Steady, i \in DOMAIN opt.roots :
         Wanted(i, f) => \E w \in rows :
           Inode[w.file] = Inode[f] /\ (SoleLink(f, File) => w.file = f)
=============================================================================
