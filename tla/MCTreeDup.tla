----------------------------- MODULE MCTreeDup -----------------------------
(* /r/p/c/x  /r/p/c/w/k  /r/p/m      /r/q/c/x  /r/q/c/k  /r/q/m            *)
(* /r/n/s/x  /r/n/s/f    /r/n/s/y/f  /r/o/k                                *)
(* p and q are twins although k sits at different depths, so are o and w;  *)
(* n, whose only entry is s, lies above s with the same files.             *)
EXTENDS TreeDup

CONSTANTS w1, w2

MCFile == {"pcx", "pck", "pm", "qcx", "qck", "qm", "nsx", "nsf", "nsyf", "ok"}
MCDir == {"/", "r", "o", "p", "pc", "pcw", "q", "qc", "n", "ns", "nsy"}
MCDirOf == [f \in MCFile |->
              CASE f = "pcx" -> "pc" [] f = "pck" -> "pcw" [] f = "pm" -> "p"
                [] f \in {"qcx", "qck"} -> "qc" [] f = "qm" -> "q"
                [] f \in {"nsx", "nsf"} -> "ns" [] f = "nsyf" -> "nsy"
                [] f = "ok" -> "o"]
MCParent == [d \in MCDir |->
               CASE d \in {"o", "p", "q", "n"} -> "r" [] d = "pc" -> "p" [] d = "pcw" -> "pc"
                 [] d = "qc" -> "q" [] d = "ns" -> "n" [] d = "nsy" -> "ns" [] OTHER -> "/"]
MCSubtree == [d \in MCDir |->
                CASE d = "/" -> MCDir [] d = "r" -> MCDir \ {"/"}
                  [] d = "p" -> {"p", "pc", "pcw"} [] d = "pc" -> {"pc", "pcw"}
                  [] d = "q" -> {"q", "qc"} [] d = "n" -> {"n", "ns", "nsy"}
                  [] d = "ns" -> {"ns", "nsy"} [] OTHER -> {d}]
MCPathLen == [d \in MCDir |->
                CASE d = "/" -> 1 [] d = "r" -> 2 [] d \in {"o", "p", "q", "n"} -> 4
                  [] d \in {"pc", "qc", "ns"} -> 6 [] OTHER -> 8]
MCClass == {{"pcx", "qcx", "nsx"}, {"pck", "qck", "ok"}, {"pm", "qm"}, {"nsf", "nsyf"}}
MCGroups == {<<"pcx", "qcx", "nsx">>, <<"ok", "pck", "qck">>, <<"pm", "qm">>, <<"nsf", "nsyf">>}
MCFlaky == {{"pc", "qc"}}
MCSeeds == {{}, {{"pc", "qc"}}}
MCWorker == {w1, w2}

(* The same without /r/n/s/x and /r/o/k.                                   *)
NestedFile == MCFile \ {"nsx", "ok"}
NestedDirOf == [f \in NestedFile |-> MCDirOf[f]]
NestedClass == {c \ {"nsx", "ok"} : c \in MCClass}
NestedGroups == {<<"pcx", "qcx">>, <<"pck", "qck">>, <<"pm", "qm">>, <<"nsf", "nsyf">>}

(* What the theorems about a pair that is turned down suppose.             *)
ASSUME GroupsHypothesis == GroupsAreComplete
=============================================================================
