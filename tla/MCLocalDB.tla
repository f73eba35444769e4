----------------------------- MODULE MCLocalDB -----------------------------
(* Instances of LocalDB, Vars and IOPort for TLC: the files, documents and  *)
(* packets that data are kept in.  The models share no variable; a          *)
(* behaviour is one of the three, and the others stand still.               *)
EXTENDS LocalDB, Vars, IOPort

VARIABLE part

FilesPart == part = "files" /\ UNCHANGED <<part, varsVars, ioVars>>
VarsPart == part = "vars" /\ UNCHANGED <<part, vars, ioVars>>
PortPart == part = "port" /\ UNCHANGED <<part, vars, varsVars>>

MCInit ==
    /\ part \in {"files", "vars", "port"}
    /\ Init /\ VarsInit /\ IOInit

MCNext ==
    \/ FilesPart /\ Next
    \/ VarsPart /\ VarsNext
    \/ PortPart /\ IONext
MCSpec == MCInit /\ [][MCNext]_<<part, vars, varsVars, ioVars>>

(* A document up to the choice of nodes, which are alike: what stands in    *)
(* it, with its caches.                                                     *)
RECURSIVE Shape(_)
Shape(n) ==
    LET v == heap[n]
        kids == KidsOf(heap, n)
    IN  <<v.type, v.val, v.id, v.cachepos,
          [i \in DOMAIN kids |-> Shape(kids[i])]>>
Place(i) ==
    LET kids == KidsOf(heap, level[i - 1])
    IN  CHOOSE j \in DOMAIN kids : kids[j] = level[i]
MCView ==
    CASE part = "files" -> vars
      [] part = "port" -> ioVars
      [] OTHER ->
           <<Shape(root["conf"]), Shape(root["meta"]), Len(level),
             [i \in 2 .. Len(level) |-> Place(i)],
             Cardinality(FreeNodes(heap))>>

MCLeaves == {<<"int", 1>>}

(* Zero and the widest that fits, and two that do not; fractions on both    *)
(* sides of 192 and of a halving; strings of each length modulo the bytes   *)
(* they fill, with the first and last characters that have a code, and      *)
(* with one that has none.                                                  *)
MCItems ==
    {<<"int", n>> : n \in {{}, {6, 7}, {0, 34}, 0 .. 34, {35}, {36}}}
    \cup {<<"frac", d>> : d \in {0, 65279, 191 * FracUnit + 65279,
              192 * FracUnit, 511 * FracUnit + 70, 512 * FracUnit}}
    \cup {<<"str", s>> : s \in {<<>>, <<97>>, <<46, 122>>, <<90, 48, 32>>,
              <<46, 46, 82, 46>>, <<88, 81, 78, 72, 57>>}}
    \cup {<<"u64", {63, 0, 8}>>, <<"u32", {31, 9}>>,
          <<"uuid", {127, 64, 63, 2}>>}
=============================================================================
