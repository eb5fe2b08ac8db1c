------------------------------ MODULE MCSxeCdb ------------------------------
(***************************************************************************)
(* lib-sxe-cdb for TLC.  A behaviour is about one of: the sheets of an     *)
(* instance, the counters of an instance, or threads that share ensembles  *)
(* of instances.                                                           *)
(*                                                                         *)
(* Five keys share four sheet indexes and two rows of two cells, so that   *)
(* sheets must split; keys 1 and 2 cannot be told apart by a split, 4 and  *)
(* 5 have both their rows in one.  Key 6 has no bytes.                     *)
(***************************************************************************)
EXTENDS SxeCdbSheets, SxeCdbCounts, SxeCdbEnsemble, TLC

MCHash == << <<0, 0, 1>>, <<4, 1, 2>>, <<1, 0, 1>>, <<2, 1, 3>>, <<3, 0, 2>>, <<0, 0, 3>> >>

(* With the fields of the configurations, headers of 1, 3, 5 and 8 bytes. *)
MCKeyLen == <<1, 3, 3, 4, 9, 0>>

MCValue == {<<1, 0>>, <<1, 1>>, <<8, 0>>}

CONSTANTS a, b, t1, t2, t3

Symmetry == Permutations({t1, t2, t3})

(* Every call on the ensembles a and b, except that swaps are all made the same way
   round. *)
SwapOneWay ==
    [op : {"use"}, e : {a, b}, i : {0, 1}] \union {[op |-> "swap", e |-> a, f |-> b]}
        \union [op : {"reboot", "destroy"}, e : {a, b}]

VARIABLE focus     \* what the behaviour is about

MCInit == Init /\ CountsInit /\ EnsInit /\ focus \in {"sheets", "counts", "ensembles"}

MCNext ==
    \/ focus = "sheets" /\ Next /\ UNCHANGED <<focus, countVars, ensVars>>
    \/ focus = "counts" /\ CountsNext /\ UNCHANGED <<focus, vars, ensVars>>
    \/ focus = "ensembles" /\ EnsNext /\ UNCHANGED <<focus, vars, countVars>>

MCSpec == MCInit /\ [][MCNext]_<<focus, vars, countVars, ensVars>>
=============================================================================
