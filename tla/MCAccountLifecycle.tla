------------------------- MODULE MCAccountLifecycle -------------------------
(* Small instances of AccountLifecycle.  Every generation can hold "a" and   *)
(* "b", v0.6.0 cannot hold "c", and only "a" migrates without a repair of   *)
(* its legacy credentials first.                                            *)
EXTENDS AccountLifecycle, TLC

MCSources == {Payload("v0", "a"), Payload("v1", "a"), Payload("v1", "b"),
              Payload("v2", "c"), Future}
MCPrototypes == {NoPrototype, "a"}
MCInodes == 1..9
Symmetry == Permutations(Process)

FewEvents == commands + faults + edits <= 3
=============================================================================
