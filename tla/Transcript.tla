----------------------------- MODULE Transcript -----------------------------
(***************************************************************************)
(* What the pane that follows an agent promises its reader: the events of   *)
(* the run, each once, in order, none passed over but those that cannot be  *)
(* read, and in the end the last of them.                                   *)
(***************************************************************************)
EXTENDS Naturals, Sequences

VARIABLES
    run,        \* the length of the run's log, and the positions in it that
                \* cannot be read
    shown       \* the positions on screen

Latest == IF shown = <<>> THEN 0 ELSE shown[Len(shown)]

Begin == shown = <<>>

Show(n) ==
    /\ n > Latest /\ n <= run.length
    /\ (Latest + 1)..(n - 1) \subseteq run.unreadable
    /\ shown' = Append(shown, n)
    /\ UNCHANGED run

More == \E n \in 1..run.length : Show(n)

Told == Begin /\ [][More]_shown
Telling == Told /\ WF_shown(More)

=============================================================================
