------------------------------ MODULE LabelLog ------------------------------
(***************************************************************************)
(* What the books promise about labels, whoever writes them: each transfer *)
(* has a log of labels that is only ever extended ("append, don't          *)
(* overwrite"), its last entry is the label the books show, and once the   *)
(* operator has spoken only the operator speaks again.                     *)
(***************************************************************************)
EXTENDS Naturals, Sequences

CONSTANTS Events, Labels, SourceTypes

Entry == [label : Labels, source : SourceTypes]

VARIABLE log

Init == log = [e \in Events |-> <<>>]

SpokenFor(entries) == entries # <<>> /\ entries[Len(entries)].source = "user"

(* One transfer's log after a step: as it was, or longer by one entry. *)
Extends(old, new) ==
  \/ new = old
  \/ \E x \in Entry : new = Append(old, x) /\ (SpokenFor(old) => x.source = "user")

(* Several transfers may get their label in one transaction. *)
Record == /\ DOMAIN log' = Events
          /\ \A e \in Events : Extends(log[e], log'[e])

Next == Record
Spec == Init /\ [][Next]_log
=============================================================================
