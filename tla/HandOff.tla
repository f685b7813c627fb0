------------------------------- MODULE HandOff -------------------------------
(***************************************************************************)
(* What the event buffer promises, whatever the threads do inside: a place *)
(* for one package that has two readers, the server (sent) and the event   *)
(* database (saved). The package stays until both have had it once, and    *)
(* only the end of the process takes it away earlier. Each reader has      *)
(* the packages in the order in which they were announced.                 *)
(***************************************************************************)
EXTENDS Integers

CONSTANTS Package, None

VARIABLES slot,
          sent, saved,  \* package -> the places where the reader has it
          losses        \* how often the process has ended
vars == <<slot, sent, saved, losses>>

Nothing == [p \in Package |-> {}]

Init == slot = None /\ sent = Nothing /\ saved = Nothing /\ losses = 0

\* A complete package has its numbers and is announced.
Offer == /\ slot = None
         /\ slot' \in Package
         /\ UNCHANGED <<sent, saved, losses>>

\* A reader that does not have the package in the slot gets it, behind the
\* packages it has.
Got(had, has) ==
  /\ slot \in Package /\ had[slot] = {}
  /\ \E n \in has[slot] :
       /\ has = [had EXCEPT ![slot] = {n}]
       /\ \A p \in Package : \A m \in had[p] : m < n

Send == Got(sent, sent') /\ UNCHANGED <<slot, saved, losses>>

Save == Got(saved, saved') /\ UNCHANGED <<slot, sent, losses>>

Release == /\ slot \in Package /\ sent[slot] # {} /\ saved[slot] # {}
           /\ slot' = None
           /\ UNCHANGED <<sent, saved, losses>>

Lose == /\ slot' = None
        /\ losses' = losses + 1
        /\ UNCHANGED <<sent, saved>>

Next == Offer \/ Send \/ Save \/ Release \/ Lose

Spec == Init /\ [][Next]_vars
=============================================================================
