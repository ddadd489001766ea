---------------------------- MODULE Incarnation -----------------------------
(***************************************************************************)
(* What the authority rules of Adaptive Routing Fabric promise, without    *)
(* sessions, epochs, scopes or the attempt table: a worker boot speaks for *)
(* a publisher, at most one boot speaks for a publisher at a time, and a   *)
(* boot that was retired neither speaks nor comes back.  Authority.tla is  *)
(* shown to implement this specification.                                  *)
(*                                                                         *)
(* Reset is the one thing that forgets retirements: a recovery from a      *)
(* store starts with no publisher, no retired boot and an empty journal.   *)
(***************************************************************************)
EXTENDS Sequences

CONSTANTS Publishers, Boots, NoBoot

VARIABLES
  holder,   \* the boot that speaks for each publisher, or NoBoot
  retired,  \* the boots that may never speak again
  journal   \* who carried out the mutations of this epoch, in order

vars == <<holder, retired, journal>>

Init ==
  /\ holder = [p \in Publishers |-> NoBoot]
  /\ retired = {}
  /\ journal = <<>>

\* The holders that are left when the boots of B are retired.
Without(h, B) == [p \in Publishers |-> IF h[p] \in B THEN NoBoot ELSE h[p]]

\* Boot b becomes the voice of publisher p and retires the previous one.
Claim(p, b) ==
  LET old == {holder[p]} \ {b, NoBoot}
  IN /\ b \notin retired
     /\ retired' = retired \cup old
     /\ holder' = [Without(holder, old) EXCEPT ![p] = b]
     /\ UNCHANGED journal

\* Some boots are retired, wherever they speak.
Retire(B) ==
  /\ retired' = retired \cup B
  /\ holder' = Without(holder, B)
  /\ UNCHANGED journal

\* Every boot that speaks is retired and a new journal starts.
RetireAll ==
  /\ \E B \in SUBSET Boots :
        /\ \A p \in Publishers : holder[p] \in B \cup {NoBoot}
        /\ retired' = retired \cup B
  /\ holder' = [p \in Publishers |-> NoBoot]
  /\ journal' = <<>>

\* A mutation is carried out in the name of the boot that speaks for p.
Act(p) ==
  /\ holder[p] # NoBoot
  /\ journal' = Append(journal, <<p, holder[p]>>)
  /\ UNCHANGED <<holder, retired>>

Reset == holder' = [p \in Publishers |-> NoBoot] /\ retired' = {} /\ journal' = <<>>

Next ==
  \/ \E p \in Publishers, b \in Boots : Claim(p, b)
  \/ \E b \in Boots : Retire({b})
  \/ RetireAll
  \/ \E p \in Publishers : Act(p)
  \/ Reset

Spec == Init /\ [][Next]_vars
=============================================================================
