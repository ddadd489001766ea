------------------------------ MODULE MCInputs -------------------------------
(***************************************************************************)
(* What reaches the engine, for TLC: messages and stores as bytes          *)
(* (Transfer), and the evidence published with them (Evidence, Ranking).   *)
(* The two share no variable, and each moves while the other rests where   *)
(* it starts.                                                              *)
(***************************************************************************)
EXTENDS MCTransfer, MCEvidence

BytesRest == Init /\ UNCHANGED vars
EvidenceRests == EvidenceInit /\ UNCHANGED evidenceVars

\* Send's own guards, of what does not depend on the value.
MaySend == EvidenceInit /\ saved = <<>> /\ received = <<>> /\ damage = "NONE" /\ Len(sent) < 2

\* The values that Send takes in this state: every one first, then those that follow
\* another.
Sendable(name) ==
  IF ~MaySend THEN {}
  ELSE IF sent = <<>> THEN Messages[name] ELSE Common.messages[name]

\* The states that Save takes in this state.
Savable == IF EvidenceInit /\ saved = <<>> /\ sent = <<>> THEN Stores ELSE {}

\* A survey is published first, a pair first or after one sample; a single sample
\* follows a survey or another one.  After a pair its series goes on until it is full.
Joins(batch) ==
  \/ Len(arrivals) \in CASE Len(batch) = 1 -> {0, 1, 4}
                         [] Len(batch) = 2 -> {0, 1}
                         [] OTHER          -> {0}
  \/ /\ Len(arrivals) = 2
     /\ \A i \in DOMAIN batch : batch[i] \in Contested /\ batch[i].generation = 1

\* The disjuncts of Next and of EvidenceNext, which TLC takes one by one.
InputsNext ==
  \/ \E name \in DOMAIN MessageId : \E value \in Sendable(name), epoch \in Epochs :
       EvidenceRests /\ Send(name, value, epoch)
  \/ \E state \in Savable, bound \in StoreBounds : EvidenceRests /\ Save(state, bound)
  \/ \E n \in 0..Len(stream) + Len(file) : EvidenceRests /\ Cut(n)
  \/ \E i \in 1..Len(stream) + Len(file) : EvidenceRests /\ Alter(i)
  \/ EvidenceRests /\ Receive
  \/ EvidenceRests /\ Load
  \/ BytesRest /\ EvidenceTick
  \/ \E batch \in Batches : BytesRest /\ Joins(batch) /\ publish_evidence(batch)

InputsInit == Init /\ EvidenceInit
InputsSpec == InputsInit /\ [][InputsNext]_<<vars, evidenceVars>>
=============================================================================
