--------------------------- MODULE EvaluationsProofs -------------------------
(***************************************************************************)
(* What goes on around an evaluation: how many run at a time, and what a   *)
(* snapshot says of the preference they leave behind.                      *)
(***************************************************************************)
EXTENDS Evaluations, Currentness, FiniteSetTheorems, TLAPS

-----------------------------------------------------------------------------
(***************************************************************************)
(* The count of evaluations and the limit on them, for any number of       *)
(* callers and any limit.  The count is kept between what was begun and    *)
(* what was settled in excess; from there a caller who is let in finds     *)
(* fewer than the limit, whatever the others do meanwhile.                 *)
(***************************************************************************)

Stages ==
  {"idle", "admitted", "evaluation", "evidence", "counting", "decision", "rollback"}

Issue == [decision : Nat, ticket : BOOLEAN, settled : Nat]

\* A caller has loaded the counter only where it takes an id.
EvaluationsTypeOK ==
  /\ outstanding \in Nat /\ counter \in Nat /\ surplus \in Nat
  /\ stage \in [Callers -> Stages]
  /\ loaded \in [Callers -> Seq(Nat)]
  /\ issued \in Seq(Issue)
  /\ \A c \in Callers : loaded[c] # <<>> =>
       stage[c] \in {"evaluation", "evidence", "decision", "rollback"}

\* The callers at one of the stages K, and the tickets nobody has settled.
At(K) == {c \in Callers : stage[c] \in K}
Open == {i \in DOMAIN issued : issued[i].ticket /\ issued[i].settled = 0}

Waiting == {"admitted", "evaluation", "evidence", "counting"}
Deciding == {"decision"}

(***************************************************************************)
(* Inductive invariant.                                                    *)
(***************************************************************************)
CountInv == EvaluationsTypeOK /\ SlotsAreCounted /\ OvershootIsBounded

LEMMA AtType ==
  ASSUME NEW K
  PROVE  /\ IsFiniteSet(At(K)) /\ Cardinality(At(K)) \in Nat
         /\ Cardinality(At(K)) <= Cardinality(Callers)
         /\ Cardinality(At(K)') \in Nat
         /\ Cardinality(At(K)') <= Cardinality(Callers)
         /\ Cardinality(Callers) \in Nat
<1>1. IsFiniteSet(Callers)
  BY EvaluationsAssumption
<1>2. At(K) \in SUBSET Callers /\ At(K)' \in SUBSET Callers
  BY DEF At
<1>3. /\ IsFiniteSet(At(K)) /\ Cardinality(At(K)) <= Cardinality(Callers)
      /\ IsFiniteSet(At(K)') /\ Cardinality(At(K)') <= Cardinality(Callers)
  BY <1>1, <1>2, FS_Subset
<1> QED
  BY <1>1, <1>3, FS_CardinalityType

LEMMA OpenType ==
  ASSUME issued \in Seq(Issue)
  PROVE  IsFiniteSet(Open) /\ Cardinality(Open) \in Nat
<1>1. Len(issued) \in Nat /\ DOMAIN issued = 1 .. Len(issued)
  OBVIOUS
<1>2. IsFiniteSet(DOMAIN issued)
  BY <1>1, FS_Interval
<1>3. Open \in SUBSET DOMAIN issued
  BY DEF Open
<1>4. IsFiniteSet(Open)
  BY <1>2, <1>3, FS_Subset
<1> QED
  BY <1>4, FS_CardinalityType

LEMMA UnsettledIs ==
  /\ Unsettled = Cardinality(At(Deciding)) + Cardinality(Open)
  /\ Uncounted = Cardinality(At(Waiting))
<1>1. {c \in Callers : stage[c] = "decision"} = At(Deciding)
  BY DEF At, Deciding
<1>2. {c \in Callers : stage[c] \in {"admitted", "evaluation", "evidence", "counting"}}
        = At(Waiting)
  BY DEF At, Waiting
<1> QED
  BY <1>1, <1>2 DEF Unsettled, Uncounted, Open

\* A caller who goes on leaves one stage and arrives at another.
LEMMA GoOn ==
  ASSUME EvaluationsTypeOK, NEW c \in Callers, NEW next \in Stages, GoTo(c, next), NEW K
  PROVE  Cardinality(At(K)') = Cardinality(At(K))
           - (IF stage[c] \in K THEN 1 ELSE 0) + (IF next \in K THEN 1 ELSE 0)
<1> DEFINE rest == At(K) \ {c}
<1>1. stage' = [stage EXCEPT ![c] = next] /\ stage \in [Callers -> Stages]
  BY DEF GoTo, EvaluationsTypeOK
<1>2. At(K)' = IF next \in K THEN rest \cup {c} ELSE rest
  BY <1>1 DEF At
<1>3. /\ IsFiniteSet(rest)
      /\ Cardinality(rest) = Cardinality(At(K)) - (IF stage[c] \in K THEN 1 ELSE 0)
      /\ Cardinality(rest) \in Nat
  <2>1. c \in At(K) <=> stage[c] \in K
    BY DEF At
  <2>2. IsFiniteSet(rest) /\ Cardinality(rest) =
          IF c \in At(K) THEN Cardinality(At(K)) - 1 ELSE Cardinality(At(K))
    BY AtType, FS_RemoveElement
  <2>3. Cardinality(rest) \in Nat
    BY <2>2, FS_CardinalityType
  <2> QED
    BY <2>1, <2>2, <2>3, AtType
<1>4. Cardinality(rest \cup {c}) = Cardinality(rest) + 1
  <2>1. c \notin rest
    OBVIOUS
  <2> QED
    BY <1>3, <2>1, FS_AddElement
<1> QED
  BY <1>2, <1>3, <1>4

LEMMA InitCount == EvaluationsInit => CountInv
<1> SUFFICES ASSUME EvaluationsInit PROVE CountInv
  OBVIOUS
<1>1. EvaluationsTypeOK
  BY DEF EvaluationsInit, EvaluationsTypeOK, Stages
<1>2. At(Deciding) = {} /\ At(Waiting) = {} /\ Open = {}
  BY DEF EvaluationsInit, At, Deciding, Waiting, Open
<1>3. Unsettled = 0 /\ Uncounted = 0
  BY <1>2, UnsettledIs, FS_EmptySet
<1>4. outstanding = 0 /\ surplus = 0
  BY DEF EvaluationsInit
<1>5. Cardinality(Callers) \in Nat /\ EvaluationLimit \in Nat \ {0}
  BY AtType, EvaluationsAssumption
<1> QED
  BY <1>1, <1>3, <1>4, <1>5 DEF CountInv, SlotsAreCounted, OvershootIsBounded

\* The two bounds, over the numbers they are about.
LEMMA Bounds ==
  ASSUME EvaluationsTypeOK
  PROVE  SlotsAreCounted /\ OvershootIsBounded <=>
           LET deciding == Cardinality(At(Deciding))
               waiting == Cardinality(At(Waiting))
               open == Cardinality(Open)
           IN  /\ outstanding <= deciding + open
               /\ deciding + open <= outstanding + surplus
               /\ waiting + deciding + open
                    <= EvaluationLimit + (Cardinality(Callers) - 1) + surplus
<1>1. /\ Cardinality(At(Deciding)) \in Nat /\ Cardinality(At(Waiting)) \in Nat
      /\ Cardinality(Open) \in Nat /\ Cardinality(Callers) \in Nat
      /\ outstanding \in Nat /\ surplus \in Nat /\ EvaluationLimit \in Nat
  BY AtType, OpenType, EvaluationsAssumption DEF EvaluationsTypeOK
<1> QED
  BY <1>1, UnsettledIs DEF SlotsAreCounted, OvershootIsBounded

\* The same, one step later.
LEMMA BoundsNext ==
  ASSUME EvaluationsTypeOK'
  PROVE  (SlotsAreCounted /\ OvershootIsBounded)' <=>
           /\ outstanding' <= Cardinality(At(Deciding)') + Cardinality(Open')
           /\ Cardinality(At(Deciding)') + Cardinality(Open') <= outstanding' + surplus'
           /\ Cardinality(At(Waiting)') + Cardinality(At(Deciding)') + Cardinality(Open')
                <= EvaluationLimit + (Cardinality(Callers) - 1) + surplus'
<1>3. /\ Cardinality(At(Deciding)') \in Nat /\ Cardinality(At(Waiting)') \in Nat
      /\ Cardinality(Callers) \in Nat
  BY AtType
<1>4. Cardinality(Open') \in Nat
  <2>1. Len(issued') \in Nat /\ DOMAIN issued' = 1 .. Len(issued')
    BY DEF EvaluationsTypeOK
  <2>2. IsFiniteSet(DOMAIN issued')
    BY <2>1, FS_Interval
  <2>3. Open' \in SUBSET DOMAIN issued'
    BY DEF Open
  <2> QED
    BY <2>2, <2>3, FS_Subset, FS_CardinalityType
<1>5. /\ Unsettled' = Cardinality(At(Deciding)') + Cardinality(Open')
      /\ Uncounted' = Cardinality(At(Waiting)')
  <2>1. {c \in Callers : stage'[c] = "decision"} = At(Deciding)'
    BY DEF At, Deciding
  <2>2. {c \in Callers : stage'[c] \in {"admitted", "evaluation", "evidence", "counting"}}
          = At(Waiting)'
    BY DEF At, Waiting
  <2> QED
    BY <2>1, <2>2 DEF Unsettled, Uncounted, Open
<1>6. /\ SlotsAreCounted' <=> outstanding' \in (Unsettled' - surplus') .. Unsettled'
      /\ OvershootIsBounded' <=>
           Uncounted' + Unsettled'
             <= EvaluationLimit + (Cardinality(Callers) - 1) + surplus'
  BY DEF SlotsAreCounted, OvershootIsBounded
<1>7. outstanding' \in Nat /\ surplus' \in Nat /\ EvaluationLimit \in Nat
  BY EvaluationsAssumption DEF EvaluationsTypeOK
<1> QED
  BY <1>3, <1>4, <1>5, <1>6, <1>7

-----------------------------------------------------------------------------
(* One lemma for the type, one for the bounds under each kind of step. *)

LEMMA CallerStepType ==
  ASSUME EvaluationsTypeOK, NEW c \in Callers,
         \/ Admit(c) \/ Inspect(c) \/ Count(c) \/ BeginRollback(c)
         \/ LoadCounter(c) \/ StoreCounter(c)
  PROVE  EvaluationsTypeOK'
<1> USE DEF EvaluationsTypeOK, Stages, GoTo
<1>1. CASE Admit(c)
  BY <1>1 DEF Admit
<1>2. CASE Inspect(c)
  BY <1>2 DEF Inspect
<1>3. CASE Count(c)
  BY <1>3 DEF Count
<1>4. CASE BeginRollback(c)
  BY <1>4 DEF BeginRollback
<1>5. CASE LoadCounter(c)
  BY <1>5 DEF LoadCounter
<1>6. CASE StoreCounter(c)
  <2>1. loaded[c] \in Seq(Nat) /\ loaded[c] # <<>>
    BY <1>6 DEF StoreCounter
  <2>2. Head(loaded[c]) \in Nat
    BY <2>1
  <2>3. loaded' = [loaded EXCEPT ![c] = <<>>] /\ counter' \in Nat
    BY <1>6, <2>2 DEF StoreCounter
  <2>4. stage' = [stage EXCEPT ![c] = Following[stage[c]]]
        /\ Following[stage[c]] \in Stages
    BY <1>6, <2>1 DEF StoreCounter, Following
  <2>5. issued' \in Seq(Issue)
    <3>1. [decision |-> Head(loaded[c]) + 1, ticket |-> stage[c] = "decision",
           settled |-> 0] \in Issue
      BY <2>2 DEF Issue
    <3> QED
      BY <1>6, <3>1 DEF StoreCounter
  <2>6. \A d \in Callers : loaded'[d] # <<>> =>
          stage'[d] \in {"evaluation", "evidence", "decision", "rollback"}
    BY <1>6, <2>3 DEF StoreCounter
  <2> QED
    BY <1>6, <2>3, <2>4, <2>5, <2>6 DEF StoreCounter
<1> QED
  BY <1>1, <1>2, <1>3, <1>4, <1>5, <1>6

\* A caller who only goes on, between stages of the same kind or out of the way.
LEMMA MovesKeepBounds ==
  ASSUME CountInv, NEW c \in Callers, NEW next \in Stages, GoTo(c, next),
         UNCHANGED <<outstanding, issued, surplus>>, EvaluationsTypeOK',
         stage[c] # "decision", next # "decision",
         next \in Waiting => stage[c] \in Waiting
  PROVE  CountInv'
<1>1. /\ Cardinality(At(Deciding)') = Cardinality(At(Deciding))
      /\ Cardinality(At(Waiting)') <= Cardinality(At(Waiting))
      /\ Cardinality(At(Deciding)) \in Nat /\ Cardinality(At(Waiting)) \in Nat
  BY GoOn, AtType DEF CountInv, Deciding
<1>2. Open' = Open /\ Cardinality(Open) \in Nat
  BY OpenType DEF Open, CountInv, EvaluationsTypeOK
<1>3. /\ Cardinality(At(Waiting)') \in Nat
      /\ Cardinality(Callers) \in Nat /\ EvaluationLimit \in Nat
      /\ outstanding \in Nat /\ surplus \in Nat
  BY AtType, EvaluationsAssumption DEF CountInv, EvaluationsTypeOK
<1>4. /\ outstanding <= Cardinality(At(Deciding)') + Cardinality(Open')
      /\ Cardinality(At(Deciding)') + Cardinality(Open') <= outstanding + surplus
      /\ Cardinality(At(Waiting)') + Cardinality(At(Deciding)') + Cardinality(Open')
           <= EvaluationLimit + (Cardinality(Callers) - 1) + surplus
  BY <1>1, <1>2, <1>3, Bounds DEF CountInv
<1> QED
  BY <1>4, BoundsNext DEF CountInv

\* A caller is let in: fewer than the limit are counted, and the others are uncounted
\* or counted already.
LEMMA AdmitKeepsBounds ==
  ASSUME CountInv, NEW c \in Callers, Admit(c), EvaluationsTypeOK'
  PROVE  CountInv'
<1>1. /\ GoTo(c, "admitted") /\ stage[c] = "idle" /\ outstanding < EvaluationLimit
      /\ UNCHANGED <<outstanding, issued, surplus>>
  BY DEF Admit, BelowLimit
<1>2. Cardinality(At(Deciding)') = Cardinality(At(Deciding))
  BY <1>1, GoOn, AtType DEF CountInv, Deciding, Stages
<1>3. Open' = Open /\ Cardinality(Open) \in Nat
  BY <1>1, OpenType DEF Open, CountInv, EvaluationsTypeOK
<1>4. /\ Cardinality(At(Waiting)') <= Cardinality(Callers)
      /\ Cardinality(At(Waiting)') \in Nat /\ Cardinality(At(Deciding)) \in Nat
      /\ Cardinality(Callers) \in Nat /\ EvaluationLimit \in Nat
      /\ outstanding \in Nat /\ surplus \in Nat
  BY AtType, EvaluationsAssumption DEF CountInv, EvaluationsTypeOK
<1>5. /\ outstanding <= Cardinality(At(Deciding)') + Cardinality(Open')
      /\ Cardinality(At(Deciding)') + Cardinality(Open') <= outstanding + surplus
      /\ Cardinality(At(Waiting)') + Cardinality(At(Deciding)') + Cardinality(Open')
           <= EvaluationLimit + (Cardinality(Callers) - 1) + surplus
  BY <1>1, <1>2, <1>3, <1>4, Bounds DEF CountInv
<1> QED
  BY <1>1, <1>5, BoundsNext DEF CountInv

\* An evaluation is counted: it was waiting and is deciding.
LEMMA CountKeepsBounds ==
  ASSUME CountInv, NEW c \in Callers, Count(c), EvaluationsTypeOK'
  PROVE  CountInv'
<1>1. /\ GoTo(c, "decision") /\ stage[c] = "counting" /\ outstanding' = outstanding + 1
      /\ UNCHANGED <<issued, surplus>>
  BY DEF Count
<1>2. /\ Cardinality(At(Deciding)') = Cardinality(At(Deciding)) + 1
      /\ Cardinality(At(Waiting)') = Cardinality(At(Waiting)) - 1
  BY <1>1, GoOn, AtType DEF CountInv, Deciding, Waiting, Stages
<1>3. Open' = Open /\ Cardinality(Open) \in Nat
  BY <1>1, OpenType DEF Open, CountInv, EvaluationsTypeOK
<1>4. /\ Cardinality(At(Waiting)) \in Nat /\ Cardinality(At(Deciding)) \in Nat
      /\ Cardinality(Callers) \in Nat /\ EvaluationLimit \in Nat
      /\ outstanding \in Nat /\ surplus \in Nat
  BY AtType, EvaluationsAssumption DEF CountInv, EvaluationsTypeOK
<1>5. /\ outstanding' <= Cardinality(At(Deciding)') + Cardinality(Open')
      /\ Cardinality(At(Deciding)') + Cardinality(Open') <= outstanding' + surplus
      /\ Cardinality(At(Waiting)') + Cardinality(At(Deciding)') + Cardinality(Open')
           <= EvaluationLimit + (Cardinality(Callers) - 1) + surplus
  BY <1>1, <1>2, <1>3, <1>4, Bounds DEF CountInv
<1> QED
  BY <1>1, <1>5, BoundsNext DEF CountInv

\* A decision is appended: the open tickets are those there were, and the new one.
LEMMA Appended ==
  ASSUME EvaluationsTypeOK, NEW entry \in Issue, issued' = Append(issued, entry),
         entry.settled = 0
  PROVE  Cardinality(Open') = Cardinality(Open) + (IF entry.ticket THEN 1 ELSE 0)
<1> DEFINE n == Len(issued)
<1>1. /\ n \in Nat /\ DOMAIN issued = 1 .. n /\ DOMAIN issued' = 1 .. n + 1
      /\ \A i \in 1 .. n : issued'[i] = issued[i]
      /\ issued'[n + 1] = entry
  BY DEF EvaluationsTypeOK
<1>2. n + 1 \notin Open
  BY <1>1 DEF Open
<1>3. Open' = IF entry.ticket THEN Open \cup {n + 1} ELSE Open
  <2>1. \A i : i \in Open' <=> (i \in 1 .. n + 1 /\ issued'[i].ticket /\ issued'[i].settled = 0)
    BY <1>1 DEF Open
  <2>2. \A i : i \in Open <=> (i \in 1 .. n /\ issued[i].ticket /\ issued[i].settled = 0)
    BY <1>1 DEF Open
  <2>3. 1 .. n + 1 = (1 .. n) \cup {n + 1}
    BY <1>1
  <2> HIDE DEF n
  <2>4. \A i : i \in Open' <=> i \in Open \/ (i = n + 1 /\ entry.ticket)
    BY <1>1, <2>1, <2>2, <2>3
  <2> QED
    BY <2>4
<1>4. IsFiniteSet(Open) /\ Cardinality(Open) \in Nat
  BY OpenType DEF EvaluationsTypeOK
<1>5. Cardinality(Open \cup {n + 1}) = Cardinality(Open) + 1
  BY <1>2, <1>4, FS_AddElement
<1> QED
  BY <1>3, <1>4, <1>5

\* A decision gets its id: what was deciding is a ticket now.
LEMMA IssueKeepsBounds ==
  ASSUME CountInv, NEW c \in Callers, StoreCounter(c), EvaluationsTypeOK',
         stage[c] \in {"decision", "rollback"}
  PROVE  CountInv'
<1> DEFINE entry == [decision |-> Head(loaded[c]) + 1, ticket |-> stage[c] = "decision",
                     settled |-> 0]
<1>1. /\ GoTo(c, "idle") /\ issued' = Append(issued, entry)
      /\ UNCHANGED <<outstanding, surplus>>
  BY DEF StoreCounter, Following
<1>2. entry \in Issue
  <2>1. loaded[c] \in Seq(Nat) /\ loaded[c] # <<>>
    BY DEF StoreCounter, CountInv, EvaluationsTypeOK
  <2>2. Head(loaded[c]) \in Nat
    BY <2>1
  <2> QED
    BY <2>2 DEF Issue
<1>3. Cardinality(Open') = Cardinality(Open) + (IF stage[c] = "decision" THEN 1 ELSE 0)
  <2>1. entry.settled = 0 /\ entry.ticket = (stage[c] = "decision")
    OBVIOUS
  <2> HIDE DEF entry
  <2>2. Cardinality(Open') = Cardinality(Open) + (IF entry.ticket THEN 1 ELSE 0)
    BY <1>1, <1>2, <2>1, Appended DEF CountInv
  <2> QED
    BY <2>1, <2>2
<1>4. /\ Cardinality(At(Deciding)') =
           Cardinality(At(Deciding)) - (IF stage[c] = "decision" THEN 1 ELSE 0)
      /\ Cardinality(At(Waiting)') = Cardinality(At(Waiting))
  BY <1>1, GoOn, AtType DEF CountInv, Deciding, Waiting, Stages
<1>5. /\ Cardinality(At(Waiting)) \in Nat /\ Cardinality(At(Deciding)) \in Nat
      /\ Cardinality(Open) \in Nat
      /\ Cardinality(Callers) \in Nat /\ EvaluationLimit \in Nat
      /\ outstanding \in Nat /\ surplus \in Nat
  BY AtType, OpenType, EvaluationsAssumption DEF CountInv, EvaluationsTypeOK
<1>6. /\ outstanding <= Cardinality(At(Deciding)') + Cardinality(Open')
      /\ Cardinality(At(Deciding)') + Cardinality(Open') <= outstanding + surplus
      /\ Cardinality(At(Waiting)') + Cardinality(At(Deciding)') + Cardinality(Open')
           <= EvaluationLimit + (Cardinality(Callers) - 1) + surplus
  BY <1>3, <1>4, <1>5, Bounds DEF CountInv
<1> QED
  BY <1>1, <1>6, BoundsNext DEF CountInv

\* A ticket is settled, for the first time or again.
LEMMA SettleKeepsBounds ==
  ASSUME CountInv, NEW i \in DOMAIN issued, Settle(i)
  PROVE  CountInv'
<1>1. issued \in Seq(Issue) /\ issued[i] \in Issue
  BY DEF CountInv, EvaluationsTypeOK
<1>2. EvaluationsTypeOK'
  <2>1. [issued[i] EXCEPT !.settled = @ + 1] \in Issue
    BY <1>1 DEF Issue
  <2>2. issued' \in Seq(Issue)
    BY <1>1, <2>1 DEF Settle
  <2>3. outstanding' \in Nat /\ surplus' \in Nat
    BY DEF Settle, GivenBack, CountInv, EvaluationsTypeOK
  <2> QED
    BY <2>2, <2>3 DEF Settle, CountInv, EvaluationsTypeOK
<1>3. Open' = Open \ {i}
  <2>1. /\ DOMAIN issued' = DOMAIN issued
        /\ \A j \in DOMAIN issued : j # i => issued'[j] = issued[j]
        /\ issued'[i].settled = issued[i].settled + 1
    BY <1>1 DEF Settle, Issue
  <2>2. issued'[i].settled # 0
    BY <1>1, <2>1 DEF Issue
  <2> QED
    BY <2>1, <2>2 DEF Open
<1>4. i \in Open <=> issued[i].settled = 0
  BY DEF Settle, Open
<1>5. Cardinality(Open') = Cardinality(Open) - (IF issued[i].settled = 0 THEN 1 ELSE 0)
  <2>1. IsFiniteSet(Open) /\ Cardinality(Open) \in Nat
    BY <1>1, OpenType
  <2>2. Cardinality(Open \ {i}) =
          IF i \in Open THEN Cardinality(Open) - 1 ELSE Cardinality(Open)
    BY <2>1, FS_RemoveElement
  <2> QED
    BY <1>3, <1>4, <2>1, <2>2
<1>6. At(Deciding)' = At(Deciding) /\ At(Waiting)' = At(Waiting)
  BY DEF Settle, At
<1>7. /\ Cardinality(At(Waiting)) \in Nat /\ Cardinality(At(Deciding)) \in Nat
      /\ Cardinality(Open) \in Nat /\ Cardinality(Open') \in Nat
      /\ Cardinality(Callers) \in Nat /\ EvaluationLimit \in Nat
      /\ outstanding \in Nat /\ surplus \in Nat
  BY <1>3, <1>5, AtType, OpenType, FS_RemoveElement, FS_CardinalityType,
     EvaluationsAssumption DEF CountInv, EvaluationsTypeOK
<1>8. /\ outstanding' = IF outstanding = 0 THEN 0 ELSE outstanding - 1
      /\ surplus' = surplus + (IF issued[i].settled = 0 THEN 0 ELSE 1)
  BY DEF Settle, GivenBack
<1>9. /\ outstanding' <= Cardinality(At(Deciding)') + Cardinality(Open')
      /\ Cardinality(At(Deciding)') + Cardinality(Open') <= outstanding' + surplus'
      /\ Cardinality(At(Waiting)') + Cardinality(At(Deciding)') + Cardinality(Open')
           <= EvaluationLimit + (Cardinality(Callers) - 1) + surplus'
  BY <1>5, <1>6, <1>7, <1>8, Bounds DEF CountInv
<1> QED
  BY <1>2, <1>9, BoundsNext DEF CountInv

\* The ticket of a refused request is settled, which was never begun.
LEMMA SettleRefusedKeepsBounds ==
  ASSUME CountInv, SettleRefused
  PROVE  CountInv'
<1>1. EvaluationsTypeOK'
  BY DEF SettleRefused, GivenBack, CountInv, EvaluationsTypeOK
<1>2. Open' = Open /\ At(Deciding)' = At(Deciding) /\ At(Waiting)' = At(Waiting)
  BY DEF SettleRefused, Open, At
<1>3. /\ Cardinality(At(Waiting)) \in Nat /\ Cardinality(At(Deciding)) \in Nat
      /\ Cardinality(Open) \in Nat
      /\ Cardinality(Callers) \in Nat /\ EvaluationLimit \in Nat
      /\ outstanding \in Nat /\ surplus \in Nat
  BY AtType, OpenType, EvaluationsAssumption DEF CountInv, EvaluationsTypeOK
<1>4. /\ outstanding' = IF outstanding = 0 THEN 0 ELSE outstanding - 1
      /\ surplus' = surplus + 1
  BY DEF SettleRefused, GivenBack
<1>5. /\ outstanding' <= Cardinality(At(Deciding)') + Cardinality(Open')
      /\ Cardinality(At(Deciding)') + Cardinality(Open') <= outstanding' + surplus'
      /\ Cardinality(At(Waiting)') + Cardinality(At(Deciding)') + Cardinality(Open')
           <= EvaluationLimit + (Cardinality(Callers) - 1) + surplus'
  BY <1>2, <1>3, <1>4, Bounds DEF CountInv
<1> QED
  BY <1>1, <1>5, BoundsNext DEF CountInv

\* What neither moves a caller nor touches a count.
LEMMA CountFrame ==
  ASSUME CountInv, EvaluationsTypeOK', UNCHANGED <<outstanding, stage, issued, surplus>>
  PROVE  CountInv'
<1>1. Unsettled' = Unsettled /\ Uncounted' = Uncounted
  BY DEF Unsettled, Uncounted
<1> QED
  BY <1>1 DEF CountInv, SlotsAreCounted, OvershootIsBounded

LEMMA CountStep == CountInv /\ [EvaluationsNext]_evaluationsVars => CountInv'
<1> SUFFICES ASSUME CountInv, [EvaluationsNext]_evaluationsVars PROVE CountInv'
  OBVIOUS
<1>1. ASSUME NEW c \in Callers, Admit(c) PROVE CountInv'
  BY <1>1, CallerStepType, AdmitKeepsBounds DEF CountInv
<1>2. ASSUME NEW c \in Callers, Inspect(c) PROVE CountInv'
  <2>1. PICK next \in {"idle", "evaluation"} : GoTo(c, next)
    BY <1>2 DEF Inspect
  <2>2. EvaluationsTypeOK' /\ stage[c] = "admitted"
        /\ UNCHANGED <<outstanding, issued, surplus>>
    BY <1>2, CallerStepType DEF Inspect, CountInv
  <2> QED
    BY <2>1, <2>2, MovesKeepBounds DEF Stages, Waiting
<1>3. ASSUME NEW c \in Callers, BeginRollback(c) PROVE CountInv'
  <2>1. /\ GoTo(c, "rollback") /\ stage[c] = "idle"
        /\ UNCHANGED <<outstanding, issued, surplus>>
    BY <1>3 DEF BeginRollback
  <2>2. EvaluationsTypeOK'
    BY <1>3, CallerStepType DEF CountInv
  <2> QED
    BY <2>1, <2>2, MovesKeepBounds DEF Stages, Waiting
<1>4. ASSUME NEW c \in Callers, Count(c) PROVE CountInv'
  BY <1>4, CallerStepType, CountKeepsBounds DEF CountInv
<1>5. ASSUME NEW c \in Callers, LoadCounter(c) PROVE CountInv'
  BY <1>5, CallerStepType, CountFrame DEF CountInv, LoadCounter
<1>6. ASSUME NEW c \in Callers, StoreCounter(c) PROVE CountInv'
  <2>1. EvaluationsTypeOK'
    BY <1>6, CallerStepType DEF CountInv
  <2>2. stage[c] \in {"evaluation", "evidence", "decision", "rollback"}
    BY <1>6 DEF StoreCounter, CountInv, EvaluationsTypeOK
  <2>3. CASE stage[c] \in {"decision", "rollback"}
    BY <1>6, <2>1, <2>3, IssueKeepsBounds
  <2>4. CASE stage[c] \in {"evaluation", "evidence"}
    <3>1. /\ GoTo(c, Following[stage[c]])
          /\ Following[stage[c]] \in {"evidence", "counting"}
          /\ UNCHANGED <<outstanding, issued, surplus>>
      BY <1>6, <2>4 DEF StoreCounter, Following
    <3> QED
      BY <2>1, <2>4, <3>1, MovesKeepBounds DEF Stages, Waiting
  <2> QED
    BY <2>2, <2>3, <2>4
<1>7. ASSUME NEW i \in DOMAIN issued, Settle(i) PROVE CountInv'
  BY <1>7, SettleKeepsBounds
<1>8. CASE SettleRefused
  BY <1>8, SettleRefusedKeepsBounds
<1>9. CASE UNCHANGED evaluationsVars
  <2>1. EvaluationsTypeOK'
    BY <1>9 DEF evaluationsVars, CountInv, EvaluationsTypeOK
  <2> QED
    BY <1>9, <2>1, CountFrame DEF evaluationsVars
<1> QED
  BY <1>1, <1>2, <1>3, <1>4, <1>5, <1>6, <1>7, <1>8, <1>9 DEF EvaluationsNext

LEMMA CountInvariant == EvaluationsSpec => []CountInv
<1>1. EvaluationsInit => CountInv
  BY InitCount
<1>2. CountInv /\ [EvaluationsNext]_evaluationsVars => CountInv'
  BY CountStep
<1> QED
  BY <1>1, <1>2, PTL DEF EvaluationsSpec

(***************************************************************************)
(* The count of outstanding evaluations is what was begun and not settled, *)
(* short of what was settled in excess, for any number of callers.         *)
(***************************************************************************)
THEOREM SlotsCounted == EvaluationsSpec => []SlotsAreCounted
<1>1. CountInv => SlotsAreCounted
  BY DEF CountInv
<1> QED
  BY <1>1, CountInvariant, PTL

(***************************************************************************)
(* No number of callers who read the limit before they are counted exceeds *)
(* it by more than one each, beside what was settled in excess.            *)
(***************************************************************************)
THEOREM OvershootBounded == EvaluationsSpec => []OvershootIsBounded
<1>1. CountInv => OvershootIsBounded
  BY DEF CountInv
<1> QED
  BY <1>1, CountInvariant, PTL

-----------------------------------------------------------------------------
(***************************************************************************)
(* A snapshot that says CURRENT speaks for a path an evaluation would find *)
(* eligible, for any candidates, targets and facts.  A policy in service   *)
(* was brought there in the epoch the coordinator is in, and the path of a *)
(* preference is a candidate: with these two facts the two classifiers     *)
(* read the same conditions of the same record.                            *)
(***************************************************************************)

Lifecycles == {"ACTIVE", "SUSPENDED", "REVALIDATION_REQUIRED", "REVOKED", "RETIRED"}

Record ==
  [target : Targets, lifecycle : Lifecycles, epoch : Nat,
   candidates : [Candidates -> BindingFact],
   preference : [path : Candidates \cup {Nowhere}, authority : Nat, set : Nat],
   stable : Candidates \cup {Nowhere}, holdDown : Nat, cooldown : Nat]

CurrentnessTypeOK ==
  /\ record \in Record
  /\ observed \in [Candidates -> Nat \cup {Never}]
  /\ ticks \in Nat /\ coordinatorEpoch \in Nat

\* A candidate that is declared has an authority generation, and stays declared.
DeclaredHasAuthority ==
  \A x \in Candidates :
    record.candidates[x] # Undeclared => record.candidates[x].authority # 0

PreferenceIsCandidate ==
  record.preference.path # Nowhere => record.candidates[record.preference.path] # Undeclared

ActiveInEpoch == record.lifecycle = "ACTIVE" => record.epoch = coordinatorEpoch

(***************************************************************************)
(* Inductive invariant.                                                    *)
(***************************************************************************)
CurrentnessInv ==
  CurrentnessTypeOK /\ DeclaredHasAuthority /\ PreferenceIsCandidate /\ ActiveInEpoch

LEMMA UndeclaredType == Undeclared \in BindingFact /\ Undeclared.authority = 0
BY DEF Undeclared, NoSet, BindingFact

LEMMA InitCurrent == CurrentnessInit => CurrentnessInv
<1> SUFFICES ASSUME CurrentnessInit PROVE CurrentnessInv
  OBVIOUS
<1>1. PICK target \in Targets : record =
        [target |-> target, lifecycle |-> "ACTIVE", epoch |-> 1,
         candidates |-> [x \in Candidates |-> Undeclared],
         preference |-> [path |-> Nowhere, authority |-> 0, set |-> 0],
         stable |-> Nowhere, holdDown |-> 0, cooldown |-> 0]
  BY DEF CurrentnessInit
<1>2. record \in Record
  BY <1>1, UndeclaredType DEF Record, Lifecycles
<1>3. CurrentnessTypeOK
  BY <1>2 DEF CurrentnessInit, CurrentnessTypeOK
<1>4. DeclaredHasAuthority /\ PreferenceIsCandidate /\ ActiveInEpoch
  BY <1>1 DEF DeclaredHasAuthority, PreferenceIsCandidate, ActiveInEpoch, CurrentnessInit
<1> QED
  BY <1>3, <1>4 DEF CurrentnessInv

\* What a notification makes of a binding is one, and declared.
LEMMA RenewedType ==
  ASSUME NEW old \in BindingFact, old # Undeclared => old.authority # 0,
         NEW binding \in Renewed(old)
  PROVE  binding \in BindingFact /\ binding.authority # 0
<1>1. CASE old = Undeclared
  BY <1>1, FactsAssumption DEF Renewed
<1>2. CASE old # Undeclared
  <2>1. \/ binding \in Facts
        \/ \E fact \in Facts :
             binding = [old EXCEPT !.authority = fact.authority, !.legal = fact.legal]
        \/ \E fact \in Facts :
             binding = [old EXCEPT !.authority = fact.authority, !.legal = FALSE]
        \/ \E fact \in Facts : binding = [old EXCEPT !.set = fact.set]
        \/ binding = [old EXCEPT !.set.current = FALSE]
        \/ \E current \in BOOLEAN : binding = [old EXCEPT !.route = current]
        \/ \E up \in BOOLEAN : binding = [old EXCEPT !.available = up]
    BY <1>2, Zenon DEF Renewed
  <2> QED
    BY <1>2, <2>1, FactsAssumption DEF BindingFact
<1> QED
  BY <1>1, <1>2

\* The preference moves to a candidate that is declared.
LEMMA MovedIsCurrent ==
  ASSUME CurrentnessInv, NEW x \in Candidates, record.candidates[x] # Undeclared,
         record' = MovedTo(x), UNCHANGED <<observed, ticks, coordinatorEpoch>>
  PROVE  CurrentnessInv'
<1>1. record \in Record /\ ticks \in Nat
  BY DEF CurrentnessInv, CurrentnessTypeOK
<1>2. record.target \in PolicyTarget /\ record.candidates[x] \in BindingFact
  BY <1>1, TargetsAssumption DEF Record
<1>3. Deadline(record.target.holdDown) \in Nat /\ Deadline(record.target.cooldown) \in Nat
  BY <1>1, <1>2 DEF Deadline, PolicyTarget
<1>4. /\ record' \in Record
      /\ record'.candidates = record.candidates /\ record'.preference.path = x
      /\ record'.lifecycle = record.lifecycle /\ record'.epoch = record.epoch
  BY <1>1, <1>2, <1>3 DEF MovedTo, Record, BindingFact
<1> QED
  BY <1>4 DEF CurrentnessInv, CurrentnessTypeOK, DeclaredHasAuthority,
              PreferenceIsCandidate, ActiveInEpoch

LEMMA StepCurrent == CurrentnessInv /\ [CurrentnessNext]_currentnessVars => CurrentnessInv'
<1> SUFFICES ASSUME CurrentnessInv, [CurrentnessNext]_currentnessVars PROVE CurrentnessInv'
  OBVIOUS
<1>0. record \in Record /\ record.candidates \in [Candidates -> BindingFact]
  BY DEF CurrentnessInv, CurrentnessTypeOK, Record
<1>1. ASSUME NEW x \in Candidates, NEW binding \in Renewed(record.candidates[x]),
             Notify(x, binding)
      PROVE  CurrentnessInv'
  <2>1. binding \in BindingFact /\ binding.authority # 0
    BY <1>0, RenewedType DEF CurrentnessInv, DeclaredHasAuthority
  <2>2. /\ record' \in Record
        /\ record'.candidates = [record.candidates EXCEPT ![x] = binding]
        /\ record'.preference = record.preference
        /\ record'.lifecycle = record.lifecycle /\ record'.epoch = record.epoch
    BY <1>0, <1>1, <2>1 DEF Notify, Record
  <2>3. binding # Undeclared
    BY <2>1, UndeclaredType
  <2>4. DeclaredHasAuthority' /\ PreferenceIsCandidate'
    BY <1>0, <2>1, <2>2, <2>3
       DEF CurrentnessInv, DeclaredHasAuthority, PreferenceIsCandidate
  <2> QED
    BY <1>1, <2>2, <2>4 DEF Notify, CurrentnessInv, CurrentnessTypeOK, ActiveInEpoch
<1>2. ASSUME NEW x \in Candidates, Observe(x)
      PROVE  CurrentnessInv'
  BY <1>2 DEF Observe, CurrentnessInv, CurrentnessTypeOK, DeclaredHasAuthority,
              PreferenceIsCandidate, ActiveInEpoch
<1>3. ASSUME NEW x \in Candidates, CommitTo(x)
      PROVE  CurrentnessInv'
  <2>1. record.candidates[x] # Undeclared
    BY <1>3 DEF CommitTo, Undeclared
  <2> QED
    BY <1>3, <2>1, MovedIsCurrent DEF CommitTo
<1>4. CASE RollBack
  <2>1. record.stable \in Candidates
    BY <1>0, <1>4 DEF RollBack, Record
  <2>2. record.candidates[record.stable] # Undeclared
    BY <1>4 DEF RollBack, MayCarry, Undeclared
  <2> QED
    BY <1>4, <2>1, <2>2, MovedIsCurrent DEF RollBack
<1>5. ASSUME NEW lifecycle \in Lifecycles, Transition(lifecycle)
      PROVE  CurrentnessInv'
  <2>1. /\ record' = BroughtTo(lifecycle) /\ coordinatorEpoch \in Nat
        /\ UNCHANGED <<observed, ticks, coordinatorEpoch>>
    BY <1>5 DEF Transition, CurrentnessInv, CurrentnessTypeOK
  <2>2. /\ record' \in Record
        /\ record'.candidates = record.candidates /\ record'.preference = record.preference
        /\ record'.epoch = coordinatorEpoch
    BY <1>0, <2>1 DEF BroughtTo, Record
  <2> QED
    BY <2>1, <2>2 DEF CurrentnessInv, CurrentnessTypeOK, DeclaredHasAuthority,
                      PreferenceIsCandidate, ActiveInEpoch
<1>6. CASE NextEpoch
  <2>1. /\ record' \in Record
        /\ record'.candidates = record.candidates /\ record'.preference = record.preference
        /\ record'.lifecycle # "ACTIVE"
    BY <1>0, <1>6 DEF NextEpoch, Record, Lifecycles
  <2>2. coordinatorEpoch' \in Nat /\ UNCHANGED <<observed, ticks>>
    BY <1>6 DEF NextEpoch, CurrentnessInv, CurrentnessTypeOK
  <2> QED
    BY <2>1, <2>2 DEF CurrentnessInv, CurrentnessTypeOK, DeclaredHasAuthority,
                      PreferenceIsCandidate, ActiveInEpoch
<1>7. CASE PassTime
  BY <1>7 DEF PassTime, CurrentnessInv, CurrentnessTypeOK, DeclaredHasAuthority,
              PreferenceIsCandidate, ActiveInEpoch
<1>8. CASE UNCHANGED currentnessVars
  BY <1>8 DEF currentnessVars, CurrentnessInv, CurrentnessTypeOK, DeclaredHasAuthority,
              PreferenceIsCandidate, ActiveInEpoch
<1> QED
  BY <1>1, <1>2, <1>3, <1>4, <1>5, <1>6, <1>7, <1>8 DEF CurrentnessNext, Lifecycles

-----------------------------------------------------------------------------
(* The verdict is CURRENT exactly when no condition was noted. *)

Reasons ==
  {"REVALIDATION_REQUIRED", "STALE_EPOCH", "STALE_PATH_AUTHORITY", "STALE_ROUTE",
   "STALE_MULTIPATH_SET", "STALE_EVIDENCE", "HOLD_DOWN_ACTIVE", "COOLDOWN_ACTIVE"}

LEMMA NoteType ==
  ASSUME NEW blocked \in BOOLEAN, NEW value \in Reasons
  PROVE  /\ Note(blocked, value) \in Seq(Reasons)
         /\ Note(blocked, value) = <<>> <=> ~blocked
BY DEF Note

LEMMA NothingJoined ==
  ASSUME NEW s \in Seq(Reasons), NEW t \in Seq(Reasons)
  PROVE  /\ s \o t \in Seq(Reasons)
         /\ s \o t = <<>> <=> s = <<>> /\ t = <<>>
         /\ s = <<>> => s \o t = t
OBVIOUS

\* The blockers of the preferred path, and when there are none.
LEMMA PathBlockersType ==
  ASSUME CurrentnessInv, record.preference.path # Nowhere
  PROVE  LET preference == record.preference
             binding == record.candidates[preference.path]
         IN  /\ PathBlockers(preference) \in Seq(Reasons)
             /\ PathBlockers(preference) = <<>> <=>
                  /\ binding.legal /\ binding.authority = preference.authority
                  /\ binding.route
                  /\ record.target.multipath =>
                       binding.set.current /\ binding.set.generation = preference.set
                  /\ binding.available
<1> DEFINE preference == record.preference
           binding == record.candidates[preference.path]
           authority == ~binding.legal \/ binding.authority # preference.authority
           set == /\ record.target.multipath
                  /\ ~binding.set.current \/ binding.set.generation # preference.set
           n1 == Note(authority, "STALE_PATH_AUTHORITY")
           n2 == Note(~binding.route, "STALE_ROUTE")
           n3 == Note(set, "STALE_MULTIPATH_SET")
           n4 == Note(~binding.available, "REVALIDATION_REQUIRED")
<1>1. binding # Undeclared /\ binding \in BindingFact /\ record.target \in PolicyTarget
  BY TargetsAssumption
     DEF CurrentnessInv, CurrentnessTypeOK, PreferenceIsCandidate, Record
<1>2. PathBlockers(preference) = ((n1 \o n2) \o n3) \o n4
  BY <1>1 DEF PathBlockers
<1>3. /\ binding.legal \in BOOLEAN /\ binding.route \in BOOLEAN
      /\ binding.available \in BOOLEAN /\ binding.set.current \in BOOLEAN
      /\ record.target.multipath \in BOOLEAN
  BY <1>1 DEF BindingFact, PolicyTarget
<1>4. /\ authority \in BOOLEAN /\ set \in BOOLEAN
      /\ (~binding.route) \in BOOLEAN /\ (~binding.available) \in BOOLEAN
  BY <1>3
<1>5. /\ n1 \in Seq(Reasons) /\ (n1 = <<>> <=> ~authority)
      /\ n2 \in Seq(Reasons) /\ (n2 = <<>> <=> binding.route)
      /\ n3 \in Seq(Reasons) /\ (n3 = <<>> <=> ~set)
      /\ n4 \in Seq(Reasons) /\ (n4 = <<>> <=> binding.available)
  <2> HIDE DEF authority, set, binding
  <2> QED
    BY <1>4, <1>3, NoteType DEF Reasons
<1> HIDE DEF n1, n2, n3, n4
<1>6. /\ n1 \o n2 \in Seq(Reasons) /\ (n1 \o n2 = <<>> <=> n1 = <<>> /\ n2 = <<>>)
  BY <1>5, NothingJoined
<1>7. /\ (n1 \o n2) \o n3 \in Seq(Reasons)
      /\ (n1 \o n2) \o n3 = <<>> <=> n1 = <<>> /\ n2 = <<>> /\ n3 = <<>>
  BY <1>5, <1>6, NothingJoined
<1>8. /\ ((n1 \o n2) \o n3) \o n4 \in Seq(Reasons)
      /\ ((n1 \o n2) \o n3) \o n4 = <<>> <=>
           n1 = <<>> /\ n2 = <<>> /\ n3 = <<>> /\ n4 = <<>>
  BY <1>5, <1>7, NothingJoined
<1> QED
  BY <1>2, <1>3, <1>5, <1>8

(***************************************************************************)
(* With a preference, what is noted before the timers is nothing exactly   *)
(* when the policy is in service in the epoch, its path is bound as it was *)
(* committed, and what it requires was observed.                           *)
(***************************************************************************)
LEMMA BlockersType ==
  ASSUME CurrentnessInv, record.preference.path # Nowhere
  PROVE  \E before \in Seq(Reasons), after \in Seq({"HOLD_DOWN_ACTIVE", "COOLDOWN_ACTIVE"}) :
           /\ Blockers = before \o after
           /\ before = <<>> <=>
                /\ record.lifecycle = "ACTIVE" /\ record.epoch = coordinatorEpoch
                /\ PathBlockers(record.preference) = <<>>
                /\ record.target.required => FreshlyObserved(record.preference.path)
<1> DEFINE x == record.preference.path
           timers == {"HOLD_DOWN_ACTIVE", "COOLDOWN_ACTIVE"}
           stale == record.preference.path # Nowhere /\ record.target.required
                      /\ ~FreshlyObserved(record.preference.path)
           n1 == Note(record.lifecycle # "ACTIVE", "REVALIDATION_REQUIRED")
           n2 == Note(record.lifecycle = "REVOKED", "REVALIDATION_REQUIRED")
           n3 == Note(record.epoch # coordinatorEpoch, "STALE_EPOCH")
           n4 == PathBlockers(record.preference)
           n5 == Note(stale, "STALE_EVIDENCE")
           n6 == Note(ticks < record.holdDown, "HOLD_DOWN_ACTIVE")
           n7 == Note(ticks < record.cooldown, "COOLDOWN_ACTIVE")
           before == (((n1 \o n2) \o n3) \o n4) \o n5
<1>1. Blockers = (before \o n6) \o n7
  BY DEF Blockers
<1>2. record \in Record /\ record.target \in PolicyTarget
  BY TargetsAssumption DEF CurrentnessInv, CurrentnessTypeOK, Record
<1>3. stale \in BOOLEAN /\ (stale <=> record.target.required /\ ~FreshlyObserved(x))
  BY <1>2 DEF PolicyTarget, FreshlyObserved
<1>4. n4 \in Seq(Reasons)
  BY PathBlockersType
<1>5. /\ n1 \in Seq(Reasons) /\ (n1 = <<>> <=> record.lifecycle = "ACTIVE")
      /\ n2 \in Seq(Reasons) /\ (n2 = <<>> <=> record.lifecycle # "REVOKED")
      /\ n3 \in Seq(Reasons) /\ (n3 = <<>> <=> record.epoch = coordinatorEpoch)
      /\ n5 \in Seq(Reasons) /\ (n5 = <<>> <=> ~stale)
  <2> HIDE DEF stale
  <2> QED
    BY <1>3, NoteType DEF Reasons
<1>6. n6 \in Seq(timers) /\ n7 \in Seq(timers)
  <2>1. <<>> \in Seq(timers) /\ \A value \in timers : <<value>> \in Seq(timers)
    OBVIOUS
  <2> HIDE DEF timers
  <2>2. "HOLD_DOWN_ACTIVE" \in timers /\ "COOLDOWN_ACTIVE" \in timers
    BY DEF timers
  <2>3. \A blocked \in BOOLEAN : \A value \in timers : Note(blocked, value) \in Seq(timers)
    BY <2>1 DEF Note
  <2>4. (ticks < record.holdDown) \in BOOLEAN /\ (ticks < record.cooldown) \in BOOLEAN
    OBVIOUS
  <2> QED
    BY <2>2, <2>3, <2>4
<1> HIDE DEF n1, n2, n3, n4, n5, n6, n7, stale
<1>7. /\ n1 \o n2 \in Seq(Reasons) /\ (n1 \o n2 = <<>> <=> n1 = <<>> /\ n2 = <<>>)
  BY <1>5, NothingJoined
<1>8. /\ (n1 \o n2) \o n3 \in Seq(Reasons)
      /\ (n1 \o n2) \o n3 = <<>> <=> n1 = <<>> /\ n2 = <<>> /\ n3 = <<>>
  BY <1>5, <1>7, NothingJoined
<1>9. /\ ((n1 \o n2) \o n3) \o n4 \in Seq(Reasons)
      /\ ((n1 \o n2) \o n3) \o n4 = <<>> <=>
           n1 = <<>> /\ n2 = <<>> /\ n3 = <<>> /\ n4 = <<>>
  BY <1>4, <1>8, NothingJoined
<1>10. /\ before \in Seq(Reasons)
       /\ before = <<>> <=> n1 = <<>> /\ n2 = <<>> /\ n3 = <<>> /\ n4 = <<>> /\ n5 = <<>>
  BY <1>5, <1>9, NothingJoined
<1> HIDE DEF before
<1>11. n6 \o n7 \in Seq(timers) /\ (before \o n6) \o n7 = before \o (n6 \o n7)
  <2>1. timers \subseteq Reasons
    BY DEF Reasons
  <2>2. n6 \in Seq(Reasons) /\ n7 \in Seq(Reasons)
    BY <1>6, <2>1
  <2> QED
    BY <1>6, <1>10, <2>2
<1>12. before = <<>> <=>
         /\ record.lifecycle = "ACTIVE" /\ record.epoch = coordinatorEpoch
         /\ PathBlockers(record.preference) = <<>>
         /\ record.target.required => FreshlyObserved(x)
  BY <1>3, <1>5, <1>10 DEF n4
<1> QED
  BY <1>1, <1>10, <1>11, <1>12

LEMMA CurrentIs == CurrentnessInv => CurrentIsEligible
<1> SUFFICES ASSUME CurrentnessInv, record.preference.path # Nowhere
             PROVE  LET x == record.preference.path IN
                      /\ Verdict = "CURRENT" => IsEligible(x) \/ Overlooked(x)
                      /\ record.lifecycle = "ACTIVE" /\ IsEligible(x) /\ Kept(x) =>
                           Verdict \in {"CURRENT", "HOLD_DOWN_ACTIVE", "COOLDOWN_ACTIVE"}
  BY DEF CurrentIsEligible
<1> DEFINE x == record.preference.path
           binding == record.candidates[x]
           timers == {"HOLD_DOWN_ACTIVE", "COOLDOWN_ACTIVE"}
<1>1. PICK before \in Seq(Reasons), after \in Seq(timers) :
        /\ Blockers = before \o after
        /\ before = <<>> <=>
             /\ record.lifecycle = "ACTIVE" /\ record.epoch = coordinatorEpoch
             /\ PathBlockers(record.preference) = <<>>
             /\ record.target.required => FreshlyObserved(x)
  BY BlockersType
<1>2. PathBlockers(record.preference) = <<>> <=>
        /\ binding.legal /\ binding.authority = record.preference.authority
        /\ binding.route
        /\ record.target.multipath =>
             binding.set.current /\ binding.set.generation = record.preference.set
        /\ binding.available
  BY PathBlockersType
<1>3. Verdict = "CURRENT" => IsEligible(x) \/ Overlooked(x)
  <2> SUFFICES ASSUME Verdict = "CURRENT", ~Overlooked(x) PROVE IsEligible(x)
    OBVIOUS
  <2>1. after \in Seq(Reasons) /\ Blockers \in Seq(Reasons)
    <3>1. timers \subseteq Reasons
      BY DEF Reasons
    <3>2. after \in Seq(Reasons)
      BY <3>1
    <3> QED
      BY <1>1, <3>2, NothingJoined
  <2>2. Blockers = <<>>
    <3> SUFFICES ASSUME Blockers # <<>> PROVE FALSE
      OBVIOUS
    <3>1. Head(Blockers) \in Reasons
      BY <2>1
    <3> QED
      BY <3>1 DEF Verdict, Reasons
  <2>3. before = <<>>
    BY <1>1, <2>1, <2>2, NothingJoined
  <2>4. FreshlyObserved(x)
    BY <1>1, <2>3 DEF Overlooked
  <2>5. MayCarry(x)
    BY <1>1, <1>2, <2>3 DEF MayCarry, Overlooked
  <2> QED
    BY <2>4, <2>5 DEF IsEligible
<1>4. record.lifecycle = "ACTIVE" /\ IsEligible(x) /\ Kept(x) =>
        Verdict \in {"CURRENT", "HOLD_DOWN_ACTIVE", "COOLDOWN_ACTIVE"}
  <2> SUFFICES ASSUME record.lifecycle = "ACTIVE", IsEligible(x), Kept(x)
               PROVE  Verdict \in {"CURRENT", "HOLD_DOWN_ACTIVE", "COOLDOWN_ACTIVE"}
    OBVIOUS
  <2>1. record.epoch = coordinatorEpoch
    BY DEF CurrentnessInv, ActiveInEpoch
  <2>2. PathBlockers(record.preference) = <<>>
    BY <1>2 DEF IsEligible, MayCarry, Kept
  <2>3. before = <<>>
    BY <1>1, <2>1, <2>2 DEF IsEligible
  <2>4. Blockers = after
    BY <1>1, <2>3
  <2>5. CASE after = <<>>
    BY <2>4, <2>5 DEF Verdict
  <2>6. CASE after # <<>>
    <3>1. Head(after) \in timers
      BY <2>6
    <3> QED
      BY <2>4, <2>6, <3>1 DEF Verdict
  <2> QED
    BY <2>5, <2>6
<1> QED
  BY <1>3, <1>4

(***************************************************************************)
(* What a snapshot calls CURRENT an evaluation would find eligible, but    *)
(* for what the verdict overlooks; and it calls nothing else stale.        *)
(***************************************************************************)
THEOREM CurrentnessAgrees == CurrentnessSpec => []CurrentIsEligible
<1>1. CurrentnessInit => CurrentnessInv
  BY InitCurrent
<1>2. CurrentnessInv /\ [CurrentnessNext]_currentnessVars => CurrentnessInv'
  BY StepCurrent
<1>3. CurrentnessInv => CurrentIsEligible
  BY CurrentIs
<1> QED
  BY <1>1, <1>2, <1>3, PTL DEF CurrentnessSpec
=============================================================================
