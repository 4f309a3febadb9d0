-------------------------- MODULE WipeRoundProofs --------------------------
(***************************************************************************)
(* Theorems about WipeRound, for any members, any rule, and any number of  *)
(* cycles under way: its type, that a passed round is authorised, that a   *)
(* wiped member stays wiped, and that a round is decided once.             *)
(***************************************************************************)
EXTENDS WipeRound, FiniteSetTheorems, TLAPS

-----------------------------------------------------------------------------
(***************************************************************************)
(* The inductive invariant, in parts.                                      *)
(***************************************************************************)

\* An act is there only where the round passed.
ActsFollowDecisions == \A m \in Members : act[m] # "none" => outcome[m] = "passed"

\* A yes that anybody holds or was served was cast.
CastsAreReal ==
    /\ \A m, v \in Members : votes[m][v] = "yes" => v \in said
    /\ \A m, v \in Members :
         cycle[m].phase = "answered" /\ cycle[m].answer.casts[v] = "yes" => v \in said

\* Whoever is seen to have applied, or is said to have, did.
EvidenceIsTrue ==
    /\ \A m, p \in Members : p \in evidence[m] => act[p] = "done"
    /\ \A m \in Members :
         cycle[m].phase = "answered" /\ cycle[m].answer.applied
             => act[cycle[m].peer] = "done"

SendsTo(x, m) == cycle[x].phase = "sending" /\ cycle[x].peer = m

\* While an act runs, no turn of this member's and nothing sent to it is open.
RunsAlone ==
    \A m \in Members : act[m] = "running" =>
        ~InTurn(m) /\ \A x \in Members : ~SendsTo(x, m)

\* A member that was wiped takes its turn only with members it saw wiped.
TurnsWithWiped ==
    \A m \in Members : act[m] = "done" /\ InTurn(m) => cycle[m].peer \in evidence[m]

\* Nothing that could bring its rows back is there or on its way to it.
NothingOnItsWay ==
    \A m \in Members : act[m] = "done" =>
        /\ ~rows[m]
        /\ cycle[m].phase = "page" => ~cycle[m].rows
        /\ \A x \in Members : ~SendsTo(x, m)

Typed == RoundsTypeOK /\ ActsFollowDecisions
VotesInv == CastsAreReal /\ PassedIsAuthorised
Clean == TurnsWithWiped /\ NothingOnItsWay
WipedInv == EvidenceIsTrue /\ RunsAlone /\ (NothingPruned => Clean)

-----------------------------------------------------------------------------
(***************************************************************************)
(* What a cycle is, and what settling does.                                *)
(***************************************************************************)
LEMMA CycleShape ==
  ASSUME NEW c \in Cycles
  PROVE  /\ c.phase = "answered" =>
              /\ c.peer \in Members /\ c.served \in BOOLEAN /\ c.answer \in Answers
         /\ c.phase \in {"casting", "turn", "sending"} =>
              c.peer \in Members /\ c = At(c.peer, c.phase)
         /\ c.phase = "page" => c.peer \in Members /\ c.rows \in BOOLEAN
  BY DEF Cycles, Idle, At

LEMMA CycleTypes ==
  /\ Idle \in Cycles /\ Idle.phase = "idle"
  /\ \A p \in Members : \A ph \in {"casting", "turn", "sending"} :
        At(p, ph) \in Cycles /\ At(p, ph).phase = ph /\ At(p, ph).peer = p
  BY DEF Cycles, Idle, At

LEMMA AnswerTypes ==
  /\ NoCasts \in Casts
  /\ NotServed \in Answers
  BY DEF NoCasts, NotServed, Casts, Answers

LEMMA VerdictType ==
  ASSUME NEW m, NEW casts
  PROVE  Verdict(m, casts) \in Outcomes
  BY DEF Verdict, Outcomes

\* What settleRounds leaves is of its type, and concluded just when decided.
LEMMA SettleTypes ==
  ASSUME RoundsTypeOK, NEW m \in Members, NEW casts \in Casts, Settle(m, casts)
  PROVE  /\ round' \in [Members -> Rounds]
         /\ outcome' \in [Members -> Outcomes]
         /\ votes' \in [Members -> Casts]
         /\ act' \in [Members -> {"none", "registered", "running", "done"}]
         /\ \A x \in Members :
              round'[x] = "concluded" <=> (round'[x] # "none" /\ outcome'[x] # "none")
<1>1. Verdict(m, casts) \in Outcomes
  BY VerdictType
<1> QED
  BY <1>1 DEF Settle, RoundsTypeOK, Rounds

\* An act is registered only where none was and the round passed.
LEMMA SettleActs ==
  ASSUME RoundsTypeOK, ActsFollowDecisions, NEW m \in Members, NEW casts,
         Settle(m, casts), outcome[m] = "none"
  PROVE  /\ \A x \in Members : act'[x] # "none" => outcome'[x] = "passed"
         /\ act[m] = "none"
         /\ \A x \in Members : act'[x] # act[x] => x = m /\ act'[x] = "registered"
  BY DEF Settle, RoundsTypeOK, ActsFollowDecisions

LEMMA MergedType ==
  ASSUME NEW held \in Casts, NEW served \in Casts
  PROVE  Merged(held, served) \in Casts
  BY DEF Merged, Casts

\* takeServedRounds settles only a round that is not decided here.
LEMMA TakeServedCases ==
  ASSUME RoundsTypeOK, NEW m \in Members, TakeServed(m)
  PROVE  /\ cycle[m].phase = "answered" /\ cycle[m].peer \in Members
         /\ cycle[m].answer \in Answers
         /\ evidence' = [evidence EXCEPT ![m] =
                            WithEvidence(m, cycle[m].peer, cycle[m].answer)]
         /\ cycle' = [cycle EXCEPT ![m] = At(cycle[m].peer, "casting")]
         /\ UNCHANGED <<rule, late, rows, said>>
         /\ \/ UNCHANGED <<round, outcome, votes, act>>
            \/ /\ outcome[m] = "none"
               /\ \E casts \in Casts :
                    /\ casts \in {votes[m], Merged(votes[m], cycle[m].answer.casts)}
                    /\ Settle(m, casts)
<1> DEFINE p == cycle[m].peer
           answer == cycle[m].answer
           adopts == round[m] = "none" /\ ~AdoptionRefused(m)
           casts == IF adopts \/ Open(m) THEN Merged(votes[m], answer.casts) ELSE votes[m]
<1>1. cycle[m].phase = "answered" /\ cycle[m] \in Cycles
  BY DEF TakeServed, RoundsTypeOK
<1>2. p \in Members /\ answer \in Answers
  BY <1>1, CycleShape
<1>3. votes[m] \in Casts /\ answer.casts \in Casts
  BY <1>2 DEF RoundsTypeOK, Answers
<1>4. casts \in Casts /\ casts \in {votes[m], Merged(votes[m], answer.casts)}
  BY <1>3, MergedType
<1>5. adopts \/ round[m] = "open" => outcome[m] = "none"
  BY DEF AdoptionRefused, RoundsTypeOK
<1>6. UNCHANGED <<round, outcome, votes, act>>
      \/ ((adopts \/ round[m] = "open") /\ Settle(m, casts))
  BY DEF TakeServed
<1>7. /\ evidence' = [evidence EXCEPT ![m] = WithEvidence(m, p, answer)]
      /\ cycle' = [cycle EXCEPT ![m] = At(p, "casting")]
      /\ UNCHANGED <<rule, late, rows, said>>
  BY DEF TakeServed
<1> HIDE DEF adopts, casts
<1> QED
  BY <1>1, <1>2, <1>4, <1>5, <1>6, <1>7

-----------------------------------------------------------------------------
(***************************************************************************)
(* Types, and acts only where the round passed.                            *)
(***************************************************************************)
CycleStep(m) ==
  LoseAnswer(m) \/ OpenTurn(m) \/ AskRows(m) \/ SendRows(m) \/ EndCycle(m)

\* A cycle that only moves on stays of its type (sync/engine.ts).
LEMMA CycleStepTypes ==
  ASSUME RoundsTypeOK, NEW m \in Members, CycleStep(m)
  PROVE  /\ cycle' \in [Members -> Cycles]
         /\ UNCHANGED <<rule, round, outcome, votes, late, act, evidence, rows, said>>
<1>1. cycle \in [Members -> Cycles] /\ rows \in [Members -> BOOLEAN]
  BY DEF RoundsTypeOK
<1>2. CASE LoseAnswer(m)
  <2>1. cycle[m].peer \in Members
    BY <1>1, <1>2, CycleShape DEF LoseAnswer
  <2> QED
    BY <1>1, <1>2, <2>1, CycleTypes DEF LoseAnswer
<1>3. CASE OpenTurn(m)
  <2>1. cycle[m].peer \in Members
    BY <1>1, <1>3, CycleShape DEF OpenTurn
  <2> QED
    BY <1>1, <1>3, <2>1, CycleTypes DEF OpenTurn
<1>4. CASE AskRows(m)
  <2>1. cycle[m].peer \in Members
    BY <1>1, <1>4, CycleShape DEF AskRows
  <2>2. [phase |-> "page", peer |-> cycle[m].peer, rows |-> rows[cycle[m].peer]] \in Cycles
    BY <1>1, <2>1 DEF Cycles
  <2> QED
    BY <1>1, <1>4, <2>2 DEF AskRows
<1>5. CASE SendRows(m)
  <2>1. cycle[m].peer \in Members
    BY <1>1, <1>5, CycleShape DEF SendRows
  <2> QED
    BY <1>1, <1>5, <2>1, CycleTypes DEF SendRows
<1>6. CASE EndCycle(m)
  BY <1>1, <1>6, CycleTypes DEF EndCycle
<1> QED
  BY <1>2, <1>3, <1>4, <1>5, <1>6 DEF CycleStep

\* Every step keeps the types, and the acts to passed rounds.
LEMMA TypedStep == Typed /\ [Next]_vars => Typed'
<1> SUFFICES ASSUME Typed, [Next]_vars PROVE Typed'
  OBVIOUS
<1> USE DEF Typed
<1>1. CASE ProposeRound
  <2>1. [NoCasts EXCEPT ![Proposer] = "yes"] \in Casts /\ Proposer \in Members
    BY MembersAssumed DEF NoCasts, Casts
  <2>2. outcome[Proposer] = "none" /\ Settle(Proposer, [NoCasts EXCEPT ![Proposer] = "yes"])
    BY <1>1 DEF ProposeRound
  <2>3. /\ said' = said \cup {Proposer}
        /\ UNCHANGED <<rule, late, evidence, rows, cycle>>
    BY <1>1 DEF ProposeRound
  <2>4. RoundsTypeOK'
    BY <2>1, <2>2, <2>3, SettleTypes DEF RoundsTypeOK
  <2> QED
    BY <2>1, <2>2, <2>4, SettleActs DEF ActsFollowDecisions
<1>2. ASSUME NEW m \in Members, NEW vote \in {"yes", "veto"}, CastVote(m, vote)
      PROVE  Typed'
  <2>1. [votes[m] EXCEPT ![m] = vote] \in Casts
    BY DEF RoundsTypeOK, Casts
  <2>2. outcome[m] = "none" /\ Settle(m, [votes[m] EXCEPT ![m] = vote])
    BY <1>2 DEF CastVote, Open, RoundsTypeOK
  <2>3. /\ said' \subseteq Members
        /\ UNCHANGED <<rule, late, evidence, rows, cycle>>
    BY <1>2 DEF CastVote, RoundsTypeOK
  <2>4. RoundsTypeOK'
    BY <2>1, <2>2, <2>3, SettleTypes DEF RoundsTypeOK
  <2> QED
    BY <2>1, <2>2, <2>4, SettleActs DEF ActsFollowDecisions
<1>3. ASSUME NEW m \in Members, DeadlinePasses(m)
      PROVE  Typed'
  BY <1>3 DEF DeadlinePasses, RoundsTypeOK, ActsFollowDecisions
<1>4. ASSUME NEW m \in Members, ExpiryTick(m)
      PROVE  Typed'
  <2>1. Verdict(m, votes[m]) \in Outcomes
    BY VerdictType
  <2>2. RoundsTypeOK'
    BY <1>4, <2>1, AnswerTypes DEF ExpiryTick, RoundsTypeOK, Rounds
  <2>3. ActsFollowDecisions'
    BY <1>4 DEF ExpiryTick, RoundsTypeOK, ActsFollowDecisions
  <2> QED
    BY <2>2, <2>3
<1>5. ASSUME NEW m \in Members, NEW p \in Members, AskVotes(m, p)
      PROVE  Typed'
  <2> DEFINE c == [phase |-> "answered", peer |-> p, served |-> Served(p),
                   answer |-> IF Served(p)
                              THEN [casts |-> votes[p], applied |-> ServedConcluded(p)]
                              ELSE NotServed]
  <2>1. Served(p) \in BOOLEAN /\ ServedConcluded(p) \in BOOLEAN
    BY DEF Served, ServedConcluded, Applied, Passed, RoundsTypeOK
  <2>2. c.answer \in Answers
    BY <2>1, AnswerTypes DEF RoundsTypeOK, Answers
  <2>3. c \in Cycles
    BY <2>1, <2>2 DEF Cycles
  <2> HIDE DEF c
  <2>4. cycle' = [cycle EXCEPT ![m] = c]
    BY <1>5 DEF AskVotes, c
  <2>5. UNCHANGED <<rule, round, outcome, votes, late, act, evidence, rows, said>>
    BY <1>5 DEF AskVotes
  <2> QED
    BY <2>3, <2>4, <2>5 DEF RoundsTypeOK, ActsFollowDecisions
<1>6. ASSUME NEW m \in Members, TakeServed(m)
      PROVE  Typed'
  <2> DEFINE p == cycle[m].peer
             answer == cycle[m].answer
  <2>1. p \in Members /\ At(p, "casting") \in Cycles
    BY <1>6, TakeServedCases, CycleTypes
  <2>2. WithEvidence(m, p, answer) \subseteq Members
    BY <2>1 DEF WithEvidence, RoundsTypeOK
  <2>3. /\ evidence' \in [Members -> SUBSET Members]
        /\ cycle' \in [Members -> Cycles]
        /\ UNCHANGED <<rule, late, rows, said>>
    BY <1>6, <2>1, <2>2, TakeServedCases DEF RoundsTypeOK
  <2>4. CASE UNCHANGED <<round, outcome, votes, act>>
    BY <2>3, <2>4 DEF RoundsTypeOK, ActsFollowDecisions
  <2>5. ASSUME outcome[m] = "none", NEW casts \in Casts, Settle(m, casts)
        PROVE  Typed'
    <3>1. RoundsTypeOK'
      BY <2>3, <2>5, SettleTypes DEF RoundsTypeOK
    <3> QED
      BY <2>5, <3>1, SettleActs DEF ActsFollowDecisions
  <2> QED
    BY <1>6, <2>4, <2>5, TakeServedCases
<1>7. ASSUME NEW m \in Members, CycleStep(m)
      PROVE  Typed'
  BY <1>7, CycleStepTypes DEF RoundsTypeOK, ActsFollowDecisions
<1>8. ASSUME NEW m \in Members, NEW v \in Members, PushCast(m, v)
      PROVE  Typed'
  <2> DEFINE p == cycle[m].peer
  <2>1. p \in Members
    BY <1>8, CycleShape DEF PushCast, RoundsTypeOK
  <2>2. [votes[p] EXCEPT ![v] = votes[m][v]] \in Casts
    BY <2>1 DEF RoundsTypeOK, Casts
  <2>3. outcome[p] = "none" /\ Settle(p, [votes[p] EXCEPT ![v] = votes[m][v]])
    BY <1>8, <2>1 DEF PushCast, Open, RoundsTypeOK
  <2>4. UNCHANGED <<rule, late, evidence, rows, cycle, said>>
    BY <1>8 DEF PushCast
  <2> HIDE DEF p
  <2>5. RoundsTypeOK'
    BY <2>1, <2>2, <2>3, <2>4, SettleTypes DEF RoundsTypeOK
  <2> QED
    BY <2>1, <2>3, <2>5, SettleActs DEF ActsFollowDecisions
<1>9. ASSUME NEW m \in Members, LandRows(m) \/ LandSent(m)
      PROVE  Typed'
  <2>1. cycle[m] \in Cycles /\ cycle[m].peer \in Members
    BY <1>9, CycleShape DEF LandRows, LandSent, RoundsTypeOK
  <2>2. cycle' \in [Members -> Cycles]
    BY <1>9, <2>1, CycleTypes DEF LandRows, LandSent, RoundsTypeOK
  <2>3. (rows[m] \/ cycle[m].rows) \in BOOLEAN /\ TRUE \in BOOLEAN
    OBVIOUS
  <2>4. rows' \in [Members -> BOOLEAN]
    BY <1>9, <2>1, <2>3, Zenon DEF LandRows, LandSent, RoundsTypeOK
  <2>5. UNCHANGED <<rule, round, outcome, votes, late, act, evidence, said>>
    BY <1>9 DEF LandRows, LandSent
  <2> QED
    BY <2>2, <2>4, <2>5 DEF RoundsTypeOK, ActsFollowDecisions
<1>10. ASSUME NEW m \in Members, StartAct(m) \/ CompleteAct(m) \/ FailAct(m)
       PROVE  Typed'
  BY <1>10 DEF StartAct, CompleteAct, FailAct, RoundsTypeOK, ActsFollowDecisions
<1>11. ASSUME NEW m \in Members, Crash(m)
       PROVE  Typed'
  BY <1>11, CycleTypes DEF Crash, RoundsTypeOK, ActsFollowDecisions
<1>12. CASE UNCHANGED vars
  BY <1>12 DEF vars, RoundsTypeOK, ActsFollowDecisions
<1> QED
  BY <1>1, <1>2, <1>3, <1>4, <1>5, <1>6, <1>7, <1>8, <1>9, <1>10, <1>11, <1>12
     DEF Next, CycleStep

-----------------------------------------------------------------------------
(***************************************************************************)
(* A passed round is authorised.                                           *)
(***************************************************************************)

\* More yeses carry a round as well (roundVerdict).
LEMMA CarriesMore ==
  ASSUME NEW some \in SUBSET Members, NEW more \in SUBSET Members,
         some \subseteq more, Carries(some)
  PROVE  Carries(more)
<1>1. IsFiniteSet(some) /\ IsFiniteSet(more) /\ Cardinality(some) <= Cardinality(more)
  BY FS_Subset, MembersAssumed
<1>2. /\ Cardinality(some) \in Nat /\ Cardinality(more) \in Nat
      /\ Cardinality(Members) \in Nat
  BY <1>1, FS_CardinalityType, MembersAssumed
<1> QED
  BY <1>1, <1>2 DEF Carries

Sayers(casts) == \A v \in Members : casts[v] = "yes" => v \in said'

\* Settling with casts that were said keeps both parts.
LEMMA SettleVotes ==
  ASSUME Typed, VotesInv, NEW m \in Members, NEW casts \in Casts,
         Settle(m, casts), Sayers(casts), said \subseteq said', said' \subseteq Members,
         outcome[m] = "none", rule' = rule
  PROVE  /\ \A x, v \in Members : votes'[x][v] = "yes" => v \in said'
         /\ PassedIsAuthorised'
<1>1. \A x \in Members : votes'[x] = IF x = m THEN casts ELSE votes[x]
  BY DEF Settle, Typed, RoundsTypeOK
<1>2. \A x \in Members :
        outcome'[x] = IF x = m THEN Verdict(m, casts) ELSE outcome[x]
  BY DEF Settle, Typed, RoundsTypeOK
<1>3. \A x, v \in Members : votes'[x][v] = "yes" => v \in said'
  BY <1>1 DEF Sayers, VotesInv, CastsAreReal
<1>4. ASSUME NEW x \in Members, outcome'[x] = "passed"
      PROVE  Carries(said) \/ Carries(Yes(casts))
  BY <1>2, <1>4 DEF VotesInv, PassedIsAuthorised, Verdict
<1>5. /\ said \in SUBSET Members /\ said' \in SUBSET Members
      /\ Yes(casts) \in SUBSET Members /\ Yes(casts) \subseteq said'
  BY DEF Typed, RoundsTypeOK, Yes, Sayers
<1>6. ASSUME NEW x \in Members, outcome'[x] = "passed"
      PROVE  Carries(said')
  BY <1>4, <1>5, <1>6, CarriesMore
<1>7. ASSUME NEW x \in Members, outcome'[x] = "passed", rule = "closed"
      PROVE  votes'[x][x] # "veto"
  BY <1>1, <1>2, <1>7 DEF VotesInv, PassedIsAuthorised, Verdict
<1>8. PassedIsAuthorised'
  BY <1>6, <1>7 DEF PassedIsAuthorised, Carries
<1> QED
  BY <1>3, <1>8

\* A step that decides nothing and takes no cast keeps both.
LEMMA QuietVotes ==
  ASSUME VotesInv, CastsAreReal', UNCHANGED <<rule, outcome, said>>,
         \A m \in Members : votes'[m][m] = "veto" => votes[m][m] = "veto"
  PROVE  VotesInv'
<1>1. \A m \in Members : outcome[m] = "passed" => Carries(said)'
  BY DEF VotesInv, PassedIsAuthorised, Carries
<1> QED
  BY <1>1 DEF VotesInv, PassedIsAuthorised

\* Every step keeps the votes real and the passed rounds authorised.
LEMMA VotesStep == Typed /\ VotesInv /\ [Next]_vars => VotesInv'
<1> SUFFICES ASSUME Typed, VotesInv, [Next]_vars PROVE VotesInv'
  OBVIOUS
<1>0. RoundsTypeOK /\ CastsAreReal /\ PassedIsAuthorised
  BY DEF Typed, VotesInv
<1>1. CASE ProposeRound
  <2> DEFINE casts == [NoCasts EXCEPT ![Proposer] = "yes"]
  <2>1. Proposer \in Members /\ casts \in Casts
    BY MembersAssumed DEF NoCasts, Casts
  <2>2. /\ Settle(Proposer, casts) /\ outcome[Proposer] = "none"
        /\ said' = said \cup {Proposer} /\ UNCHANGED <<rule, cycle>>
    BY <1>1 DEF ProposeRound
  <2>3. Sayers(casts) /\ said \subseteq said' /\ said' \subseteq Members
    BY <1>0, <2>1, <2>2 DEF Sayers, NoCasts, RoundsTypeOK
  <2> HIDE DEF casts
  <2>4. (\A x, v \in Members : votes'[x][v] = "yes" => v \in said') /\ PassedIsAuthorised'
    BY <2>1, <2>2, <2>3, SettleVotes
  <2> QED
    BY <1>0, <2>2, <2>3, <2>4 DEF VotesInv, CastsAreReal
<1>2. ASSUME NEW m \in Members, NEW vote \in {"yes", "veto"}, CastVote(m, vote)
      PROVE  VotesInv'
  <2> DEFINE casts == [votes[m] EXCEPT ![m] = vote]
  <2>1. casts \in Casts
    BY <1>0 DEF RoundsTypeOK, Casts
  <2>2. /\ Settle(m, casts) /\ outcome[m] = "none"
        /\ said' = (IF vote = "yes" THEN said \cup {m} ELSE said) /\ UNCHANGED <<rule, cycle>>
    BY <1>0, <1>2 DEF CastVote, Open, RoundsTypeOK
  <2>3. said \subseteq said' /\ said' \subseteq Members
    BY <1>0, <2>2 DEF RoundsTypeOK
  <2>4. Sayers(casts)
    BY <1>0, <2>2 DEF Sayers, CastsAreReal, RoundsTypeOK, Casts
  <2> HIDE DEF casts
  <2>5. (\A x, v \in Members : votes'[x][v] = "yes" => v \in said') /\ PassedIsAuthorised'
    BY <2>1, <2>2, <2>3, <2>4, SettleVotes
  <2> QED
    BY <1>0, <2>2, <2>3, <2>5 DEF VotesInv, CastsAreReal
<1>3. ASSUME NEW m \in Members, ExpiryTick(m)
      PROVE  VotesInv'
  <2>1. CastsAreReal'
    BY <1>0, <1>3 DEF ExpiryTick, CastsAreReal, RoundsTypeOK, NoCasts
  <2>2. /\ rule' = rule /\ said' = said
        /\ \A x \in Members : outcome'[x] = "passed" => outcome[x] = "passed"
    BY <1>0, <1>3 DEF ExpiryTick, RoundsTypeOK, Verdict
  <2>3. \A x \in Members : votes'[x][x] = "veto" => votes[x][x] = "veto"
    BY <1>0, <1>3 DEF ExpiryTick, RoundsTypeOK, NoCasts
  <2> QED
    BY <1>0, <2>1, <2>2, <2>3 DEF VotesInv, PassedIsAuthorised, Carries
<1>4. ASSUME NEW m \in Members, NEW p \in Members, AskVotes(m, p)
      PROVE  VotesInv'
  <2>1. \A x \in Members : x # m => cycle'[x] = cycle[x]
    BY <1>0, <1>4 DEF AskVotes, RoundsTypeOK
  <2>2. cycle'[m].answer.casts = votes[p] \/ cycle'[m].answer.casts = NoCasts
    BY <1>0, <1>4 DEF AskVotes, RoundsTypeOK, NotServed
  <2>3. UNCHANGED <<rule, outcome, votes, said>>
    BY <1>4 DEF AskVotes
  <2>4. CastsAreReal'
    BY <1>0, <2>1, <2>2, <2>3 DEF CastsAreReal, NoCasts
  <2> QED
    BY <2>3, <2>4, QuietVotes
<1>5. ASSUME NEW m \in Members, TakeServed(m)
      PROVE  VotesInv'
  <2> DEFINE served == cycle[m].answer.casts
  <2>1. cycle[m].phase = "answered" /\ UNCHANGED <<rule, said>>
    BY <1>0, <1>5, TakeServedCases
  <2>2. \A x \in Members : cycle'[x].phase = "answered" => cycle'[x] = cycle[x]
    BY <1>0, <1>5, TakeServedCases, CycleTypes DEF RoundsTypeOK
  <2>3. CASE UNCHANGED <<round, outcome, votes, act>>
    BY <1>0, <2>1, <2>2, <2>3, QuietVotes DEF CastsAreReal
  <2>4. ASSUME outcome[m] = "none", NEW casts \in Casts,
               casts \in {votes[m], Merged(votes[m], served)}, Settle(m, casts)
        PROVE  VotesInv'
    <3>1. Sayers(casts)
      BY <1>0, <2>1, <2>4 DEF Sayers, Merged, CastsAreReal
    <3>2. said \subseteq said' /\ said' \subseteq Members
      BY <1>0, <2>1 DEF RoundsTypeOK
    <3>3. (\A x, v \in Members : votes'[x][v] = "yes" => v \in said') /\ PassedIsAuthorised'
      BY <2>1, <2>4, <3>1, <3>2, SettleVotes
    <3> QED
      BY <1>0, <2>1, <2>2, <3>3 DEF VotesInv, CastsAreReal
  <2> QED
    BY <1>0, <1>5, <2>3, <2>4, TakeServedCases
<1>6. ASSUME NEW m \in Members, NEW v \in Members, PushCast(m, v)
      PROVE  VotesInv'
  <2> DEFINE p == cycle[m].peer
             casts == [votes[p] EXCEPT ![v] = votes[m][v]]
  <2>1. p \in Members
    BY <1>0, <1>6, CycleShape DEF PushCast, RoundsTypeOK
  <2>2. casts \in Casts
    BY <1>0, <2>1 DEF RoundsTypeOK, Casts
  <2>3. /\ Settle(p, casts) /\ outcome[p] = "none"
        /\ UNCHANGED <<rule, cycle, said>>
    BY <1>0, <1>6, <2>1 DEF PushCast, Open, RoundsTypeOK
  <2>4. Sayers(casts) /\ said \subseteq said' /\ said' \subseteq Members
    BY <1>0, <2>1, <2>3 DEF Sayers, CastsAreReal, RoundsTypeOK, Casts
  <2> HIDE DEF p, casts
  <2>5. (\A x, w \in Members : votes'[x][w] = "yes" => w \in said') /\ PassedIsAuthorised'
    BY <2>1, <2>2, <2>3, <2>4, SettleVotes
  <2> QED
    BY <1>0, <2>3, <2>5 DEF VotesInv, CastsAreReal
<1>7. ASSUME UNCHANGED <<rule, outcome, votes, said>>,
             \A x \in Members : cycle'[x].phase = "answered" => cycle'[x] = cycle[x]
      PROVE  VotesInv'
  BY <1>0, <1>7, QuietVotes DEF CastsAreReal
<1>8. ASSUME NEW m \in Members,
             \/ DeadlinePasses(m) \/ CycleStep(m) \/ LandRows(m) \/ LandSent(m)
             \/ StartAct(m) \/ CompleteAct(m) \/ FailAct(m) \/ Crash(m)
      PROVE  VotesInv'
  <2>1. UNCHANGED <<rule, outcome, votes, said>>
    BY <1>8 DEF DeadlinePasses, CycleStep, LoseAnswer, OpenTurn, AskRows, SendRows, EndCycle,
                LandRows, LandSent, StartAct, CompleteAct, FailAct, Crash
  <2>2. \A x \in Members : cycle'[x].phase = "answered" => cycle'[x] = cycle[x]
    <3>1. CASE DeadlinePasses(m) \/ StartAct(m) \/ CompleteAct(m) \/ FailAct(m)
      BY <3>1 DEF DeadlinePasses, StartAct, CompleteAct, FailAct
    <3>2. CASE CycleStep(m)
      BY <1>0, <3>2 DEF CycleStep, LoseAnswer, OpenTurn, AskRows, SendRows, EndCycle,
                        RoundsTypeOK, At, Idle
    <3>3. CASE LandRows(m) \/ LandSent(m) \/ Crash(m)
      BY <1>0, <3>3 DEF LandRows, LandSent, Crash, RoundsTypeOK, At, Idle
    <3> QED
      BY <1>8, <3>1, <3>2, <3>3
  <2> QED
    BY <1>7, <2>1, <2>2
<1>9. CASE UNCHANGED vars
  BY <1>7, <1>9 DEF vars
<1> QED
  BY <1>1, <1>2, <1>3, <1>4, <1>5, <1>6, <1>8, <1>9 DEF Next, CycleStep

-----------------------------------------------------------------------------
(***************************************************************************)
(* A wiped member stays wiped while the round is kept.                     *)
(***************************************************************************)

\* A round that was pruned somewhere stays so: adoption asks the outcome log.
LEMMA PrunedForGood == Typed /\ [Next]_vars /\ NothingPruned' => NothingPruned
<1> SUFFICES ASSUME Typed, [Next]_vars, NothingPruned',
                    NEW n \in Members, outcome[n] # "none"
             PROVE  round[n] = "concluded"
  BY DEF NothingPruned
<1>0. RoundsTypeOK
  BY DEF Typed
<1>1. ASSUME NEW m \in Members, NEW casts, Settle(m, casts), outcome[m] = "none"
      PROVE  round[n] = "concluded"
  BY <1>0, <1>1 DEF Settle, RoundsTypeOK, NothingPruned
<1>2. CASE UNCHANGED <<round, outcome>>
  BY <1>2 DEF NothingPruned
<1>3. CASE ProposeRound
  BY <1>1, <1>3, MembersAssumed DEF ProposeRound
<1>4. ASSUME NEW m \in Members, NEW vote, CastVote(m, vote)
      PROVE  round[n] = "concluded"
  BY <1>0, <1>1, <1>4 DEF CastVote, Open, RoundsTypeOK
<1>5. ASSUME NEW m \in Members, ExpiryTick(m)
      PROVE  round[n] = "concluded"
  BY <1>0, <1>5 DEF ExpiryTick, Verdict, RoundsTypeOK, NothingPruned
<1>6. ASSUME NEW m \in Members, TakeServed(m)
      PROVE  round[n] = "concluded"
  BY <1>0, <1>1, <1>2, <1>6, TakeServedCases
<1>7. ASSUME NEW m \in Members, NEW v \in Members, PushCast(m, v)
      PROVE  round[n] = "concluded"
  <2>1. cycle[m].peer \in Members
    BY <1>0, <1>7, CycleShape DEF PushCast, RoundsTypeOK
  <2> QED
    BY <1>0, <1>1, <1>7, <2>1 DEF PushCast, Open, RoundsTypeOK
<1>8. ASSUME NEW m \in Members,
             \/ DeadlinePasses(m) \/ CycleStep(m) \/ LandRows(m) \/ LandSent(m)
             \/ StartAct(m) \/ CompleteAct(m) \/ FailAct(m) \/ Crash(m)
             \/ \E p \in Members : AskVotes(m, p)
      PROVE  UNCHANGED <<round, outcome>>
  BY <1>8 DEF DeadlinePasses, CycleStep, LoseAnswer, OpenTurn, AskRows, SendRows, EndCycle,
              LandRows, LandSent, StartAct, CompleteAct, FailAct, Crash, AskVotes
<1>9. CASE UNCHANGED vars
  BY <1>2, <1>9 DEF vars
<1> QED
  BY <1>2, <1>3, <1>4, <1>5, <1>6, <1>7, <1>8, <1>9 DEF Next, CycleStep

\* A step that finishes and starts no act, moves no row and opens no turn.
LEMMA QuietWipes ==
  ASSUME RoundsTypeOK, WipedInv, NothingPruned' => NothingPruned,
         \A x \in Members : /\ act'[x] = "done" <=> act[x] = "done"
                            /\ act'[x] = "running" => act[x] = "running",
         \A x \in Members : cycle'[x] = cycle[x] \/ cycle'[x].phase \in {"idle", "casting"},
         rows' = rows,
         \A x, p \in Members : p \in evidence'[x] => act[p] = "done",
         NothingPruned' => \A x \in Members : evidence[x] \subseteq evidence'[x]
  PROVE  WipedInv'
<1>1. EvidenceIsTrue'
  <2>1. \A x \in Members : cycle'[x].phase = "answered" => cycle'[x] = cycle[x]
    OBVIOUS
  <2>2. \A x \in Members : cycle[x].phase = "answered" => cycle[x].peer \in Members
    BY CycleShape DEF RoundsTypeOK
  <2> QED
    BY <2>1, <2>2 DEF EvidenceIsTrue, WipedInv
<1>2. RunsAlone'
  BY DEF RunsAlone, WipedInv, InTurn, SendsTo
<1>3. NothingPruned' => Clean'
  BY DEF WipedInv, Clean, TurnsWithWiped, NothingOnItsWay, InTurn, SendsTo
<1> QED
  BY <1>1, <1>2, <1>3 DEF WipedInv, Clean

\* Every step keeps the evidence true, the acts alone and the wiped members
\* clean (spaceHold, awaitSpaceTransfersDrained).
LEMMA WipedStep == Typed /\ WipedInv /\ [Next]_vars => WipedInv'
<1> SUFFICES ASSUME Typed, WipedInv, [Next]_vars PROVE WipedInv'
  OBVIOUS
<1>0. /\ RoundsTypeOK /\ ActsFollowDecisions
      /\ EvidenceIsTrue /\ RunsAlone /\ (NothingPruned => Clean)
      /\ (NothingPruned' => NothingPruned)
  BY PrunedForGood DEF Typed, WipedInv, Clean
<1>1. ASSUME NEW m \in Members, NEW casts, Settle(m, casts), outcome[m] = "none",
             UNCHANGED <<evidence, rows, cycle>>
      PROVE  WipedInv'
  <2>1. \A x \in Members : /\ act'[x] = "done" <=> act[x] = "done"
                           /\ act'[x] = "running" => act[x] = "running"
    BY <1>0, <1>1, SettleActs
  <2> QED
    BY <1>0, <1>1, <2>1, QuietWipes DEF EvidenceIsTrue
<1>2. CASE ProposeRound
  BY <1>1, <1>2, MembersAssumed DEF ProposeRound
<1>3. ASSUME NEW m \in Members, NEW vote, CastVote(m, vote)
      PROVE  WipedInv'
  BY <1>0, <1>1, <1>3 DEF CastVote, Open, RoundsTypeOK
<1>4. ASSUME NEW m \in Members, NEW v \in Members, PushCast(m, v)
      PROVE  WipedInv'
  <2>1. cycle[m].peer \in Members
    BY <1>0, <1>4, CycleShape DEF PushCast, RoundsTypeOK
  <2> QED
    BY <1>0, <1>1, <1>4, <2>1 DEF PushCast, Open, RoundsTypeOK
<1>5. ASSUME NEW m \in Members, DeadlinePasses(m)
      PROVE  WipedInv'
  BY <1>0, <1>5, QuietWipes DEF DeadlinePasses, EvidenceIsTrue
<1>6. ASSUME NEW m \in Members, ExpiryTick(m)
      PROVE  WipedInv'
  <2>1. ~NothingPruned'
    BY <1>0, <1>6 DEF ExpiryTick, Verdict, RoundsTypeOK, NothingPruned
  <2>2. \A x, p \in Members : p \in evidence'[x] => act[p] = "done"
    BY <1>0, <1>6 DEF ExpiryTick, EvidenceIsTrue, RoundsTypeOK
  <2> QED
    BY <1>0, <1>6, <2>1, <2>2, QuietWipes DEF ExpiryTick
<1>7. ASSUME NEW m \in Members, TakeServed(m)
      PROVE  WipedInv'
  <2> DEFINE seen == WithEvidence(m, cycle[m].peer, cycle[m].answer)
  <2>1. /\ cycle[m].phase = "answered" /\ cycle[m].peer \in Members
        /\ evidence' = [evidence EXCEPT ![m] = seen] /\ rows' = rows
        /\ cycle' = [cycle EXCEPT ![m] = At(cycle[m].peer, "casting")]
    BY <1>0, <1>7, TakeServedCases
  <2>2. /\ \A p \in seen : p \in evidence[m] \/ (p = cycle[m].peer /\ cycle[m].answer.applied)
        /\ evidence[m] \subseteq seen
    BY DEF WithEvidence
  <2> HIDE DEF seen
  <2>3. \A x, p \in Members : p \in evidence'[x] => act[p] = "done"
    BY <1>0, <2>1, <2>2 DEF EvidenceIsTrue, RoundsTypeOK
  <2>4. \A x \in Members : evidence[x] \subseteq evidence'[x]
    BY <1>0, <2>1, <2>2 DEF RoundsTypeOK
  <2>5. \A x \in Members : cycle'[x] = cycle[x] \/ cycle'[x].phase \in {"idle", "casting"}
    BY <1>0, <2>1, CycleTypes DEF RoundsTypeOK
  <2>6. \A x \in Members : /\ act'[x] = "done" <=> act[x] = "done"
                           /\ act'[x] = "running" => act[x] = "running"
    BY <1>0, <1>7, TakeServedCases, SettleActs
  <2> QED
    BY <1>0, <2>1, <2>3, <2>4, <2>5, <2>6, QuietWipes
<1>8. ASSUME NEW m \in Members, LoseAnswer(m) \/ EndCycle(m) \/ FailAct(m) \/ Crash(m)
      PROVE  WipedInv'
  <2>1. \A x \in Members : /\ act'[x] = "done" <=> act[x] = "done"
                           /\ act'[x] = "running" => act[x] = "running"
    BY <1>0, <1>8 DEF LoseAnswer, EndCycle, FailAct, Crash, RoundsTypeOK
  <2>2. \A x \in Members : cycle'[x] = cycle[x] \/ cycle'[x].phase \in {"idle", "casting"}
    BY <1>0, <1>8 DEF LoseAnswer, EndCycle, FailAct, Crash, RoundsTypeOK, At, Idle
  <2>3. rows' = rows /\ evidence' = evidence
    BY <1>8 DEF LoseAnswer, EndCycle, FailAct, Crash
  <2> QED
    BY <1>0, <2>1, <2>2, <2>3, QuietWipes DEF EvidenceIsTrue
<1>9. ASSUME NEW m \in Members, NEW p \in Members, AskVotes(m, p)
      PROVE  WipedInv'
  <2>1. /\ cycle[m] = Idle /\ cycle'[m].phase = "answered" /\ cycle'[m].peer = p
        /\ cycle'[m].answer.applied => act[p] = "done"
        /\ \A x \in Members : x # m => cycle'[x] = cycle[x]
    BY <1>0, <1>9 DEF AskVotes, RoundsTypeOK, ServedConcluded, Applied, NotServed
  <2>2. UNCHANGED <<round, outcome, act, evidence, rows>>
    BY <1>9 DEF AskVotes
  <2>3. EvidenceIsTrue'
    BY <1>0, <2>1, <2>2 DEF EvidenceIsTrue
  <2>4. RunsAlone'
    BY <1>0, <2>1, <2>2 DEF RunsAlone, InTurn, SendsTo
  <2>5. NothingPruned => Clean'
    BY <1>0, <2>1, <2>2 DEF Clean, TurnsWithWiped, NothingOnItsWay, InTurn, SendsTo
  <2> QED
    BY <1>0, <2>3, <2>4, <2>5 DEF WipedInv, Clean
<1>10. ASSUME NEW m \in Members, OpenTurn(m) \/ AskRows(m) \/ SendRows(m)
       PROVE  WipedInv'
  <2> DEFINE p == cycle[m].peer
  <2>1. /\ p \in Members /\ cycle'[m].phase \in {"turn", "page", "sending"}
        /\ cycle'[m].peer = p /\ \A x \in Members : x # m => cycle'[x] = cycle[x]
    BY <1>0, <1>10, CycleShape DEF OpenTurn, AskRows, SendRows, RoundsTypeOK, At
  <2>2. UNCHANGED <<round, outcome, act, evidence, rows>> /\ ~Stands(m)
    BY <1>10 DEF OpenTurn, AskRows, SendRows, Held
  <2>3. EvidenceIsTrue'
    BY <1>0, <2>1, <2>2 DEF EvidenceIsTrue
  <2>4. cycle'[m].phase = "sending" => ~Held(p, m) /\ rows[m]
    BY <1>0, <1>10 DEF OpenTurn, AskRows, SendRows, RoundsTypeOK, At
  <2>5. RunsAlone'
    BY <1>0, <2>1, <2>2, <2>4 DEF RunsAlone, InTurn, SendsTo, Held, Stands
  <2>6. ASSUME NothingPruned, NEW x \in Members, act[x] = "done"
        PROVE  Applied(x)
    BY <1>0, <2>6 DEF Applied, Passed, NothingPruned, ActsFollowDecisions
  <2>7. NothingPruned /\ act[m] = "done" => p \in evidence[m]
    BY <1>0, <1>10, <2>6
       DEF OpenTurn, AskRows, SendRows, Held, Clean, TurnsWithWiped, InTurn
  <2>8. ASSUME NothingPruned
        PROVE  ~(cycle'[m].phase = "sending" /\ act[p] = "done")
    BY <1>0, <2>1, <2>4, <2>6, <2>8 DEF Held, EvidenceIsTrue, Clean, NothingOnItsWay
  <2>9. ASSUME NothingPruned, act[m] = "done", cycle'[m].phase = "page"
        PROVE  ~cycle'[m].rows
    <3>1. ~rows[p]
      BY <1>0, <2>1, <2>7, <2>9 DEF EvidenceIsTrue, Clean, NothingOnItsWay
    <3>2. cycle'[m].rows = rows[p]
      BY <1>0, <1>10, <2>9 DEF OpenTurn, AskRows, SendRows, RoundsTypeOK, At
    <3> QED
      BY <3>1, <3>2
  <2>10. NothingPruned => Clean'
    <3>1. NothingPruned => TurnsWithWiped'
      BY <1>0, <2>1, <2>2, <2>7 DEF Clean, TurnsWithWiped, InTurn
    <3>2. NothingPruned => NothingOnItsWay'
      BY <1>0, <2>1, <2>2, <2>8, <2>9 DEF Clean, NothingOnItsWay, SendsTo
    <3> QED
      BY <3>1, <3>2 DEF Clean
  <2> QED
    BY <1>0, <2>3, <2>5, <2>10 DEF WipedInv, Clean
<1>11. ASSUME NEW m \in Members, LandRows(m)
       PROVE  WipedInv'
  <2>1. /\ cycle[m].phase = "page" /\ cycle'[m].phase = "turn" /\ cycle'[m].peer = cycle[m].peer
        /\ \A x \in Members : x # m => cycle'[x] = cycle[x] /\ rows'[x] = rows[x]
    BY <1>0, <1>11 DEF LandRows, RoundsTypeOK, At
  <2>2. UNCHANGED <<round, outcome, act, evidence>>
    BY <1>11 DEF LandRows
  <2>3. rows'[m] = (rows[m] \/ cycle[m].rows)
    BY <1>0, <1>11, Zenon DEF LandRows, RoundsTypeOK
  <2>4. ASSUME NothingPruned, act[m] = "done"
        PROVE  ~rows'[m]
    <3>1. ~rows[m] /\ ~cycle[m].rows
      BY <1>0, <2>1, <2>4 DEF Clean, NothingOnItsWay
    <3> QED
      BY <2>3, <3>1
  <2>5. EvidenceIsTrue'
    BY <1>0, <2>1, <2>2 DEF EvidenceIsTrue
  <2>6. RunsAlone'
    BY <1>0, <2>1, <2>2 DEF RunsAlone, InTurn, SendsTo
  <2>7. NothingPruned => Clean'
    BY <1>0, <2>1, <2>2, <2>4 DEF Clean, TurnsWithWiped, NothingOnItsWay, InTurn, SendsTo
  <2> QED
    BY <1>0, <2>5, <2>6, <2>7 DEF WipedInv, Clean
<1>12. ASSUME NEW m \in Members, LandSent(m)
       PROVE  WipedInv'
  <2>1. /\ SendsTo(m, cycle[m].peer) /\ cycle[m].peer \in Members /\ cycle'[m].phase = "idle"
        /\ \A x \in Members : x # m => cycle'[x] = cycle[x]
        /\ \A x \in Members : x # cycle[m].peer => rows'[x] = rows[x]
    BY <1>0, <1>12, CycleShape DEF LandSent, RoundsTypeOK, Idle, SendsTo
  <2>2. UNCHANGED <<round, outcome, act, evidence>>
    BY <1>12 DEF LandSent
  <2>3. NothingPruned => act[cycle[m].peer] # "done"
    BY <1>0, <2>1 DEF Clean, NothingOnItsWay
  <2>4. EvidenceIsTrue'
    BY <1>0, <2>1, <2>2 DEF EvidenceIsTrue
  <2>5. RunsAlone'
    BY <1>0, <2>1, <2>2 DEF RunsAlone, InTurn, SendsTo
  <2>6. NothingPruned => Clean'
    BY <1>0, <2>1, <2>2, <2>3 DEF Clean, TurnsWithWiped, NothingOnItsWay, InTurn, SendsTo
  <2> QED
    BY <1>0, <2>4, <2>5, <2>6 DEF WipedInv, Clean
<1>13. ASSUME NEW m \in Members, StartAct(m)
       PROVE  WipedInv'
  <2>1. /\ act[m] = "registered" /\ act' = [act EXCEPT ![m] = "running"]
        /\ UNCHANGED <<round, outcome, evidence, rows, cycle>>
    BY <1>13 DEF StartAct
  <2>2. ~InTurn(m) /\ \A x \in Members : ~SendsTo(x, m)
    BY <1>0, <1>13, CycleShape DEF StartAct, Drained, SendsTo, RoundsTypeOK
  <2>3. \A x \in Members : act'[x] = "done" <=> act[x] = "done"
    BY <1>0, <2>1 DEF RoundsTypeOK
  <2>4. EvidenceIsTrue'
    <3>1. \A x \in Members : cycle[x].phase = "answered" => cycle[x].peer \in Members
      BY <1>0, CycleShape DEF RoundsTypeOK
    <3> QED
      BY <1>0, <2>1, <2>3, <3>1 DEF EvidenceIsTrue
  <2>5. RunsAlone'
    BY <1>0, <2>1, <2>2 DEF RunsAlone, InTurn, SendsTo, RoundsTypeOK
  <2>6. NothingPruned => Clean'
    BY <1>0, <2>1, <2>3 DEF Clean, TurnsWithWiped, NothingOnItsWay, InTurn, SendsTo
  <2> QED
    BY <1>0, <2>4, <2>5, <2>6 DEF WipedInv, Clean
<1>14. ASSUME NEW m \in Members, CompleteAct(m)
       PROVE  WipedInv'
  <2>1. /\ act[m] = "running" /\ act' = [act EXCEPT ![m] = "done"]
        /\ rows' = [rows EXCEPT ![m] = FALSE]
        /\ UNCHANGED <<round, outcome, evidence, cycle>>
    BY <1>14 DEF CompleteAct
  <2>2. ~InTurn(m) /\ \A x \in Members : ~SendsTo(x, m)
    BY <1>0, <2>1 DEF RunsAlone
  <2>3. ~rows'[m] /\ \A x \in Members : x # m => act'[x] = act[x] /\ rows'[x] = rows[x]
    BY <1>0, <2>1 DEF RoundsTypeOK
  <2>4. EvidenceIsTrue'
    <3>1. \A x \in Members : cycle[x].phase = "answered" => cycle[x].peer \in Members
      BY <1>0, CycleShape DEF RoundsTypeOK
    <3>2. \A x \in Members : act[x] = "done" => act'[x] = "done"
      BY <1>0, <2>1 DEF RoundsTypeOK
    <3> QED
      BY <1>0, <2>1, <3>1, <3>2 DEF EvidenceIsTrue
  <2>5. RunsAlone'
    BY <1>0, <2>1 DEF RunsAlone, InTurn, SendsTo, RoundsTypeOK
  <2>6. NothingPruned => Clean'
    BY <1>0, <2>1, <2>2, <2>3 DEF Clean, TurnsWithWiped, NothingOnItsWay, InTurn, SendsTo
  <2> QED
    BY <1>0, <2>4, <2>5, <2>6 DEF WipedInv, Clean
<1>15. CASE UNCHANGED vars
  BY <1>0, <1>15, QuietWipes DEF vars, EvidenceIsTrue
<1> QED
  BY <1>2, <1>3, <1>4, <1>5, <1>6, <1>7, <1>8, <1>9, <1>10, <1>11, <1>12, <1>13, <1>14, <1>15
     DEF Next

-----------------------------------------------------------------------------
(***************************************************************************)
(* The theorems.                                                           *)
(***************************************************************************)
LEMMA InitHolds == Init => Typed /\ VotesInv /\ WipedInv
<1> SUFFICES ASSUME Init PROVE Typed /\ VotesInv /\ WipedInv
  OBVIOUS
<1> USE DEF Init
<1>1. Typed
  BY AnswerTypes, CycleTypes DEF Typed, RoundsTypeOK, ActsFollowDecisions, Rounds, Outcomes
<1>2. VotesInv
  BY CycleTypes DEF VotesInv, CastsAreReal, PassedIsAuthorised, NoCasts
<1>3. WipedInv
  BY CycleTypes DEF WipedInv, EvidenceIsTrue, RunsAlone, TurnsWithWiped, NothingOnItsWay, Clean
<1> QED
  BY <1>1, <1>2, <1>3

\* The parts are kept by every step together (every handler that saves a round).
THEOREM RoundsInductive == Spec => [](Typed /\ VotesInv /\ WipedInv)
<1>1. Typed /\ VotesInv /\ WipedInv /\ [Next]_vars => (Typed /\ VotesInv /\ WipedInv)'
  BY TypedStep, VotesStep, WipedStep
<1> QED
  BY InitHolds, <1>1, PTL DEF Spec

\* Every state of the rounds, the acts and the cycles is of its type, and a
\* round is concluded here exactly while its outcome is logged (settleRounds).
THEOREM RoundTypesCorrect == Spec => []RoundsTypeOK
<1>1. Typed => RoundsTypeOK
  BY DEF Typed
<1> QED
  BY RoundsInductive, <1>1, PTL

\* However the casts travel, a member carries a round only on yeses that were
\* cast and that the network's rule asks for (roundVerdict, takeServedRounds).
THEOREM PassedRoundsAreAuthorised == Spec => []PassedIsAuthorised
<1>1. VotesInv => PassedIsAuthorised
  BY DEF VotesInv
<1> QED
  BY RoundsInductive, <1>1, PTL

\* With any members and any number of cycles under way, no row from before the
\* wipe comes back to a member that was wiped while the round is kept
\* (spaceHold, enterSpaceTransfer, awaitSpaceTransfersDrained).
THEOREM WipedMembersStayWiped == Spec => []WipedStaysWiped
<1>1. WipedInv => WipedStaysWiped
  BY DEF WipedInv, Clean, NothingOnItsWay, WipedStaysWiped
<1> QED
  BY RoundsInductive, <1>1, PTL

\* What a step may not undo: the outcome log's entry, and a finished act.
ForGood(n) ==
    /\ outcome[n] # "none" => outcome'[n] = outcome[n]
    /\ act[n] = "done" => act'[n] = "done"

\* What settles a round asks first that it is not decided here.
LEMMA SettleForGood ==
  ASSUME RoundsTypeOK, ActsFollowDecisions, NEW n \in Members, NEW m \in Members,
         NEW casts, Settle(m, casts), outcome[m] = "none"
  PROVE  ForGood(n)
<1>1. outcome' = [outcome EXCEPT ![m] = Verdict(m, casts)]
  BY DEF Settle
<1>2. act[n] = "done" => act'[n] = "done"
  BY SettleActs
<1> QED
  BY <1>1, <1>2 DEF ForGood, RoundsTypeOK

\* A decision and a finished act are for good (adoptionRefusal, settleRounds).
LEMMA OnceStep ==
  ASSUME Typed, [Next]_vars, NEW n \in Members
  PROVE  ForGood(n)
<1>0. RoundsTypeOK /\ ActsFollowDecisions
  BY DEF Typed
<1>2. CASE UNCHANGED <<outcome, act>>
  BY <1>2 DEF ForGood
<1>3. CASE ProposeRound
  <2>1. /\ outcome[Proposer] = "none" /\ Proposer \in Members
        /\ Settle(Proposer, [NoCasts EXCEPT ![Proposer] = "yes"])
    BY <1>3, MembersAssumed DEF ProposeRound
  <2> QED
    BY <1>0, <2>1, SettleForGood
<1>4. ASSUME NEW m \in Members, NEW vote, CastVote(m, vote)
      PROVE  ForGood(n)
  BY <1>0, <1>4, SettleForGood DEF CastVote, Open, RoundsTypeOK
<1>5. ASSUME NEW m \in Members, NEW v \in Members, PushCast(m, v)
      PROVE  ForGood(n)
  <2>1. cycle[m].peer \in Members
    BY <1>0, <1>5, CycleShape DEF PushCast, RoundsTypeOK
  <2> QED
    BY <1>0, <1>5, <2>1, SettleForGood DEF PushCast, Open, RoundsTypeOK
<1>6. ASSUME NEW m \in Members, TakeServed(m)
      PROVE  ForGood(n)
  BY <1>0, <1>2, <1>6, TakeServedCases, SettleForGood
<1>7. ASSUME NEW m \in Members,
             \/ ExpiryTick(m) \/ StartAct(m) \/ CompleteAct(m) \/ FailAct(m) \/ Crash(m)
      PROVE  ForGood(n)
  BY <1>0, <1>7
     DEF ForGood, ExpiryTick, StartAct, CompleteAct, FailAct, Crash, RoundsTypeOK
<1>8. ASSUME NEW m \in Members,
             \/ DeadlinePasses(m) \/ CycleStep(m) \/ LandRows(m) \/ LandSent(m)
             \/ \E p \in Members : AskVotes(m, p)
      PROVE  UNCHANGED <<outcome, act>>
  BY <1>8 DEF DeadlinePasses, CycleStep, LoseAnswer, OpenTurn, AskRows, SendRows, EndCycle,
              LandRows, LandSent, AskVotes
<1>9. CASE UNCHANGED vars
  BY <1>2, <1>9 DEF vars
<1> QED
  BY <1>2, <1>3, <1>4, <1>5, <1>6, <1>7, <1>8, <1>9 DEF Next, CycleStep

\* A round is decided once on a member and its act is done once, whatever the
\* peers go on serving (adoptionRefusal, complete).
THEOREM RoundsAreDecidedOnce == Spec => DecidedOnce
<1>1. Typed /\ [Next]_vars =>
        [\A m \in Members :
            /\ outcome[m] # "none" => outcome'[m] = outcome[m]
            /\ act[m] = "done" => act'[m] = "done"]_vars
  BY OnceStep DEF ForGood
<1> QED
  BY RoundsInductive, <1>1, PTL DEF Spec, DecidedOnce
=============================================================================
