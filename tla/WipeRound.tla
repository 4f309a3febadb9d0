----------------------------- MODULE WipeRound -----------------------------
(***************************************************************************)
(* One round to wipe a space that every member of a network carries: the   *)
(* vote, the act a passed round registers on each member, and the hold     *)
(* that keeps the space from being exchanged while one side is wiped and   *)
(* the other is not.                                                       *)
(*                                                                         *)
(* Each member decides the round for itself, from the casts it has taken,  *)
(* and nothing but casts and finished acts travels: in its sync cycle with *)
(* a peer a member first pulls the peer's rounds (GET votes), then pushes  *)
(* its casts one by one (POST votes), then takes its turn with the space.  *)
(* Every handler is one synchronous turn that ends in a save of the        *)
(* configuration, so a crash loses the cycle in flight and no decision.    *)
(***************************************************************************)
EXTENDS Naturals, FiniteSets

CONSTANTS
    Members,    \* the instances of the network; each lists all the others
    Proposer,   \* the member whose operator asks for the wipe
    Rules,      \* the network types to check: closed, democratic, club
    Doubters,   \* the members whose operators may veto it
    MaxCycles   \* bound: sync cycles under way at once in the network

ASSUME MembersAssumed == IsFiniteSet(Members) /\ Proposer \in Members /\ Doubters \subseteq Members
ASSUME RulesAssumed == Rules \subseteq {"closed", "democratic", "club"}

VARIABLES
    rule,       \* the network's type
    round,      \* round[m]: none (not here), open, or concluded
    outcome,    \* outcome[m]: what m's outcome log says of the round
    votes,      \* votes[m][v]: v's cast as m holds it
    late,       \* late[m]: m's clock is past the round's deadline
    act,        \* act[m]: the wipe on m: none, registered, running, done
    evidence,   \* evidence[m]: peersConcluded, the members seen to have applied
    rows,       \* rows[m]: m holds rows written before the wipe
    cycle,      \* cycle[m]: what m's sync cycle is at
    said        \* history: the members that ever cast a yes

vars == <<rule, round, outcome, votes, late, act, evidence, rows, cycle, said>>

NoCasts == [v \in Members |-> "none"]
Idle == [phase |-> "idle"]
At(p, ph) == [phase |-> ph, peer |-> p]

Rounds == {"none", "open", "concluded"}
Outcomes == {"none", "passed", "vetoed", "expired"}
Casts == [Members -> {"none", "yes", "veto"}]
\* what GET votes answers: the casts, and whether it says concluded
Answers == [casts : Casts, applied : BOOLEAN]
NotServed == [casts |-> NoCasts, applied |-> FALSE]
Cycles == {Idle}
    \cup [phase : {"casting", "turn", "sending"}, peer : Members]
    \cup [phase : {"answered"}, peer : Members, served : BOOLEAN, answer : Answers]
    \cup [phase : {"page"}, peer : Members, rows : BOOLEAN]

----------------------------------------------------------------------------
(* The round on one member *)

Open(m) == round[m] = "open" /\ ~late[m]
Passed(m) == round[m] = "concluded" /\ outcome[m] = "passed"

\* spaceActStands: an entry stands, whatever its state
Stands(m) == act[m] \in {"registered", "running"}

\* spaceActApplied, read from the round while it is kept
Applied(m) == Passed(m) /\ act[m] = "done"

\* The variant of Yes: a silent member counts as one that agrees
NotVetoed(casts) == {v \in Members : casts[v] # "veto"}

Yes(casts) == {v \in Members : casts[v] = "yes"}

\* Does the network's rule carry the round with these yeses? On a closed network
\* every member's, this one's too; on a democratic one more than half of all
\* members; on a club the first.
Carries(yes) ==
    \/ rule = "closed" /\ yes = Members
    \/ rule = "democratic" /\ 2 * Cardinality(yes) > Cardinality(Members)
    \/ rule = "club" /\ yes # {}

\* roundVerdict: a veto beats the deadline, and both beat any count of yes
Verdict(m, casts) ==
    IF \E v \in Members : casts[v] = "veto" THEN "vetoed"
    ELSE IF late[m] THEN "expired"
    ELSE IF Carries(Yes(casts)) THEN "passed"
    ELSE "none"

\* The variant of Settle: only a passed round's outcome is logged
SettleLoggingPassed(m, casts) ==
    LET verdict == Verdict(m, casts) IN
    /\ votes' = [votes EXCEPT ![m] = casts]
    /\ round' = [round EXCEPT ![m] = IF verdict = "none" THEN "open" ELSE "concluded"]
    /\ outcome' = [outcome EXCEPT ![m] = IF verdict = "passed" THEN verdict ELSE @]
    /\ act' = [act EXCEPT ![m] = IF verdict = "passed" THEN "registered" ELSE @]

\* settleRounds on m with these casts: conclude the round if it is over, log how,
\* and register the act of a passed one
Settle(m, casts) ==
    LET verdict == Verdict(m, casts) IN
    /\ votes' = [votes EXCEPT ![m] = casts]
    /\ round' = [round EXCEPT ![m] = IF verdict = "none" THEN "open" ELSE "concluded"]
    /\ outcome' = [outcome EXCEPT ![m] = verdict]
    /\ act' = [act EXCEPT ![m] = IF verdict = "passed" THEN "registered" ELSE @]

\* proposeRound: the proposer's yes is cast as the round opens
ProposeRound ==
    /\ round[Proposer] = "none" /\ outcome[Proposer] = "none" /\ ~late[Proposer]
    /\ Settle(Proposer, [NoCasts EXCEPT ![Proposer] = "yes"])
    /\ said' = said \cup {Proposer}
    /\ UNCHANGED <<rule, late, evidence, rows, cycle>>

\* castVoteAct: a later cast of this member replaces its earlier one
CastVote(m, vote) ==
    /\ Open(m)
    /\ votes[m][m] # vote
    /\ vote = "yes" \/ m \in Doubters
    /\ Settle(m, [votes[m] EXCEPT ![m] = vote])
    /\ said' = IF vote = "yes" THEN said \cup {m} ELSE said
    /\ UNCHANGED <<rule, late, evidence, rows, cycle>>

\* The clock of m passes the deadline the round carries
DeadlinePasses(m) ==
    /\ ~late[m]
    /\ late' = [late EXCEPT ![m] = TRUE]
    /\ UNCHANGED <<rule, round, outcome, votes, act, evidence, rows, cycle, said>>

\* pruneExpiredRounds keeps a concluded round whose act still stands here
Kept(m) == Stands(m)

\* runRoundExpiryTick: a round past its deadline is concluded, and a concluded one
\* leaves with its casts and its evidence; the outcome log stays
ExpiryTick(m) ==
    /\ late[m] /\ round[m] # "none" /\ ~Kept(m)
    /\ outcome' = [outcome EXCEPT ![m] = IF @ = "none" THEN Verdict(m, votes[m]) ELSE @]
    /\ round' = [round EXCEPT ![m] = "none"]
    /\ votes' = [votes EXCEPT ![m] = NoCasts]
    /\ evidence' = [evidence EXCEPT ![m] = {}]
    /\ UNCHANGED <<rule, late, act, rows, cycle, said>>

----------------------------------------------------------------------------
(* The governance pass of a cycle *)

\* The variant of Served: a round leaves the list as soon as it is decided
ServedWhileOpen(p) == Open(p)

\* GET votes: an open round, and a passed one until its deadline
Served(p) == ~late[p] /\ (round[p] = "open" \/ Passed(p))

\* roundForPeer: a wipe is served concluded once its act completed, not before
ServedConcluded(p) == Applied(p)

\* m begins its turn with p: p answers GET votes
AskVotes(m, p) ==
    /\ m # p /\ cycle[m] = Idle
    /\ Cardinality({x \in Members : cycle[x] # Idle}) < MaxCycles
    /\ cycle' = [cycle EXCEPT ![m] =
           [phase |-> "answered", peer |-> p, served |-> Served(p),
            answer |-> IF Served(p)
                       THEN [casts |-> votes[p], applied |-> ServedConcluded(p)]
                       ELSE NotServed]]
    /\ UNCHANGED <<rule, round, outcome, votes, late, act, evidence, rows, said>>

\* The variant of AdoptionRefused: the outcome log is not asked
RefusedOnceHeld(m) == round[m] # "none"

\* adoptionRefusal: past its deadline here, or already recorded here
AdoptionRefused(m) == late[m] \/ outcome[m] # "none"

\* A cast the list carries replaces the one held
Merged(held, served) ==
    [v \in Members |-> IF served[v] = "none" THEN held[v] ELSE served[v]]

\* recordPeerConcluded: kept on the round m holds, before any adoption
WithEvidence(m, p, answer) ==
    IF round[m] # "none" /\ answer.applied THEN evidence[m] \cup {p} ELSE evidence[m]

\* takeServedRounds, then the settle when anything changed
TakeServed(m) ==
    /\ cycle[m].phase = "answered"
    /\ LET p == cycle[m].peer
           answer == cycle[m].answer
           adopts == round[m] = "none" /\ ~AdoptionRefused(m)
           seen == WithEvidence(m, p, answer)
           casts == IF adopts \/ Open(m) THEN Merged(votes[m], answer.casts) ELSE votes[m]
           changed == adopts \/ seen # evidence[m] \/ casts # votes[m]
       IN /\ evidence' = [evidence EXCEPT ![m] = seen]
          /\ IF cycle[m].served /\ changed /\ (adopts \/ round[m] = "open")
             THEN Settle(m, casts)
             ELSE UNCHANGED <<round, outcome, votes, act>>
          /\ cycle' = [cycle EXCEPT ![m] = At(p, "casting")]
    /\ UNCHANGED <<rule, late, rows, said>>

\* The pull failed: what was answered is not taken, and the cycle goes on
LoseAnswer(m) ==
    /\ cycle[m].phase = "answered"
    /\ cycle' = [cycle EXCEPT ![m] = At(cycle[m].peer, "casting")]
    /\ UNCHANGED <<rule, round, outcome, votes, late, act, evidence, rows, said>>

\* POST votes of one cast m holds: taken only by a round open at the peer
PushCast(m, v) ==
    /\ cycle[m].phase = "casting"
    /\ round[m] # "none" /\ ~late[m] /\ votes[m][v] # "none"
    /\ LET p == cycle[m].peer IN
       /\ Open(p)
       /\ Settle(p, [votes[p] EXCEPT ![v] = votes[m][v]])
    /\ UNCHANGED <<rule, late, evidence, rows, cycle, said>>

----------------------------------------------------------------------------
(* The hold and the turn with the space *)

\* The variant of Held: an act that is done here holds nothing
HeldUntilDone(m, p) ==
    \/ Stands(m)
    \/ round[m] = "open" /\ p \in evidence[m]

\* spaceHold: an act stands here; or this member applied the wipe and has not seen
\* the peer do so; or the peer applied first and the round is still open here
Held(m, p) ==
    \/ Stands(m)
    \/ Applied(m) /\ p \notin evidence[m]
    \/ round[m] = "open" /\ p \in evidence[m]

\* enterSpaceTransfer: the governance pass is over and the space is not held
OpenTurn(m) ==
    /\ cycle[m].phase = "casting"
    /\ ~Held(m, cycle[m].peer)
    /\ cycle' = [cycle EXCEPT ![m] = At(cycle[m].peer, "turn")]
    /\ UNCHANGED <<rule, round, outcome, votes, late, act, evidence, rows, said>>

\* A pull: the peer's door asks its own hold and answers with the rows it has
AskRows(m) ==
    /\ cycle[m].phase = "turn" /\ ~Stands(m)
    /\ LET p == cycle[m].peer IN
       /\ ~Held(p, m)
       /\ cycle' = [cycle EXCEPT ![m] = [phase |-> "page", peer |-> p, rows |-> rows[p]]]
    /\ UNCHANGED <<rule, round, outcome, votes, late, act, evidence, rows, said>>

\* The page lands, even if an act registered after it was fetched
LandRows(m) ==
    /\ cycle[m].phase = "page"
    /\ rows' = [rows EXCEPT ![m] = @ \/ cycle[m].rows]
    /\ cycle' = [cycle EXCEPT ![m] = At(cycle[m].peer, "turn")]
    /\ UNCHANGED <<rule, round, outcome, votes, late, act, evidence, said>>

\* A push of m's rows is admitted by the peer's door
SendRows(m) ==
    /\ cycle[m].phase = "turn" /\ ~Stands(m) /\ rows[m]
    /\ ~Held(cycle[m].peer, m)
    /\ cycle' = [cycle EXCEPT ![m] = At(cycle[m].peer, "sending")]
    /\ UNCHANGED <<rule, round, outcome, votes, late, act, evidence, rows, said>>

\* ... and lands there
LandSent(m) ==
    /\ cycle[m].phase = "sending"
    /\ rows' = [rows EXCEPT ![cycle[m].peer] = TRUE]
    /\ cycle' = [cycle EXCEPT ![m] = Idle]
    /\ UNCHANGED <<rule, round, outcome, votes, late, act, evidence, said>>

\* The cycle ends here: nothing more to do, a refusal, or a request that failed
EndCycle(m) ==
    /\ cycle[m].phase \notin {"idle", "answered"}
    /\ cycle' = [cycle EXCEPT ![m] = Idle]
    /\ UNCHANGED <<rule, round, outcome, votes, late, act, evidence, rows, said>>

----------------------------------------------------------------------------
(* The act *)

InTurn(m) == cycle[m].phase \in {"turn", "page", "sending"}

\* The variant of Drained: what this instance began itself is awaited, and no more
OwnTurnsDrained(m) == ~InTurn(m)

\* awaitSpaceTransfersDrained: no turn of m's own, and nothing m admitted, in flight
Drained(m) ==
    /\ ~InTurn(m)
    /\ \A x \in Members : cycle[x] # At(m, "sending")

StartAct(m) ==
    /\ act[m] = "registered" /\ Drained(m)
    /\ act' = [act EXCEPT ![m] = "running"]
    /\ UNCHANGED <<rule, round, outcome, votes, late, evidence, rows, cycle, said>>

\* complete: the body emptied the space; one write removes the entry and settles
CompleteAct(m) ==
    /\ act[m] = "running"
    /\ act' = [act EXCEPT ![m] = "done"]
    /\ rows' = [rows EXCEPT ![m] = FALSE]
    /\ UNCHANGED <<rule, round, outcome, votes, late, evidence, cycle, said>>

\* failed: the act stays owed and is retried. What it left is not told apart: no
\* door reads it while the act stands, and the retry empties the space
FailAct(m) ==
    /\ act[m] = "running"
    /\ act' = [act EXCEPT ![m] = "registered"]
    /\ UNCHANGED <<rule, round, outcome, votes, late, evidence, rows, cycle, said>>

\* m stops and starts again: its cycle is gone, what it was sent may not land, and
\* an act that ran is resumed from its entry
Crash(m) ==
    /\ cycle' = [x \in Members |->
           IF x = m \/ cycle[x] = At(m, "sending") THEN Idle ELSE cycle[x]]
    /\ act' = [act EXCEPT ![m] = IF @ = "running" THEN "registered" ELSE @]
    /\ UNCHANGED <<rule, round, outcome, votes, late, evidence, rows, said>>

----------------------------------------------------------------------------

Init ==
    /\ rule \in Rules
    /\ round = [m \in Members |-> "none"]
    /\ outcome = [m \in Members |-> "none"]
    /\ votes = [m \in Members |-> NoCasts]
    /\ late = [m \in Members |-> FALSE]
    /\ act = [m \in Members |-> "none"]
    /\ evidence = [m \in Members |-> {}]
    /\ rows = [m \in Members |-> TRUE]
    /\ cycle = [m \in Members |-> Idle]
    /\ said = {}

Next ==
    \/ ProposeRound
    \/ \E m \in Members :
        \/ \E vote \in {"yes", "veto"} : CastVote(m, vote)
        \/ DeadlinePasses(m)
        \/ ExpiryTick(m)
        \/ \E p \in Members : AskVotes(m, p)
        \/ TakeServed(m)
        \/ LoseAnswer(m)
        \/ \E v \in Members : PushCast(m, v)
        \/ OpenTurn(m)
        \/ AskRows(m)
        \/ LandRows(m)
        \/ SendRows(m)
        \/ LandSent(m)
        \/ EndCycle(m)
        \/ StartAct(m)
        \/ CompleteAct(m)
        \/ FailAct(m)
        \/ Crash(m)

Spec == Init /\ [][Next]_vars

Fault(m) == LoseAnswer(m) \/ FailAct(m) \/ Crash(m)
FaultsCease ==
    <>[][\A m \in Members : Fault(m) => TakeServed(m) \/ EndCycle(m)]_vars

(***************************************************************************)
(* Fairness.  The expiry job ticks every minute.  Every                    *)
(* member begins its turn with every other again and again: the scheduler  *)
(* starts a cycle per interval, each visits all members, and every request *)
(* has a deadline of its own, so that a turn ends.  An act starts when its *)
(* space has drained, and the retry clock starts it again.  Pulls fail,    *)
(* acts fail and instances stop only so often.  Nothing is assumed of the  *)
(* operators, of the pushes, or of the turns with the space.               *)
(***************************************************************************)
Fairness ==
    \A m \in Members :
        /\ WF_vars(ExpiryTick(m) \/ StartAct(m) \/ CompleteAct(m))
        /\ \A p \in Members \ {m} : []<><<AskVotes(m, p)>>_vars

FairSpec == Spec /\ Fairness /\ FaultsCease

----------------------------------------------------------------------------
(* Properties *)

(***************************************************************************)
(* Every variable stays in its range: a member holds no cast of a round it *)
(* does not hold, and decides none without logging how it ended.           *)
(***************************************************************************)
RoundsTypeOK ==
    /\ rule \in Rules
    /\ round \in [Members -> Rounds]
    /\ outcome \in [Members -> Outcomes]
    /\ votes \in [Members -> Casts]
    /\ late \in [Members -> BOOLEAN]
    /\ act \in [Members -> {"none", "registered", "running", "done"}]
    /\ evidence \in [Members -> SUBSET Members]
    /\ rows \in [Members -> BOOLEAN]
    /\ cycle \in [Members -> Cycles]
    /\ said \subseteq Members
    /\ \A m \in Members : round[m] = "concluded" <=> (round[m] # "none" /\ outcome[m] # "none")

(***************************************************************************)
(* A member carries the round only on yeses that the rule's electors really*)
(* cast, its own among them where every member must agree, however the     *)
(* casts travelled and whatever its peers decided.                         *)
(***************************************************************************)
PassedIsAuthorised ==
    \A m \in Members :
        outcome[m] = "passed" => Carries(said) /\ (rule = "closed" => votes[m][m] # "veto")

(***************************************************************************)
(* While no member has pruned the round, a member that was wiped holds no  *)
(* row from before the wipe again: not from a page fetched before the act, *)
(* not from a peer still to be wiped, and not by way of a third member.    *)
(***************************************************************************)
NothingPruned == \A m \in Members : outcome[m] # "none" => round[m] = "concluded"
WipedStaysWiped ==
    NothingPruned => \A m \in Members : act[m] = "done" => ~rows[m]

(***************************************************************************)
(* A round is decided once on a member, and its act done once: a peer that *)
(* still serves a round pruned here does not bring it back.                *)
(***************************************************************************)
DecidedOnce ==
    [][\A m \in Members :
        /\ outcome[m] # "none" => outcome'[m] = outcome[m]
        /\ act[m] = "done" => act'[m] = "done"]_vars

(***************************************************************************)
(* A round that passed anywhere is decided by every member unless some     *)
(* clock passes the deadline first: as passed, or as vetoed where a veto   *)
(* was taken, the members that had never seen it open included.            *)
(***************************************************************************)
DecisionReachesAll ==
    (\E m \in Members : outcome[m] = "passed") ~>
        (\/ \A n \in Members : outcome[n] \in {"passed", "vetoed"}
         \/ \E n \in Members : late[n])

(***************************************************************************)
(* No hold is for ever once the clocks have passed the deadline: the peer  *)
(* is seen to have applied, or the round is pruned.                        *)
(***************************************************************************)
SomethingHeld == \E m, p \in Members : Held(m, p)
DeadlineComes == <>(\A m \in Members : late[m])
HoldsEnd == DeadlineComes => (SomethingHeld ~> ~SomethingHeld)

=============================================================================
