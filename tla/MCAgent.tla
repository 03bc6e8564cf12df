------------------------------ MODULE MCAgent ------------------------------
(***************************************************************************)
(* Small instances of the parts of one agent run, which share no state     *)
(* here: the loop of rounds (module AgentLoop), the calls of the language  *)
(* model, the planner's reading of a reply, and the evidence a completion  *)
(* needs.  The variable part says which of them a behaviour is about.      *)
(***************************************************************************)
EXTENDS AgentLoop, SequenceTheorems, WellFoundedInduction, TLAPS

CONSTANTS
    Parts, MaxCalls, MaxSimple, MaxCrashes,                         \* ModelCalls
    MaxItems, Windows, Sizes,                                       \* Planning
    Files, Guess, Real, Outputs, Pages, Window, MaxFailed, Rejections,  \* Evidence
    MaxTries, MaxTools, MaxOutside, MaxNews

VARIABLES
    part,
    at, req, status, sent, gone, got, readFailed, sock, guard, cancelled, answer,
    spent, base, model, simple, total, rows, ledger, calls, others, crashes, reported,
    late, loaded, direct, lost,
    native, reply, fixed, stage, decision,
    disk, clock, action, undo, clean, touched, steps, sequence, receipts, artifact,
    baseline, pending, whole, seen, failed, overflow, found, mutated, contract, equal,
    tries, rejected, nudged, verdict, messages, outside, made, read, slipped, owed

Calls == INSTANCE ModelCalls WITH outcome <- answer
Plan == INSTANCE Planning
Proof == INSTANCE Evidence WITH MaxActions <- MaxTools, MaxMessages <- MaxNews

callsVars == <<at, req, status, sent, gone, got, readFailed, sock, guard, cancelled,
               answer, spent, base, model, simple, total, rows, ledger, calls, others,
               crashes, reported, late, loaded, direct, lost>>
planVars == <<native, reply, fixed, stage, decision>>
proofVars == <<disk, clock, action, undo, clean, touched, steps, sequence, receipts,
               artifact, baseline, pending, whole, seen, failed, overflow, found,
               mutated, contract, equal, tries, rejected, nudged, verdict, messages,
               outside, made, read, slipped, owed>>
allVars == <<part, vars, callsVars, planVars, proofVars>>

InLoop(A) == part = "loop" /\ A /\ UNCHANGED <<part, callsVars, planVars, proofVars>>

AgentInit ==
    /\ part \in {"loop", "calls", "planning", "evidence"}
    /\ Init /\ Calls!Init /\ Plan!Init /\ Proof!Init
    /\ part # "planning" => native
    /\ part # "evidence" => /\ contract.reads = {}
                            /\ \A f \in Files : disk[f].version = 0

AgentNext ==
    \/ InLoop(Next)
    \/ /\ part = "calls" /\ Calls!Next
       /\ UNCHANGED <<part, vars, planVars, proofVars>>
    \/ /\ part = "planning" /\ Plan!Next
       /\ UNCHANGED <<part, vars, callsVars, proofVars>>
    \/ /\ part = "evidence" /\ Proof!Next
       /\ UNCHANGED <<part, vars, callsVars, planVars>>

\* The fairness of AgentLoop.
AgentSpec == AgentInit /\ [][AgentNext]_allVars /\ WF_allVars(InLoop(Step))

-----------------------------------------------------------------------------
\* Every run ends.
EveryRunEnds == part = "loop" => RunEnds

\* Actions and texts come only from whole answers of the model, no socket is
\* shut after it was closed, every token is booked once; and what the planner
\* makes of a reply is all of it or nothing.
RepliesSafe ==
    /\ Calls!CallsSafe
    /\ Plan!PlanningSafe
    /\ part = "planning" /\ stage = "asking" => Plan!BudgetFits

\* A completion is accepted on evidence that is real.
EvidenceSafe == Proof!EvidenceSafe

\* The files the run is about, and at least one page and one step that is kept.
ASSUME EvidenceAssumption ==
    /\ Guess \in Files /\ Real \in Files /\ Outputs \subseteq Files
    /\ Pages \in Nat \ {0} /\ Window \in Nat \ {0}

-----------------------------------------------------------------------------
(***************************************************************************)
(* Proofs.  For any tools, any limits and any replies of the model: an     *)
(* answer that counts was given by a round that knew every message, no     *)
(* accepted message is left unread by a run that ended by itself, and a    *)
(* gated tool runs only when that very request was allowed.                *)
(*                                                                         *)
(* Between the round that concluded and task_close_messages a message may  *)
(* still come; it then waits, and what waits reopens the run (Concluded).  *)
(* Once closed, only an aborted run takes messages (Closed).               *)
(***************************************************************************)

Rounding == {"top", "model", "acting", "asking", "heard", "granted", "stopping", "after"}

Flags == {"final", "stalled", "failed", "unfinished", "synthesized", "error"}

Types ==
    /\ pc \in Rounding \cup {"queued", "synthesis", "closing", "settling", "over"}
    /\ task \in [cancel : BOOLEAN, expired : BOOLEAN, pending : Nat, accepted : Nat,
                 closed : BOOLEAN, ask : Nat, waiting : BOOLEAN, decision : {-1, 0, 1}]
    /\ end \in [final : BOOLEAN, stalled : BOOLEAN, failed : BOOLEAN,
                unfinished : BOOLEAN, synthesized : BOOLEAN, error : BOOLEAN]
    /\ DOMAIN outcome = {"st", "cancelled", "remembered"}
    /\ DOMAIN ghost = {"stale", "lost", "rounds", "allowed", "undone"}
    /\ DOMAIN now = DOMAIN NoRound

\* The answer that counts is one to the request that is open.
Asked ==
    /\ task.decision = 1 => ghost.allowed = task.ask
    /\ pc \in {"heard", "granted"} /\ now.heard # -1 => task.decision = 1

\* Until the loop is left nothing is concluded.
Unconcluded ==
    /\ pc \in Rounding \cup {"queued"} => ~end.final
    /\ pc \in Rounding \cup {"queued", "synthesis"} => ~end.synthesized
    /\ pc # "over" => outcome = [st |-> "none", cancelled |-> FALSE, remembered |-> FALSE]

\* A conclusion that does not know a message: it is none, or the message waits.
Concluded ==
    /\ pc \in {"synthesis", "closing"} /\ end.final /\ ghost.stale =>
          end.failed \/ end.synthesized \/ HasMessages \/ Aborted
    /\ pc = "settling" /\ end.final /\ ghost.stale =>
          end.failed \/ end.synthesized \/ Aborted

Closed == pc = "settling" => Aborted \/ (task.closed /\ ~HasMessages)

\* What was taken and put into a prompt is known, what was not taken is left only
\* in a run that was stopped.
Known == outcome.remembered /\ end.final /\ ~outcome.cancelled => ~ghost.stale
NotLeft == pc = "over" /\ task.pending > 0 => outcome.st = "REFUSED" \/ outcome.cancelled

IInv == Types /\ Asked /\ Unconcluded /\ Concluded /\ Closed
        /\ Known /\ NotLeft

-----------------------------------------------------------------------------
LEMMA IInvInit == Init => IInv
<1> SUFFICES ASSUME Init PROVE IInv
  OBVIOUS
<1> USE DEF Init, FreshEnd, NoRound
<1>1. Types
  BY DEF Types, Rounding
<1>2. Asked /\ Unconcluded /\ Concluded /\ Closed
  BY DEF Asked, Unconcluded, Concluded, Closed
<1>3. Known /\ NotLeft
  BY DEF Known, NotLeft
<1> QED BY <1>1, <1>2, <1>3 DEF IInv

\* task_add_message: while the run is open to messages, or aborted.
LEMMA MessageStep == IInv /\ AddMessage => IInv'
<1> SUFFICES ASSUME IInv, AddMessage PROVE IInv'
  OBVIOUS
<1> USE DEF AddMessage, HasMessages, Aborted
<1>1. Types'
  <2>1. task' \in [cancel : BOOLEAN, expired : BOOLEAN, pending : Nat, accepted : Nat,
                   closed : BOOLEAN, ask : Nat, waiting : BOOLEAN, decision : {-1, 0, 1}]
    <3>1. task.pending + 1 \in Nat /\ task.accepted + 1 \in Nat
      BY DEF IInv, Types
    <3>2. task' = [task EXCEPT !.pending = @ + 1, !.accepted = @ + 1]
      BY Zenon
    <3> HIDE DEF AddMessage
    <3> QED BY <3>1, <3>2, Zenon DEF IInv, Types
  <2>2. DOMAIN ghost' = DOMAIN ghost
    BY Zenon
  <2> QED BY <2>1, <2>2 DEF IInv, Types, Rounding
<1>2. Asked' /\ Unconcluded'
  BY DEF IInv, Types, Asked, Unconcluded
<1>3. Concluded' /\ Closed'
  BY DEF IInv, Types, Concluded, Closed
<1>4. Known' /\ NotLeft'
  BY DEF IInv, Types, Unconcluded, Known, NotLeft
<1> QED BY <1>1, <1>2, <1>3, <1>4 DEF IInv

\* Cancellation, the deadline, and answers of a client.
LEMMA ClientStep ==
    ASSUME IInv,
           Cancel \/ Expire \/ \E id \in Serials, allow \in BOOLEAN : Answer(id, allow)
    PROVE  IInv'
<1> USE DEF Cancel, Expire, Answer, HasMessages, Aborted, Running
<1>1. Types'
  BY ZenonT(60) DEF IInv, Types
<1>2. Asked'
  BY DEF IInv, Types, Asked
<1>3. Unconcluded' /\ Concluded' /\ Closed'
  BY DEF IInv, Types, Unconcluded, Concluded, Closed
<1>4. Known' /\ NotLeft'
  BY DEF IInv, Types, Known, NotLeft
<1> QED BY <1>1, <1>2, <1>3, <1>4 DEF IInv

\* The steps inside a round change nothing that the conclusion depends on.
LEMMA InsideStep ==
    ASSUME IInv, pc \in Rounding \cup {"queued"}, pc' \in Rounding, pc' # pc \/ pc = "acting",
           Types', Asked',
           UNCHANGED outcome, ~end'.final, ~end'.synthesized
    PROVE  IInv'
<1> USE DEF Rounding
<1>1. Unconcluded'
  BY DEF IInv, Unconcluded
<1>2. Concluded' /\ Closed'
  BY DEF Concluded, Closed
<1>3. Known' /\ NotLeft'
  BY DEF Known, NotLeft
<1> QED BY <1>1, <1>2, <1>3 DEF IInv

LEMMA EnterStep == IInv /\ (Enter \/ Refuse) => IInv'
<1> SUFFICES ASSUME IInv, Enter \/ Refuse PROVE IInv'
  OBVIOUS
<1> USE DEF Enter, Refuse, Goto
<1>1. Types' /\ Asked'
  BY DEF IInv, Types, Asked, Rounding
<1>2. Unconcluded' /\ Concluded' /\ Closed'
  BY DEF IInv, Types, Unconcluded, Concluded, Closed, Rounding
<1>3. Known' /\ NotLeft'
  BY DEF IInv, Types, Unconcluded, Known, NotLeft, Rounding
<1> QED BY <1>1, <1>2, <1>3 DEF IInv

\* Steering: what waits is taken up at the top of a round.
LEMMA TopStep == IInv /\ Top => IInv'
<1> SUFFICES ASSUME IInv, Top PROVE IInv'
  OBVIOUS
<1> USE DEF Top, Goto, Leave, HasMessages, Aborted
<1>1. DOMAIN now' = DOMAIN NoRound
  BY DEF IInv, Types
<1>2. Types'
  BY <1>1 DEF IInv, Types, Rounding
<1>3. Asked' /\ Closed'
  BY DEF IInv, Types, Asked, Closed
<1>4. Unconcluded' /\ Concluded'
  BY DEF IInv, Types, Unconcluded, Concluded, Rounding
<1>5. Known' /\ NotLeft'
  BY DEF Known, NotLeft, IInv, Types, Unconcluded
<1> QED BY <1>2, <1>3, <1>4, <1>5 DEF IInv

\* Messages that cannot be read are dropped with the pass that took them.
LEMMA TopFailsStep == IInv /\ TopFails => IInv'
<1> SUFFICES ASSUME IInv, TopFails PROVE IInv'
  OBVIOUS
<1> USE DEF TopFails, Goto, Leave, HasMessages, Aborted
<1>1. Types'
  BY DEF IInv, Types, Rounding
<1>2. Asked' /\ Closed' /\ Unconcluded' /\ Concluded'
  BY DEF IInv, Types, Asked, Closed, Unconcluded, Concluded, Rounding
<1>3. Known' /\ NotLeft'
  BY DEF Known, NotLeft, IInv, Types, Unconcluded
<1> QED BY <1>1, <1>2, <1>3 DEF IInv

LEMMA ReasonStep == IInv /\ Reason => IInv'
<1> SUFFICES ASSUME IInv, Reason PROVE IInv'
  OBVIOUS
<1>1. /\ pc = "model" /\ pc' \in {"after", "acting"}
      /\ UNCHANGED <<task, outcome, ghost>>
      /\ \E b \in BOOLEAN : end' = [end EXCEPT !.error = b]
      /\ DOMAIN now' = DOMAIN now
  BY DEF Reason, Goto
<1>2. /\ ~end'.final /\ ~end'.synthesized
      /\ end' \in [final : BOOLEAN, stalled : BOOLEAN, failed : BOOLEAN,
                   unfinished : BOOLEAN, synthesized : BOOLEAN, error : BOOLEAN]
  BY <1>1 DEF IInv, Types, Unconcluded, Rounding
<1>3. Types' /\ Asked'
  BY <1>1, <1>2 DEF IInv, Types, Asked, Rounding
<1> QED BY <1>1, <1>2, <1>3, InsideStep DEF Rounding

\* The approval: asked, polled, heard; then the action, or the end of the plan.
LEMMA ActStep ==
    ASSUME IInv,
           \/ Hear \/ EndAsk \/ FinishActing
           \/ \E t \in Targets :
                 Ask(t) \/ Deny(t) \/ Invalid(t) \/ Cached(t) \/ Succeed(t) \/ Fail(t)
    PROVE  IInv'
<1> USE DEF Goto
<1>1. CASE Hear
  <2>1. Types' /\ Asked' /\ pc' = "heard" /\ pc = "asking" /\ UNCHANGED <<end, outcome>>
    BY <1>1 DEF Hear, IInv, Types, Asked, NoRound, Rounding
  <2> QED BY <2>1, InsideStep DEF IInv, Unconcluded, Rounding
<1>2. CASE EndAsk
  <2>1. /\ Types' /\ Asked' /\ pc' \in {"stopping", "granted"} /\ pc = "heard"
        /\ UNCHANGED <<end, outcome>>
    BY <1>2 DEF EndAsk, IInv, Types, Asked, NoRound, Rounding
  <2> QED BY <2>1, InsideStep DEF IInv, Unconcluded, Rounding
<1>3. CASE FinishActing
  <2>1. /\ pc \in {"stopping", "acting"} /\ pc' = "after" /\ UNCHANGED <<end, outcome, task>>
        /\ DOMAIN now' = DOMAIN now /\ DOMAIN ghost' = DOMAIN ghost
        /\ ghost'.allowed = ghost.allowed
    BY <1>3 DEF FinishActing, IInv, Types
  <2>2. Types' /\ Asked'
    BY <2>1 DEF IInv, Types, Asked, Rounding
  <2> QED BY <2>1, <2>2, InsideStep DEF IInv, Unconcluded, Rounding
<1>4. ASSUME NEW t \in Targets, Ask(t) PROVE IInv'
  <2>1. /\ pc' = "asking" /\ pc = "acting" /\ UNCHANGED <<now, end, outcome>>
        /\ ghost' = [ghost EXCEPT !.allowed = 0]
        /\ task' = [task EXCEPT !.ask = (@ % 2) + 1, !.waiting = TRUE, !.decision = 0]
    BY <1>4 DEF Ask, Next_, Acting
  <2>2. (task.ask % 2) + 1 \in Nat
    BY DEF IInv, Types
  <2>3. task' \in [cancel : BOOLEAN, expired : BOOLEAN, pending : Nat, accepted : Nat,
                   closed : BOOLEAN, ask : Nat, waiting : BOOLEAN, decision : {-1, 0, 1}]
    BY <2>1, <2>2 DEF IInv, Types
  <2>4. DOMAIN ghost' = DOMAIN ghost
    BY <2>1, Zenon
  <2>5. Types'
    BY <2>1, <2>3, <2>4 DEF IInv, Types, Rounding
  <2>6. Asked'
    BY <2>1 DEF IInv, Types, Asked
  <2> QED BY <2>1, <2>5, <2>6, InsideStep DEF IInv, Unconcluded, Rounding
<1>5. ASSUME NEW t \in Targets,
             Deny(t) \/ Invalid(t) \/ Cached(t) \/ Succeed(t) \/ Fail(t)
      PROVE  IInv'
  <2>1. /\ pc \in {"acting", "granted"} /\ pc' = "acting"
        /\ UNCHANGED <<task, end, outcome, ghost>>
        /\ DOMAIN now' = DOMAIN now
    BY <1>5 DEF Deny, Invalid, Cached, Succeed, Fail, MayRun, Up, Next_, Acting, Rest
  <2>2. Types' /\ Asked'
    BY <2>1 DEF IInv, Types, Asked, Rounding
  <2> QED BY <2>1, <2>2, InsideStep DEF IInv, Unconcluded, Rounding
<1> QED BY <1>1, <1>2, <1>3, <1>4, <1>5

\* How a round ends: with another one, or out of the loop.  A final answer out
\* of a round that failed is none; one out of a candidate knows every message.
RoundEnds ==
    /\ pc = "after" /\ UNCHANGED <<task, outcome>>
    /\ DOMAIN now' = DOMAIN now
    /\ ghost' = ghost \/ ghost' = [ghost EXCEPT !.stale = FALSE]
    /\ \/ pc' = "top" /\ end' = end
       \/ pc' = "synthesis" /\ end' = end
       \/ /\ pc' = "synthesis"
          /\ \E flags \in SUBSET (Flags \ {"synthesized"}) :
                /\ end' = [f \in DOMAIN end |-> end[f] \/ f \in flags]
                /\ "final" \in flags => "failed" \in flags \/ ~ghost'.stale

LEMMA GoOnEnds == \A l : GoOn(l) => pc' \in {"top", "synthesis"}
  BY DEF GoOn, Goto, Leave

LEMMA AfterEnds ==
    ASSUME IInv,
           AfterAbort \/ AfterMessage \/ AfterCycle \/ AfterFailure \/ AfterCandidate \/ AfterPlan
    PROVE  RoundEnds
<1> USE DEF Leave, Goto
<1>1. DOMAIN Forgotten("FAILED") = DOMAIN now /\ DOMAIN Forgotten(now.st) = DOMAIN now
      /\ DOMAIN Forgotten("DONE") = DOMAIN now
  BY DEF IInv, Types, Forgotten, NoRound
<1>2. CASE AfterAbort
  BY <1>1, <1>2 DEF AfterAbort, RoundEnds
<1>3. CASE AfterMessage
  BY <1>1, <1>3, GoOnEnds DEF AfterMessage, RoundEnds
<1>4. CASE AfterCycle
  <2>1. end' = [f \in DOMAIN end |-> end[f] \/ f \in {"stalled"}]
    BY <1>4 DEF AfterCycle, IInv, Types
  <2> QED BY <1>1, <1>4, <2>1 DEF AfterCycle, After, RoundEnds, Flags
<1>5. CASE AfterFailure
  <2>1. \/ \E l : Again(l)
        \/ \E l : \/ LeaveWith(l, {"failed", "unfinished"}) \/ LeaveWith(l, {"failed", "final"})
                  \/ LeaveWith(l, {"failed"}) \/ LeaveWith(l, {})
    BY <1>5 DEF AfterFailure
  <2>2. CASE \E l : Again(l)
    BY <1>1, <1>5, <2>2, GoOnEnds DEF AfterFailure, After, RoundEnds, Again
  <2>3. ASSUME NEW l, NEW flags \in SUBSET {"failed", "unfinished", "final"},
               "final" \in flags => "failed" \in flags, LeaveWith(l, flags)
        PROVE  RoundEnds
    BY <1>1, <1>5, <2>3 DEF AfterFailure, After, RoundEnds, LeaveWith, Flags
  <2> QED BY <2>1, <2>2, <2>3
<1>6. CASE AfterCandidate
  <2>1. \/ \E l : Again(l)
        \/ \E l : LeaveWith(l, {"unfinished", "final"}) \/ LeaveWith(l, {"final"})
    BY <1>6 DEF AfterCandidate
  <2>2. CASE \E l : Again(l)
    BY <1>1, <1>6, <2>2, GoOnEnds DEF AfterCandidate, After, RoundEnds, Again
  <2>3. ASSUME NEW l, NEW flags \in SUBSET {"unfinished", "final"}, LeaveWith(l, flags)
        PROVE  RoundEnds
    <3>1. ghost' = [ghost EXCEPT !.stale = FALSE] /\ ~ghost'.stale
      BY <1>6 DEF AfterCandidate, IInv, Types
    <3> QED BY <1>1, <1>6, <2>3, <3>1 DEF AfterCandidate, After, RoundEnds, LeaveWith, Flags
  <2> QED BY <2>1, <2>2, <2>3
<1>7. CASE AfterPlan
  <2>1. (\E l : Again(l)) \/ \E l : LeaveWith(l, {"stalled"})
    BY <1>7 DEF AfterPlan
  <2>2. CASE \E l : Again(l)
    BY <1>1, <1>7, <2>2, GoOnEnds DEF AfterPlan, After, RoundEnds, Again
  <2>3. ASSUME NEW l, LeaveWith(l, {"stalled"}) PROVE RoundEnds
    BY <1>1, <1>7, <2>3 DEF AfterPlan, After, RoundEnds, LeaveWith, Flags
  <2> QED BY <2>1, <2>2, <2>3
<1> QED BY <1>2, <1>3, <1>4, <1>5, <1>6, <1>7

LEMMA RoundEndStep == IInv /\ RoundEnds => IInv'
<1> SUFFICES ASSUME IInv, RoundEnds PROVE IInv'
  OBVIOUS
<1> USE DEF HasMessages, Aborted
<1>1. /\ end' \in [final : BOOLEAN, stalled : BOOLEAN, failed : BOOLEAN,
                   unfinished : BOOLEAN, synthesized : BOOLEAN, error : BOOLEAN]
      /\ ~end'.synthesized
      /\ end'.final => pc' = "synthesis" /\ (end'.failed \/ ~ghost'.stale)
  BY ZenonT(60) DEF RoundEnds, IInv, Types, Unconcluded, Rounding, Flags
<1>2. /\ pc = "after" /\ pc' \in {"top", "synthesis"} /\ UNCHANGED <<task, outcome>>
      /\ DOMAIN ghost' = DOMAIN ghost /\ ghost'.allowed = ghost.allowed
      /\ DOMAIN now' = DOMAIN now
  BY DEF RoundEnds, IInv, Types
<1>3. Types' /\ Asked'
  BY <1>1, <1>2 DEF IInv, Types, Asked, Rounding
<1>4. Unconcluded' /\ Concluded' /\ Closed'
  BY <1>1, <1>2 DEF IInv, Unconcluded, Concluded, Closed, Rounding
<1>5. Known' /\ NotLeft'
  BY <1>2 DEF IInv, Unconcluded, Known, NotLeft
<1> QED BY <1>3, <1>4, <1>5 DEF IInv

\* After the loop: an answer made of observations does not complete the run,
\* a message that waits reopens it.
LEMMA ConcludeStep == IInv /\ (Synthesize \/ Close) => IInv'
<1> SUFFICES ASSUME IInv, Synthesize \/ Close PROVE IInv'
  OBVIOUS
<1> USE DEF HasMessages, Aborted, Goto
<1>1. CASE Synthesize
  <2>1. Types'
    BY <1>1 DEF Synthesize, IInv, Types
  <2>2. Asked' /\ Closed' /\ Unconcluded'
    BY <1>1 DEF Synthesize, IInv, Asked, Closed, Unconcluded, Rounding
  <2>3. Concluded'
    BY <1>1 DEF Synthesize, IInv, Types, Concluded, Unconcluded
  <2>4. Known' /\ NotLeft'
    <3>1. pc = "synthesis" /\ outcome' = outcome /\ pc' = "closing"
      BY <1>1, Zenon DEF Synthesize
    <3>2. outcome = [st |-> "none", cancelled |-> FALSE, remembered |-> FALSE]
      BY <3>1 DEF IInv, Unconcluded
    <3>3. ~outcome.remembered
      BY <3>2
    <3> QED BY <3>1, <3>3 DEF Known, NotLeft
  <2> QED BY <2>1, <2>2, <2>3, <2>4 DEF IInv
<1>2. CASE Close
  <2>1. Types'
    BY <1>2, ZenonT(60) DEF Close, IInv, Types, Rounding, FreshEnd
  <2>2. Asked'
    BY <1>2 DEF Close, IInv, Types, Asked
  <2>3. Unconcluded'
    BY <1>2 DEF Close, IInv, Types, Unconcluded, FreshEnd, Rounding
  <2>4. Concluded' /\ Closed'
    BY <1>2 DEF Close, IInv, Types, Concluded, Closed
  <2>5. Known' /\ NotLeft'
    BY <1>2 DEF Close, IInv, Unconcluded, Known, NotLeft
  <2> QED BY <2>1, <2>2, <2>3, <2>4, <2>5 DEF IInv
<1> QED BY <1>1, <1>2

LEMMA SettleStep == IInv /\ Settle => IInv'
<1> SUFFICES ASSUME IInv, Settle PROVE IInv'
  OBVIOUS
<1> USE DEF HasMessages, Aborted, Goto
<1>1. Types'
  BY DEF Settle, IInv, Types
<1>2. Asked' /\ Unconcluded' /\ Concluded' /\ Closed'
  BY DEF Settle, IInv, Asked, Unconcluded, Concluded, Closed, Rounding
<1>3. PICK unmet \in BOOLEAN :
         LET unfinished == \/ end.unfinished \/ end.stalled \/ end.synthesized \/ end.failed
                           \/ tools.aborted \/ tools.open # {} \/ unmet
             st == IF unfinished THEN "FAILED" ELSE now.st
         IN  outcome' = [st |-> st, cancelled |-> Aborted, remembered |-> st = "DONE"]
  BY DEF Settle
<1>4. Known'
  BY <1>3 DEF Settle, IInv, Concluded, Known
<1>5. NotLeft'
  BY <1>3 DEF Settle, IInv, Closed, NotLeft
<1> QED BY <1>1, <1>2, <1>4, <1>5 DEF IInv

LEMMA IInvStep == IInv /\ [Next]_vars => IInv'
<1> SUFFICES ASSUME IInv, [Next]_vars PROVE IInv'
  OBVIOUS
<1>1. CASE UNCHANGED vars
  BY <1>1 DEF vars, IInv, Types, Asked, Unconcluded, Concluded, Closed, HasMessages, Aborted,
              Known, NotLeft
<1>2. CASE Step
  BY <1>2, EnterStep, TopStep, TopFailsStep, ReasonStep, ActStep, AfterEnds, RoundEndStep, ConcludeStep,
     SettleStep DEF Step
<1>3. CASE Environment
  BY <1>3, MessageStep, ClientStep DEF Environment
<1> QED BY <1>1, <1>2, <1>3 DEF Next, Over

LEMMA LoopInvariant == Spec => []IInv
BY IInvInit, IInvStep, PTL DEF Spec

\* A pass that lost a message has failed; what is accepted, waits or was lost.
Lost ==
    /\ ghost.lost \in {"none", "now", "before"}
    /\ ghost.lost = "now" =>
          \/ pc \in {"synthesis", "closing", "settling"} /\ now.st = "FAILED"
          \/ pc = "over" /\ outcome.st = "FAILED" /\ ~outcome.remembered
    /\ task.accepted >= task.pending + (IF ghost.lost = "none" THEN 0 ELSE 1)
    /\ ghost.lost = "before" => task.accepted >= 2

\* Within a round nothing is lost, and no message is taken.
LEMMA LostInside ==
    ASSUME Lost, pc \notin {"synthesis", "closing", "settling", "over"},
           ghost'.lost = ghost.lost, task'.accepted = task.accepted,
           task'.pending = task.pending
    PROVE  Lost'
BY DEF Lost

LEMMA LostStep == IInv /\ Lost /\ [Next]_vars => Lost'
<1> SUFFICES ASSUME IInv, Lost, [Next]_vars PROVE Lost'
  OBVIOUS
<1> USE DEF Goto, Leave
<1>0. /\ DOMAIN ghost = {"stale", "lost", "rounds", "allowed", "undone"}
      /\ task.pending \in Nat /\ task.accepted \in Nat
      /\ DOMAIN now = DOMAIN NoRound
  BY DEF IInv, Types
<1>1. CASE UNCHANGED vars \/ Over
  BY <1>1 DEF vars, Over, Lost
<1>2. CASE AddMessage
  BY <1>0, <1>2 DEF AddMessage, Lost, IInv, Types
<1>3. CASE Cancel \/ Expire \/ \E id \in Serials, allow \in BOOLEAN : Answer(id, allow)
  BY <1>0, <1>3 DEF Cancel, Expire, Answer, Lost, IInv, Types
<1>4. CASE Refuse
  BY <1>0, <1>4 DEF Refuse, Lost
<1>5. CASE Top
  BY <1>0, <1>5 DEF Top, Lost, IInv, Types
<1>6. CASE TopFails
  BY <1>0, <1>6 DEF TopFails, HasMessages, Lost, IInv, Types, NoRound
<1>7. CASE Enter \/ Reason
  BY <1>0, <1>7, LostInside DEF Enter, Reason
<1>8. CASE Hear \/ EndAsk \/ FinishActing
  BY <1>0, <1>8, LostInside DEF Hear, EndAsk, FinishActing, Acting, IInv, Types
<1>9. CASE \E t \in Targets : Ask(t) \/ Deny(t) \/ Invalid(t) \/ Cached(t) \/ Succeed(t) \/ Fail(t)
  <2>1. PICK t \in Targets :
           Ask(t) \/ Deny(t) \/ Invalid(t) \/ Cached(t) \/ Succeed(t) \/ Fail(t)
    BY <1>9
  <2>2. pc \notin {"synthesis", "closing", "settling", "over"}
    BY <2>1 DEF Ask, Deny, Invalid, Cached, Succeed, Fail, MayRun, Up, Next_, Acting
  <2>3. /\ ghost'.lost = ghost.lost /\ task'.accepted = task.accepted
        /\ task'.pending = task.pending
    BY <1>0, <2>1 DEF Ask, Deny, Invalid, Cached, Succeed, Fail, IInv, Types
  <2> QED BY <2>2, <2>3, LostInside
<1>10. CASE AfterAbort \/ AfterMessage \/ AfterCycle \/ AfterFailure \/ AfterCandidate \/ AfterPlan
  <2>1. pc = "after" /\ task' = task
    BY <1>10 DEF AfterAbort, AfterMessage, AfterCycle, AfterFailure, AfterCandidate, AfterPlan, After
  <2>2. ghost'.lost = ghost.lost
    BY <1>0, <1>10
       DEF AfterAbort, AfterMessage, AfterCycle, AfterFailure, AfterCandidate, AfterPlan
  <2> QED BY <2>1, <2>2, LostInside
<1>11. CASE Synthesize
  BY <1>11 DEF Synthesize, Lost
<1>12. CASE Close
  BY <1>0, <1>12 DEF Close, HasMessages, Lost, IInv, Types
<1>13. CASE Settle
  <2>1. PICK st \in {"FAILED", now.st} :
           outcome' = [st |-> st, cancelled |-> Aborted, remembered |-> st = "DONE"]
    BY <1>13 DEF Settle
  <2>2. pc = "settling" /\ pc' = "over" /\ task' = task /\ ghost' = ghost
    BY <1>13 DEF Settle
  <2>3. ghost.lost = "now" => outcome'.st = "FAILED" /\ ~outcome'.remembered
    BY <2>1, <2>2 DEF Lost
  <2> QED BY <2>2, <2>3 DEF Lost
<1> QED BY <1>1, <1>2, <1>3, <1>4, <1>5, <1>6, <1>7, <1>8, <1>9, <1>10, <1>11, <1>12, <1>13
        DEF Next, Step, Environment

LEMMA LostInvariant == Spec => []Lost
<1>1. Init => Lost
  BY DEF Init, Lost
<1> QED BY <1>1, LostStep, LoopInvariant, PTL DEF Spec

\* task_close_messages: "a message accepted during synthesis always gets
\* another planning pass", for any number of messages at any moment.
THEOREM AnswersKnowEveryMessage == Spec => []AnswerKnowsEveryMessage
<1>1. IInv /\ Lost => AnswerKnowsEveryMessage
  BY DEF IInv, Unconcluded, Rounding, Known, Lost, AnswerKnowsEveryMessage
<1> QED BY <1>1, LoopInvariant, LostInvariant, PTL

\* reasoning_run_ex leaves no accepted message behind but in a refused,
\* cancelled or expired run, and one it took and could not read in a run that
\* fails or is reopened by another message.
THEOREM NoneIsLost == Spec => []NoMessageIsLost
<1>1. IInv /\ Lost => NoMessageIsLost
  BY DEF IInv, NotLeft, Lost, NoMessageIsLost
<1> QED BY <1>1, LoopInvariant, LostInvariant, PTL

AllowedStep == \A t \in Gated : Succeed(t) \/ Fail(t) => task.ask = ghost.allowed

\* h_task_approval and h_act: the tool runs on an answer to its own request.
THEOREM GatedToolsWait == Spec => AllowedFirst
<1>1. IInv /\ [Next]_vars => AllowedStep
  BY DEF IInv, Asked, AllowedStep, Succeed, Fail, MayRun, Up, Next_
<1>2. IInv /\ [Next]_vars => [AllowedStep]_vars
  BY <1>1
<1>3. Spec => [][AllowedStep]_vars
  BY <1>2, LoopInvariant, PTL DEF Spec
<1> QED BY <1>3, PTL DEF AllowedFirst, AllowedStep

-----------------------------------------------------------------------------
(* What a completion shows *)

Tools == {"write", "shell", "read", "list", "glob"}
FileState == [version : Nat, content : {"none", "x", "y"}]
ToolStep == [tool : Tools \cup {"none"}, file : Files, page : 0 .. Pages - 1, id : Nat,
             ok : BOOLEAN, version : Nat]
Reading == [file : Files, version : Nat, page : 0 .. Pages - 1, id : Nat]

\* Where versions are kept, none is newer than the clock.
EvidenceTypes ==
    /\ clock \in Nat /\ disk \in [Files -> FileState] /\ undo \in Seq([file : Files, was : FileState])
    /\ action.stage \in {"none", "started", "ran"} /\ action.step \in ToolStep
    /\ action.before \in Nat /\ action.cached \in BOOLEAN
    /\ DOMAIN action = {"stage", "step", "before", "cached"}
    /\ steps \in Seq(ToolStep) /\ sequence \in Nat
    /\ receipts \in [Files -> [written : Nat, verified : Nat]]
    /\ artifact \in [Files -> [version : Nat, producer : Nat]]
    /\ pending \in [Files -> [version : Nat, next : 0 .. Pages]] /\ whole \in [Files -> Nat]
    /\ seen \subseteq Files \X (0 .. Pages - 1) \X Nat
    /\ failed \subseteq [tool : Tools, file : Files] /\ owed \in [Files -> Nat]
    /\ made \subseteq Files \X Nat /\ slipped \subseteq Files \X Nat /\ read \subseteq Reading
    /\ contract.artifacts \subseteq Files /\ contract.reads \subseteq Files
    /\ DOMAIN contract = {"artifacts", "reads", "acts"}
    /\ verdict = "accepted" => action.stage = "none"

Old(v) == v <= clock
VersionsAreOld ==
    /\ \A f \in Files :
          /\ Old(disk[f].version) /\ Old(receipts[f].written) /\ Old(receipts[f].verified)
          /\ Old(artifact[f].version) /\ Old(pending[f].version) /\ Old(whole[f])
    /\ Old(action.before)
    /\ \A k \in DOMAIN steps : Old(steps[k].version)
    /\ \A x \in seen : Old(x[3])
    /\ \A x \in made \cup slipped : Old(x[2])
    /\ made \cap slipped = {}

Own(f, v) == <<f, v>> \in made \cup slipped
PageRead(f, v, p) == \E r \in read : r.file = f /\ r.version = v /\ r.page = p
\* A version the run made, or one of others it does not know from its own, was read.
WasRead(f, v) == <<f, v>> \in made => \E r \in read : r.file = f /\ r.version = v
Opened(f) == \E r \in read : r.file = f

\* The tool under way and the file as it is now.
ActionFits ==
    LET f == action.step.file
        v == disk[f].version
    IN  action.stage # "none" =>
          /\ action.step.tool \in Tools
          /\ action.step.tool = "write" /\ action.stage = "ran" => Own(f, v)
          /\ action.step.tool = "shell" /\ v # action.before => Own(f, v)
          /\ action.step.tool = "read" =>
                /\ v # action.before => <<f, v>> \notin made
                /\ action.cached => <<f, action.step.page, action.before>> \in seen
                /\ action.stage = "ran" /\ action.step.ok /\ ~action.cached =>
                      /\ Opened(f)
                      /\ PageRead(f, v, action.step.page) \/ <<f, v>> \in slipped

\* What was kept of the tools before.
RegistryFits ==
    /\ \A k \in DOMAIN steps : steps[k].ok =>
          /\ steps[k].tool = "write" => Own(steps[k].file, steps[k].version)
          /\ steps[k].tool = "read" => WasRead(steps[k].file, steps[k].version)
    /\ \A x \in seen : WasRead(x[1], x[3]) /\ Opened(x[1])
    /\ \A f \in Files :
          /\ receipts[f].written # 0 => Own(f, receipts[f].written)
          /\ receipts[f].verified # 0 =>
                Own(f, receipts[f].verified) /\ WasRead(f, receipts[f].verified)
          /\ artifact[f].version # 0 => Own(f, artifact[f].version)
          /\ \A p \in 0 .. pending[f].next - 1 :
                PageRead(f, pending[f].version, p) \/ <<f, pending[f].version>> \in slipped
          /\ whole[f] # 0 => \A p \in 0 .. Pages - 1 :
                PageRead(f, whole[f], p) \/ <<f, whole[f]>> \in slipped

\* A file whose read failed was read later, or the failure is known.
OwedFits ==
    \A f \in Files : owed[f] # 0 =>
        \/ [tool |-> "read", file |-> f] \in failed \/ overflow
        \/ Opened(f) \/ (f = Guess /\ Opened(Real))

EvidenceInv ==
    /\ EvidenceTypes /\ VersionsAreOld /\ ActionFits /\ RegistryFits /\ OwedFits
    /\ Proof!EvidenceSafe

\* A set of numbers below n has a largest.
LEMMA LastExists ==
    ASSUME NEW n \in Nat, NEW S, S # {}, S \subseteq 1 .. n
    PROVE  \E i \in S : \A j \in S : j <= i
<1> DEFINE T == {n - k : k \in S}
<1>1. T \in SUBSET Nat /\ T # {}
  <2>1. \A k \in S : n - k \in Nat
    OBVIOUS
  <2> QED BY <2>1
<1> HIDE DEF T
<1>2. PICK d \in T : \A e \in T : <<e, d>> \notin OpToRel(<, Nat)
  BY <1>1, WFMin, NatLessThanWellFounded, Zenon
<1>3. \A e \in T : ~(e < d)
  BY <1>1, <1>2, Zenon DEF OpToRel
<1>4. \A e \in T : d <= e
  BY <1>1, <1>3
<1>5. PICK m \in S : d = n - m
  BY DEF T
<1>6. \A k \in S : n - m <= n - k
  BY <1>4, <1>5 DEF T
<1> QED BY <1>6

\* What was read and made before stays so, for the versions there were.
LEMMA PastStays ==
    ASSUME VersionsAreOld, read \subseteq read', slipped \subseteq slipped', made \subseteq made',
           \A x \in made' \ made : x[2] > clock
    PROVE  /\ \A f, v : Own(f, v) => Own(f, v)'
           /\ \A f, v, p : PageRead(f, v, p) => PageRead(f, v, p)'
           /\ \A f : Opened(f) => Opened(f)'
           /\ \A f, v : v \in Nat /\ clock \in Nat /\ Old(v) /\ WasRead(f, v) => WasRead(f, v)'
<1>1. \A f, v : Own(f, v) => Own(f, v)'
  BY DEF Own
<1>2. \A f, v, p : PageRead(f, v, p) => PageRead(f, v, p)'
  BY DEF PageRead
<1>3. \A f : Opened(f) => Opened(f)'
  BY DEF Opened
<1>4. ASSUME NEW f, NEW v \in Nat, clock \in Nat, Old(v), WasRead(f, v) PROVE WasRead(f, v)'
  <2>1. <<f, v>> \in made' => <<f, v>> \in made
    <3>1. ~(v > clock) /\ <<f, v>>[2] = v
      BY <1>4 DEF Old
    <3> QED BY <3>1
  <2> QED BY <1>4, <2>1 DEF WasRead
<1> QED BY <1>1, <1>2, <1>3, <1>4

\* So does what is kept of the tools, as long as nothing is added to it.
LEMMA RegistryStays ==
    ASSUME EvidenceTypes, VersionsAreOld, RegistryFits,
           read \subseteq read', slipped \subseteq slipped', made \subseteq made',
           \A x \in made' \ made : x[2] > clock,
           UNCHANGED <<steps, receipts, artifact, pending, whole>>, seen' \subseteq seen
    PROVE  RegistryFits'
<1>1. /\ \A f, v : Own(f, v) => Own(f, v)'
      /\ \A f, v, p : PageRead(f, v, p) => PageRead(f, v, p)'
      /\ \A f : Opened(f) => Opened(f)'
      /\ \A f, v : v \in Nat /\ clock \in Nat /\ Old(v) /\ WasRead(f, v) => WasRead(f, v)'
  BY PastStays, Zenon
<1>2. clock \in Nat
  BY DEF EvidenceTypes
<1>3. ASSUME NEW k \in DOMAIN steps, steps[k].ok
      PROVE  /\ steps[k].tool = "write" => Own(steps[k].file, steps[k].version)'
             /\ steps[k].tool = "read" => WasRead(steps[k].file, steps[k].version)'
  <2>1. steps[k] \in ToolStep
    BY ElementOfSeq, LenProperties DEF EvidenceTypes
  <2>2. steps[k].version \in Nat /\ Old(steps[k].version)
    BY <2>1 DEF ToolStep, VersionsAreOld
  <2>3. /\ steps[k].tool = "write" => Own(steps[k].file, steps[k].version)
        /\ steps[k].tool = "read" => WasRead(steps[k].file, steps[k].version)
    BY <1>3 DEF RegistryFits
  <2>4. PICK f, v : f = steps[k].file /\ v = steps[k].version
    OBVIOUS
  <2>5. Own(f, v)' => Own(steps[k].file, steps[k].version)'
    BY <2>4
  <2>6. WasRead(f, v)' => WasRead(steps[k].file, steps[k].version)'
    BY <2>4
  <2> QED BY <1>1, <1>2, <2>2, <2>3, <2>4, <2>5, <2>6
<1>4. \A x \in seen' : WasRead(x[1], x[3])' /\ Opened(x[1])'
  <2>1. ASSUME NEW x \in seen PROVE WasRead(x[1], x[3])' /\ Opened(x[1])'
    <3>1. x[3] \in Nat /\ Old(x[3]) /\ WasRead(x[1], x[3]) /\ Opened(x[1])
      BY <2>1 DEF EvidenceTypes, VersionsAreOld, RegistryFits
    <3> QED BY <1>1, <1>2, <3>1
  <2> QED BY <2>1
<1>5. ASSUME NEW f \in Files
      PROVE  /\ receipts'[f].written # 0 => Own(f, receipts[f].written)'
             /\ receipts'[f].verified # 0 =>
                   Own(f, receipts[f].verified)' /\ WasRead(f, receipts[f].verified)'
             /\ artifact'[f].version # 0 => Own(f, artifact[f].version)'
             /\ \A p \in 0 .. pending[f].next - 1 :
                   PageRead(f, pending[f].version, p)' \/ <<f, pending[f].version>> \in slipped'
             /\ whole[f] # 0 => \A p \in 0 .. Pages - 1 :
                   PageRead(f, whole[f], p)' \/ <<f, whole[f]>> \in slipped'
  <2>1. receipts[f].verified \in Nat /\ Old(receipts[f].verified)
    BY DEF EvidenceTypes, VersionsAreOld
  <2>2. PICK w, u, a, n, h : w = receipts[f].written /\ u = receipts[f].verified
            /\ a = artifact[f].version /\ n = pending[f].version /\ h = whole[f]
    OBVIOUS
  <2>3. /\ w = receipts'[f].written /\ u = receipts'[f].verified
        /\ a = artifact'[f].version /\ n = pending'[f].version /\ h = whole'[f]
    BY <2>2
  <2>4. /\ w # 0 => Own(f, w) /\ Own(f, w)'
        /\ u # 0 => Own(f, u)' /\ WasRead(f, u)'
        /\ a # 0 => Own(f, a)'
        /\ \A p \in 0 .. pending[f].next - 1 : PageRead(f, n, p)' \/ <<f, n>> \in slipped'
        /\ h # 0 => \A p \in 0 .. Pages - 1 : PageRead(f, h, p)' \/ <<f, h>> \in slipped'
    BY <1>1, <1>2, <2>1, <2>2 DEF RegistryFits
  <2> QED BY <2>2, <2>3, <2>4
<1>6. \A k \in DOMAIN steps' : steps'[k].ok =>
          /\ steps'[k].tool = "write" => Own(steps[k].file, steps[k].version)'
          /\ steps'[k].tool = "read" => WasRead(steps[k].file, steps[k].version)'
  BY <1>3
<1> QED BY <1>4, <1>5, <1>6 DEF RegistryFits

\* And what is still owed to a failed read.
LEMMA OwedStays ==
    ASSUME OwedFits, read \subseteq read', UNCHANGED <<failed, overflow, owed>>
    PROVE  OwedFits'
<1>1. \A f : Opened(f) => Opened(f)'
  BY DEF Opened
<1> QED BY <1>1 DEF OwedFits

\* A run begins with no evidence at all.
LEMMA EvidenceStarts == Proof!Init => EvidenceInv
<1> SUFFICES ASSUME Proof!Init PROVE EvidenceInv
  OBVIOUS
<1>1. /\ disk \in [Files -> {Proof!Missing, [version |-> 1, content |-> "x"]}]
      /\ clock = 1 /\ action = Proof!NoAction /\ undo = <<>> /\ steps = <<>> /\ sequence = 0
      /\ receipts = [f \in Files |-> [written |-> 0, verified |-> 0]]
      /\ artifact = [f \in Files |-> [version |-> 0, producer |-> 0]]
      /\ pending = [f \in Files |-> [version |-> 0, next |-> 0]]
      /\ whole = [f \in Files |-> 0] /\ seen = {} /\ failed = {}
      /\ verdict = "open" /\ made = {} /\ read = {} /\ slipped = {} /\ owed = [f \in Files |-> 0]
  BY DEF Proof!Init
<1>2. PICK reads \in {{}, {Real}} : contract = [artifacts |-> {}, reads |-> reads, acts |-> FALSE]
  BY DEF Proof!Init
<1>3. Proof!NoAction.stage = "none" /\ Proof!NoAction.before = 0 /\ Proof!NoAction.cached = FALSE
      /\ Proof!NoAction.step \in ToolStep /\ DOMAIN Proof!NoAction = {"stage", "step", "before", "cached"}
  BY EvidenceAssumption DEF Proof!NoAction, Proof!NoStep, ToolStep
<1>4. disk \in [Files -> FileState] /\ \A f \in Files : disk[f].version \in {0, 1}
  BY <1>1 DEF FileState, Proof!Missing
<1>5. /\ receipts \in [Files -> [written : Nat, verified : Nat]]
      /\ artifact \in [Files -> [version : Nat, producer : Nat]]
      /\ pending \in [Files -> [version : Nat, next : 0 .. Pages]] /\ whole \in [Files -> Nat]
      /\ owed \in [Files -> Nat]
  BY <1>1, EvidenceAssumption
<1>6. contract.artifacts \subseteq Files /\ contract.reads \subseteq Files
      /\ DOMAIN contract = {"artifacts", "reads", "acts"}
  BY <1>2, EvidenceAssumption
<1>7. EvidenceTypes
  <2>1. /\ action.stage = "none" /\ action.before \in Nat /\ action.cached \in BOOLEAN
        /\ action.step \in ToolStep /\ DOMAIN action = {"stage", "step", "before", "cached"}
    <3>1. Proof!NoAction.before \in Nat
      BY <1>3
    <3>2. Proof!NoAction.cached \in BOOLEAN
      BY <1>3, Zenon
    <3> QED BY <1>1, <1>3, <3>1, <3>2, Zenon
  <2>2. undo \in Seq([file : Files, was : FileState]) /\ steps \in Seq(ToolStep)
    BY <1>1, EmptySeq
  <2>3. /\ clock \in Nat /\ sequence \in Nat /\ verdict # "accepted"
        /\ seen \subseteq Files \X (0 .. Pages - 1) \X Nat
        /\ failed \subseteq [tool : Tools, file : Files]
        /\ made \subseteq Files \X Nat /\ slipped \subseteq Files \X Nat /\ read \subseteq Reading
    BY <1>1
  <2> QED BY <1>4, <1>5, <1>6, <2>1, <2>2, <2>3 DEF EvidenceTypes
<1>8. VersionsAreOld
  BY <1>1, <1>3, <1>4 DEF VersionsAreOld, Old
<1>9. ActionFits /\ OwedFits
  BY <1>1, <1>3 DEF ActionFits, OwedFits
<1>10. RegistryFits
  BY <1>1 DEF RegistryFits
<1>11. Proof!EvidenceSafe
  BY <1>1 DEF Proof!EvidenceSafe, Proof!EvidenceIsReal, Proof!FailuresAnswered
<1> QED BY <1>7, <1>8, <1>9, <1>10, <1>11 DEF EvidenceInv

\* Nothing is accepted by a step that leaves the verdict open.
LEMMA NothingAccepted == verdict' # "accepted" => Proof!EvidenceSafe'
BY DEF Proof!EvidenceSafe, Proof!EvidenceIsReal, Proof!FailuresAnswered

\* A tool is called; a read may be answered from what was seen before.
LEMMA ToolStarts ==
    ASSUME EvidenceInv, NEW tool \in Tools, NEW f \in Files, NEW page \in 0 .. Pages - 1,
           Proof!Start(tool, f, page)
    PROVE  EvidenceInv'
<1>1. PICK cached \in {FALSE, tool = "read" /\ <<f, page, disk[f].version>> \in seen} :
         action' = [stage |-> "started", before |-> disk[f].version, cached |-> cached,
                    step |-> [Proof!NoStep EXCEPT !.tool = tool, !.file = f, !.page = page]]
  BY DEF Proof!Start
<1>2. /\ verdict = "open" /\ verdict' = verdict
      /\ UNCHANGED <<disk, clock, steps, sequence, receipts, artifact, pending, whole, seen,
                     failed, overflow, undo, contract, made, read, slipped, owed>>
  BY DEF Proof!Start, Proof!files, Proof!registry, Proof!round, Proof!promises, Proof!progress,
         Proof!history
<1>3. PICK x : /\ x = [Proof!NoStep EXCEPT !.tool = tool, !.file = f, !.page = page]
               /\ x \in ToolStep /\ x.tool = tool /\ x.file = f /\ x.page = page
  <2>1. PICK x : x = [Proof!NoStep EXCEPT !.tool = tool, !.file = f, !.page = page]
    OBVIOUS
  <2>2. x = [tool |-> tool, file |-> f, page |-> page, id |-> 0, ok |-> FALSE, version |-> 0]
    BY <2>1 DEF Proof!NoStep
  <2> QED BY <2>1, <2>2 DEF ToolStep
<1>4. /\ action'.stage = "started" /\ action'.before = disk[f].version /\ action'.step = x
      /\ DOMAIN action' = {"stage", "step", "before", "cached"} /\ action'.cached = cached
  BY <1>1, <1>3
<1>5. disk[f].version \in Nat /\ Old(disk[f].version)
  BY DEF EvidenceInv, EvidenceTypes, VersionsAreOld, FileState
<1>6. cached \in BOOLEAN
  BY <1>1
<1>7. EvidenceTypes'
  BY <1>2, <1>3, <1>4, <1>5, <1>6 DEF EvidenceInv, EvidenceTypes
<1>8. VersionsAreOld'
  BY <1>2, <1>4, <1>5 DEF EvidenceInv, VersionsAreOld, Old
<1>9. ActionFits'
  <2>1. cached => tool = "read" /\ <<f, page, disk[f].version>> \in seen
    BY <1>1
  <2> QED BY <1>2, <1>3, <1>4, <2>1 DEF ActionFits
<1>10. RegistryFits'
  BY <1>2, RegistryStays DEF EvidenceInv
<1>11. OwedFits'
  BY <1>2, OwedStays DEF EvidenceInv
<1> QED BY <1>2, <1>7, <1>8, <1>9, <1>10, <1>11, NothingAccepted DEF EvidenceInv

\* A change of a file gives it a version that was nowhere before.
LEMMA FileChanges ==
    ASSUME EvidenceTypes, VersionsAreOld, NEW f \in Files, NEW content \in {"x", "y"},
           Proof!Changed(f, content)
    PROVE  /\ clock' = clock + 1 /\ clock' \in Nat /\ disk' \in [Files -> FileState]
           /\ disk'[f].version = clock + 1
           /\ \A g \in Files : g # f => disk'[g] = disk[g]
           /\ \A g \in Files : disk'[g].version <= clock + 1
           /\ <<f, clock + 1>> \notin made \cup slipped
           /\ \A v \in Nat : Old(v) => Old(v)' /\ v # clock + 1
<1>1. /\ clock' = clock + 1 /\ clock \in Nat
      /\ disk' = [disk EXCEPT ![f] = [version |-> clock + 1, content |-> content]]
      /\ disk \in [Files -> FileState] /\ \A g \in Files : disk[g].version <= clock
  BY DEF Proof!Changed, EvidenceTypes, VersionsAreOld, Old
<1>2. [version |-> clock + 1, content |-> content] \in FileState
  BY <1>1 DEF FileState
<1>3. disk' \in [Files -> FileState] /\ disk'[f].version = clock + 1
      /\ \A g \in Files : g # f => disk'[g] = disk[g]
  BY <1>1, <1>2
<1>4. \A g \in Files : disk'[g].version <= clock + 1
  BY <1>1, <1>3 DEF FileState
<1>5. <<f, clock + 1>> \notin made \cup slipped
  <2>1. \A x \in made \cup slipped : x[2] <= clock
    BY DEF VersionsAreOld, Old
  <2>2. <<f, clock + 1>>[2] = clock + 1 /\ ~(clock + 1 <= clock)
    BY <1>1
  <2> QED BY <2>1, <2>2
<1>6. \A v \in Nat : Old(v) => Old(v)' /\ v # clock + 1
  BY <1>1 DEF Old
<1> QED BY <1>1, <1>3, <1>4, <1>5, <1>6

\* Of what is kept nothing changes but the clock and what was made or slipped in.
LEMMA VersionsStayOld ==
    ASSUME EvidenceTypes, VersionsAreOld, clock' \in Nat, clock <= clock',
           \A f \in Files : disk'[f].version <= clock',
           UNCHANGED <<receipts, artifact, pending, whole, steps>>, seen' \subseteq seen,
           action'.before = action.before,
           \A x \in made' \cup slipped' : x \in made \cup slipped \/ x[2] = clock',
           made' \cap slipped' = {}
    PROVE  VersionsAreOld'
<1>1. clock \in Nat
  BY DEF EvidenceTypes
<1>2. \A v \in Nat : Old(v) => Old(v)'
  BY <1>1 DEF Old
<1>3. ASSUME NEW f \in Files
      PROVE  /\ disk'[f].version <= clock'
             /\ receipts[f].written <= clock' /\ receipts[f].verified <= clock'
             /\ artifact[f].version <= clock' /\ pending[f].version <= clock'
             /\ whole[f] <= clock'
  <2>1. /\ receipts[f].written \in Nat /\ receipts[f].verified \in Nat
        /\ artifact[f].version \in Nat /\ pending[f].version \in Nat /\ whole[f] \in Nat
    BY DEF EvidenceTypes
  <2>2. /\ receipts[f].written <= clock /\ receipts[f].verified <= clock
        /\ artifact[f].version <= clock /\ pending[f].version <= clock /\ whole[f] <= clock
    BY DEF VersionsAreOld, Old
  <2> QED BY <1>1, <2>1, <2>2 DEF Old
<1>4. action'.before <= clock'
  BY <1>1 DEF EvidenceTypes, VersionsAreOld, Old
<1>5. \A k \in DOMAIN steps : steps[k].version <= clock'
  <2>1. ASSUME NEW k \in DOMAIN steps PROVE steps[k].version <= clock'
    <3>1. steps[k] \in ToolStep
      BY ElementOfSeq, LenProperties DEF EvidenceTypes
    <3> QED BY <1>1, <3>1 DEF ToolStep, VersionsAreOld, Old
  <2> QED BY <2>1
<1>6. \A x \in seen' : x[3] <= clock'
  BY <1>1 DEF EvidenceTypes, VersionsAreOld, Old
<1>7. \A x \in made' \cup slipped' : x[2] <= clock'
  <2>1. \A x \in made \cup slipped : x[2] \in Nat /\ x[2] <= clock
    BY DEF EvidenceTypes, VersionsAreOld, Old
  <2> QED BY <1>1, <2>1
<1> QED BY <1>3, <1>4, <1>5, <1>6, <1>7 DEF VersionsAreOld, Old

\* Another program changes a file.
LEMMA OthersChange ==
    ASSUME EvidenceInv, NEW f \in Files, Proof!Outside(f) PROVE EvidenceInv'
<1>1. /\ verdict = "open" /\ verdict' = verdict /\ Proof!Changed(f, "x") /\ action' = action
      /\ slipped' = IF /\ action.stage # "none" /\ action.step.file = f
                       /\ action.stage = "ran" \/ action.step.tool = "shell"
                    THEN slipped \cup {<<f, clock + 1>>} ELSE slipped
      /\ UNCHANGED <<steps, sequence, receipts, artifact, pending, whole, seen,
                     failed, overflow, undo, contract, made, read, owed>>
  BY DEF Proof!Outside, Proof!registry, Proof!round, Proof!promises, Proof!progress
<1>2. EvidenceTypes /\ VersionsAreOld /\ ActionFits /\ RegistryFits /\ OwedFits
  BY DEF EvidenceInv
<1>3. /\ clock' = clock + 1 /\ clock' \in Nat /\ disk' \in [Files -> FileState]
      /\ disk'[f].version = clock + 1
      /\ \A g \in Files : g # f => disk'[g] = disk[g]
      /\ \A g \in Files : disk'[g].version <= clock + 1
      /\ <<f, clock + 1>> \notin made \cup slipped
  BY <1>1, <1>2, FileChanges
<1>4. slipped \subseteq slipped' /\ slipped' \subseteq slipped \cup {<<f, clock + 1>>}
  BY <1>1
<1>5. slipped' \subseteq Files \X Nat /\ made \cap slipped' = {}
  <2>1. slipped \subseteq Files \X Nat /\ made \cap slipped = {}
    BY <1>2 DEF EvidenceTypes, VersionsAreOld
  <2>2. <<f, clock + 1>> \in Files \X Nat
    BY <1>3
  <2> QED BY <1>3, <1>4, <2>1, <2>2
<1>6. EvidenceTypes'
  BY <1>1, <1>2, <1>3, <1>5 DEF EvidenceTypes
<1>7. VersionsAreOld'
  <2>1. clock <= clock'
    BY <1>2, <1>3 DEF EvidenceTypes
  <2>2. \A x \in made' \cup slipped' : x \in made \cup slipped \/ x[2] = clock'
    BY <1>1, <1>3, <1>4
  <2>3. \A g \in Files : disk'[g].version <= clock'
    BY <1>3
  <2> QED BY <1>1, <1>2, <1>3, <1>5, <2>1, <2>2, <2>3, VersionsStayOld
<1>8. RegistryFits'
  BY <1>1, <1>2, <1>4, RegistryStays
<1>9. OwedFits'
  BY <1>1, <1>2, OwedStays
<1>10. ActionFits'
  <2> DEFINE g == action.step.file
  <2>1. g \in Files
    BY <1>2 DEF EvidenceTypes, ToolStep
  <2>2. CASE g # f
    <3>1. disk'[g].version = disk[g].version
      BY <1>3, <2>1, <2>2
    <3> QED BY <1>1, <1>2, <1>4, <2>2, <3>1 DEF ActionFits, Own, Opened, PageRead
  <2>3. CASE g = f
    <3>1. /\ disk'[g].version = clock + 1 /\ <<g, clock + 1>> \notin made
          /\ action.stage = "ran" \/ (action.stage # "none" /\ action.step.tool = "shell") =>
                <<g, clock + 1>> \in slipped'
      BY <1>1, <1>3, <2>3
    <3> QED BY <1>1, <1>2, <2>3, <3>1 DEF ActionFits, Own, Opened, PageRead
  <2> QED BY <2>2, <2>3
<1> QED BY <1>1, <1>6, <1>7, <1>8, <1>9, <1>10, NothingAccepted DEF EvidenceInv

\* A tool does its work.
LEMMA ToolWorks ==
    ASSUME EvidenceInv, Proof!Write \/ Proof!Command \/ Proof!ReadPage \/ Proof!Look
    PROVE  EvidenceInv'
<1> DEFINE f == action.step.file
<1>1. PICK ok \in BOOLEAN : action' = [action EXCEPT !.stage = "ran", !.step.ok = ok]
                            /\ (Proof!ReadPage => ok = (action.cached \/ Proof!There(f)))
  <2>1. CASE Proof!Write
    BY <2>1 DEF Proof!Write, Proof!Did, Proof!ReadPage
  <2>2. CASE Proof!Command
    BY <2>2 DEF Proof!Command, Proof!Did, Proof!ReadPage
  <2>3. CASE Proof!ReadPage
    <3>1. (action.cached \/ Proof!There(f)) \in BOOLEAN
      BY DEF Proof!There
    <3> QED BY <2>3, <3>1, Zenon DEF Proof!ReadPage, Proof!Did
  <2>4. CASE Proof!Look
    BY <2>4 DEF Proof!Look, Proof!Did, Proof!ReadPage
  <2> QED BY <2>1, <2>2, <2>3, <2>4
<1>2. EvidenceTypes /\ VersionsAreOld /\ ActionFits /\ RegistryFits /\ OwedFits
  BY DEF EvidenceInv
<1>3. /\ action.stage = "started" /\ verdict' = verdict
      /\ UNCHANGED <<steps, sequence, receipts, artifact, pending, whole, seen,
                     failed, overflow, contract, slipped, owed>>
  BY DEF Proof!Write, Proof!Command, Proof!ReadPage, Proof!Look, Proof!registry, Proof!promises,
         Proof!progress, Proof!history
<1>4. f \in Files /\ verdict # "accepted" /\ clock \in Nat /\ action.step \in ToolStep
  BY <1>2, <1>3 DEF EvidenceTypes, ToolStep
<1>5. /\ action'.stage = "ran" /\ action'.before = action.before /\ action'.cached = action.cached
      /\ action'.step \in ToolStep /\ action'.step.file = f /\ action'.step.tool = action.step.tool
      /\ action'.step.page = action.step.page /\ action'.step.ok = ok
      /\ DOMAIN action' = {"stage", "step", "before", "cached"}
  <2>1. [action.step EXCEPT !.ok = ok] \in ToolStep
    BY <1>4 DEF ToolStep
  <2>2. PICK x : x = [action.step EXCEPT !.ok = ok]
    OBVIOUS
  <2>3. /\ x.file = f /\ x.tool = action.step.tool /\ x.page = action.step.page /\ x.ok = ok
    BY <1>4, <2>2 DEF ToolStep
  <2>4. action' = [action EXCEPT !.stage = "ran", !.step = x]
    BY <1>1, <2>2
  <2>5. DOMAIN action = {"stage", "step", "before", "cached"}
    BY <1>2 DEF EvidenceTypes
  <2> QED BY <2>1, <2>2, <2>3, <2>4, <2>5
<1>6. \/ disk' = disk /\ clock' = clock /\ made' = made
      \/ /\ \E content \in {"x", "y"} : Proof!Changed(f, content)
         /\ made' = made \cup {<<f, clock + 1>>} /\ ~Proof!ReadPage /\ ~Proof!Look
  BY DEF Proof!Write, Proof!Command, Proof!ReadPage, Proof!Look, Proof!files, Proof!history
<1>7. /\ clock' \in Nat /\ clock <= clock' /\ disk' \in [Files -> FileState]
      /\ \A g \in Files : disk'[g].version <= clock'
      /\ made \subseteq made' /\ made' \subseteq made \cup {<<f, clock + 1>>}
      /\ made' # made => clock' = clock + 1
      /\ made' \subseteq Files \X Nat /\ made' \cap slipped = {}
      /\ \/ disk' = disk /\ made' = made
         \/ /\ disk'[f].version = clock + 1 /\ <<f, clock + 1>> \in made'
  <2>1. made \subseteq Files \X Nat /\ made \cap slipped = {}
    BY <1>2 DEF EvidenceTypes, VersionsAreOld
  <2>2. CASE disk' = disk /\ clock' = clock /\ made' = made
    <3>1. disk \in [Files -> FileState] /\ \A g \in Files : disk[g].version <= clock
      BY <1>2 DEF EvidenceTypes, VersionsAreOld, Old
    <3>2. clock' \in Nat /\ clock <= clock'
      BY <1>4, <2>2
    <3>3. disk' \in [Files -> FileState] /\ \A g \in Files : disk'[g].version <= clock'
      BY <2>2, <3>1
    <3> QED BY <2>1, <2>2, <3>2, <3>3
  <2>3. ASSUME NEW content \in {"x", "y"}, Proof!Changed(f, content),
               made' = made \cup {<<f, clock + 1>>}
        PROVE  <1>7
    <3>1. /\ clock' = clock + 1 /\ clock' \in Nat /\ disk' \in [Files -> FileState]
          /\ disk'[f].version = clock + 1
          /\ \A g \in Files : disk'[g].version <= clock + 1
          /\ <<f, clock + 1>> \notin made \cup slipped
      BY <1>2, <1>4, <2>3, FileChanges
    <3>2. <<f, clock + 1>> \in Files \X Nat
      BY <1>4, <3>1
    <3> QED BY <1>4, <2>1, <2>3, <3>1, <3>2
  <2> QED BY <1>6, <2>2, <2>3
<1>8. /\ read \subseteq read' /\ read' \subseteq Reading
      /\ ~Proof!ReadPage => read' = read
      /\ Proof!ReadPage /\ ok /\ ~action.cached =>
            \E r \in read' : r.file = f /\ r.version = disk[f].version /\ r.page = action.step.page
  <2>1. read \subseteq Reading
    BY <1>2 DEF EvidenceTypes
  <2>2. CASE Proof!ReadPage
    <3>1. read' = IF ~action.cached /\ Proof!There(f)
                  THEN read \cup {[file |-> f, version |-> disk[f].version,
                                   page |-> action.step.page, id |-> sequence + 1]}
                  ELSE read
      BY <2>2 DEF Proof!ReadPage
    <3>2. PICK r : r = [file |-> f, version |-> disk[f].version,
                        page |-> action.step.page, id |-> sequence + 1]
      OBVIOUS
    <3>3. r \in Reading /\ r.file = f /\ r.version = disk[f].version /\ r.page = action.step.page
      BY <1>2, <1>4, <3>2 DEF EvidenceTypes, FileState, ToolStep, Reading
    <3>4. ok /\ ~action.cached => Proof!There(f)
      BY <1>1, <2>2
    <3> QED BY <2>1, <2>2, <3>1, <3>2, <3>3, <3>4
  <2>3. CASE ~Proof!ReadPage
    <3>1. read' = read
      BY <2>3 DEF Proof!Write, Proof!Command, Proof!Look, Proof!history
    <3> QED BY <2>1, <2>3, <3>1
  <2> QED BY <2>2, <2>3
<1>9. undo' \in Seq([file : Files, was : FileState])
  <2>1. undo \in Seq([file : Files, was : FileState]) /\ disk[f] \in FileState
    BY <1>2, <1>4 DEF EvidenceTypes
  <2>2. [file |-> f, was |-> disk[f]] \in [file : Files, was : FileState]
    BY <1>4, <2>1
  <2>3. undo' = undo \/ undo' = Append(undo, [file |-> f, was |-> disk[f]])
    BY DEF Proof!Write, Proof!Command, Proof!ReadPage, Proof!Look, Proof!round
  <2>4. Append(undo, [file |-> f, was |-> disk[f]]) \in Seq([file : Files, was : FileState])
    BY <2>1, <2>2, AppendProperties
  <2> QED BY <2>1, <2>3, <2>4
<1>10. EvidenceTypes'
  <2>1. action'.stage \in {"none", "started", "ran"} /\ action'.before \in Nat
        /\ action'.cached \in BOOLEAN
    <3>1. action.cached \in BOOLEAN
      BY <1>2, Zenon DEF EvidenceTypes
    <3>2. action'.cached \in BOOLEAN
      BY <1>5, <3>1, Zenon
    <3> QED BY <1>2, <1>5, <3>2 DEF EvidenceTypes
  <2> QED BY <1>2, <1>3, <1>4, <1>5, <1>7, <1>8, <1>9, <2>1 DEF EvidenceTypes
<1>11. VersionsAreOld'
  <2>1. \A x \in made' \cup slipped' : x \in made \cup slipped \/ x[2] = clock'
    BY <1>3, <1>7
  <2>2. made' \cap slipped' = {}
    BY <1>3, <1>7
  <2> QED BY <1>2, <1>3, <1>5, <1>7, <2>1, <2>2, VersionsStayOld
<1>12. RegistryFits'
  <2>1. \A x \in made' \ made : x[2] > clock
    BY <1>4, <1>7
  <2> QED BY <1>2, <1>3, <1>7, <1>8, <2>1, RegistryStays
<1>13. OwedFits'
  BY <1>2, <1>3, <1>8, OwedStays
<1>14. ActionFits'
  <2>1. action.step.tool \in Tools
    BY <1>2, <1>3 DEF ActionFits
  <2>2. CASE action.step.tool = "write"
    <3>1. <<f, disk'[f].version>> \in made' \cup slipped'
      <4>1. Proof!Write
        BY <2>2 DEF Proof!Command, Proof!ReadPage, Proof!Look
      <4>2. made' = made \cup {<<f, clock + 1>>} /\ Proof!Changed(f, "x")
        BY <4>1 DEF Proof!Write
      <4>3. disk'[f].version = clock + 1
        BY <1>2, <1>4, <4>2, FileChanges
      <4> QED BY <4>2, <4>3
    <3> QED BY <1>5, <2>1, <2>2, <3>1 DEF ActionFits, Own
  <2>3. CASE action.step.tool = "shell"
    <3>1. disk'[f].version # action.before => <<f, disk'[f].version>> \in made' \cup slipped'
      <4>1. disk[f].version # action.before => <<f, disk[f].version>> \in made \cup slipped
        BY <1>2, <1>3, <2>3 DEF ActionFits, Own
      <4> QED BY <1>3, <1>7, <4>1
    <3> QED BY <1>5, <2>1, <2>3, <3>1 DEF ActionFits, Own
  <2>4. CASE action.step.tool = "read"
    <3>1. Proof!ReadPage
      BY <2>4 DEF Proof!Write, Proof!Command, Proof!ReadPage, Proof!Look
    <3>2. disk' = disk /\ made' = made
      BY <1>6, <3>1
    <3>3. /\ disk[f].version # action.before => <<f, disk[f].version>> \notin made
          /\ action.cached => <<f, action.step.page, action.before>> \in seen
      BY <1>2, <1>3, <2>4 DEF ActionFits
    <3>4. ok /\ ~action.cached =>
             \E r \in read' : r.file = f /\ r.version = disk[f].version /\ r.page = action.step.page
      BY <1>8, <3>1
    <3> QED BY <1>3, <1>5, <2>1, <2>4, <3>2, <3>3, <3>4 DEF ActionFits, Opened, PageRead
  <2>5. CASE action.step.tool \notin {"write", "shell", "read"}
    BY <1>5, <2>1, <2>5 DEF ActionFits
  <2> QED BY <2>2, <2>3, <2>4, <2>5
<1> QED BY <1>3, <1>4, <1>10, <1>11, <1>12, <1>13, <1>14, NothingAccepted DEF EvidenceInv

\* The registry of steps goes on: the oldest one may leave.
LEMMA StepsGoOn ==
    ASSUME EvidenceTypes, NEW x \in ToolStep,
           steps' = Append(IF Len(steps) = Window THEN Tail(steps) ELSE steps, x)
    PROVE  /\ steps' \in Seq(ToolStep)
           /\ \A k \in DOMAIN steps' : steps'[k] = x \/ \E j \in DOMAIN steps : steps'[k] = steps[j]
<1>1. steps \in Seq(ToolStep) /\ Len(steps) \in Nat /\ DOMAIN steps = 1 .. Len(steps)
  BY LenProperties DEF EvidenceTypes
<1>2. PICK s : s = IF Len(steps) = Window THEN Tail(steps) ELSE steps
  OBVIOUS
<1>3. s \in Seq(ToolStep) /\ \A k \in 1 .. Len(s) : \E j \in DOMAIN steps : s[k] = steps[j]
  <2>1. CASE Len(steps) = Window
    <3>1. steps # <<>> /\ s = Tail(steps)
      BY <1>2, <2>1, EvidenceAssumption
    <3>2. s \in Seq(ToolStep) /\ Len(s) = Len(steps) - 1 /\ \A k \in 1 .. Len(s) : s[k] = steps[k + 1]
      BY <1>1, <3>1
    <3>3. \A k \in 1 .. Len(s) : k + 1 \in DOMAIN steps
      BY <1>1, <3>2
    <3> QED BY <3>2, <3>3
  <2>2. CASE Len(steps) # Window
    BY <1>1, <1>2, <2>2
  <2> QED BY <2>1, <2>2
<1>4. steps' = Append(s, x)
  BY <1>2
<1>5. /\ steps' \in Seq(ToolStep) /\ Len(steps') = Len(s) + 1
      /\ \A k \in 1 .. Len(s) : steps'[k] = s[k]
      /\ steps'[Len(s) + 1] = x
  <2>1. \A u \in Seq(ToolStep), e \in ToolStep :
           /\ Append(u, e) \in Seq(ToolStep) /\ Len(Append(u, e)) = Len(u) + 1
           /\ \A k \in 1 .. Len(u) : Append(u, e)[k] = u[k]
           /\ Append(u, e)[Len(u) + 1] = e
    BY AppendProperties
  <2>2. PICK n : n = Append(s, x)
    OBVIOUS
  <2>3. /\ n \in Seq(ToolStep) /\ Len(n) = Len(s) + 1
        /\ \A k \in 1 .. Len(s) : n[k] = s[k]
        /\ n[Len(s) + 1] = x
    BY <1>3, <2>1, <2>2
  <2>4. steps' = n
    BY <1>4, <2>2
  <2> QED BY <2>3, <2>4
<1>6. DOMAIN steps' = 1 .. Len(s) + 1 /\ Len(s) \in Nat
  BY <1>3, <1>5, LenProperties
<1>7. ASSUME NEW k \in DOMAIN steps'
      PROVE  steps'[k] = x \/ \E j \in DOMAIN steps : steps'[k] = steps[j]
  <2>1. k \in 1 .. Len(s) \/ k = Len(s) + 1
    BY <1>6
  <2> QED BY <1>3, <1>5, <2>1
<1> QED BY <1>5, <1>7

\* The step that is to be kept, with the version of its file now.
Kept(x) ==
    /\ action.stage = "ran" /\ x \in ToolStep
    /\ x.tool = action.step.tool /\ x.file = action.step.file /\ x.page = action.step.page
    /\ x.ok = action.step.ok /\ x.version = disk[action.step.file].version

\* What a step shows of the file it is about.
LEMMA StepShows ==
    ASSUME EvidenceInv, NEW x, Kept(x)
    PROVE  /\ x.tool \in Tools /\ Old(x.version)
           /\ x.tool = "write" => Own(x.file, x.version)
           /\ x.tool = "shell" /\ x.version # action.before => Own(x.file, x.version)
           /\ x.tool = "read" /\ x.ok => WasRead(x.file, x.version) /\ Opened(x.file)
           /\ x.tool = "read" /\ x.ok /\ ~action.cached =>
                 PageRead(x.file, x.version, x.page) \/ <<x.file, x.version>> \in slipped
<1>1. EvidenceTypes /\ VersionsAreOld /\ ActionFits /\ RegistryFits /\ made \cap slipped = {}
  BY DEF EvidenceInv, VersionsAreOld
<1>2. /\ x.tool \in Tools
      /\ x.tool = "write" => Own(x.file, x.version)
      /\ x.tool = "shell" /\ x.version # action.before => Own(x.file, x.version)
      /\ x.tool = "read" =>
            /\ x.version # action.before => <<x.file, x.version>> \notin made
            /\ action.cached => <<x.file, x.page, action.before>> \in seen
            /\ x.ok /\ ~action.cached =>
                  /\ Opened(x.file)
                  /\ PageRead(x.file, x.version, x.page) \/ <<x.file, x.version>> \in slipped
  BY <1>1 DEF ActionFits, Kept
<1>3. Old(x.version)
  BY <1>1 DEF Kept, VersionsAreOld, ToolStep
<1>4. ASSUME x.tool = "read", x.ok PROVE WasRead(x.file, x.version) /\ Opened(x.file)
  <2>1. CASE action.cached
    <3>1. PICK y \in seen : y = <<x.file, x.page, action.before>>
      BY <1>2, <1>4, <2>1
    <3>2. y[1] = x.file /\ y[3] = action.before /\ WasRead(y[1], y[3]) /\ Opened(y[1])
      BY <1>1, <3>1 DEF RegistryFits
    <3>3. x.version = action.before \/ <<x.file, x.version>> \notin made
      BY <1>2, <1>4
    <3> QED BY <3>2, <3>3 DEF WasRead
  <2>2. CASE ~action.cached
    BY <1>1, <1>2, <1>4, <2>2 DEF WasRead, PageRead
  <2> QED BY <2>1, <2>2
<1> QED BY <1>2, <1>3, <1>4

\* A receipt is of a version that is the run's, verified when it was read.
LEMMA ReceiptsGoOn ==
    ASSUME EvidenceInv, NEW x, Kept(x), Proof!AddStep(x), UNCHANGED <<made, slipped, read, clock>>
    PROVE  /\ receipts' \in [Files -> [written : Nat, verified : Nat]]
           /\ \A f \in Files :
                 /\ Old(receipts[f].written)' /\ Old(receipts[f].verified)'
                 /\ receipts'[f].written # 0 => Own(f, receipts[f].written)'
                 /\ receipts'[f].verified # 0 =>
                       Own(f, receipts[f].verified)' /\ WasRead(f, receipts[f].verified)'
<1>1. /\ receipts \in [Files -> [written : Nat, verified : Nat]] /\ x.file \in Files
      /\ x.version \in Nat /\ Old(x.version)
      /\ x.ok /\ x.tool = "write" => Own(x.file, x.version)
      /\ x.ok /\ x.tool = "read" => WasRead(x.file, x.version)
      /\ clock \in Nat
  BY StepShows DEF EvidenceInv, EvidenceTypes, Kept, ToolStep
<1>2. \A f \in Files :
         /\ Old(receipts[f].written) /\ Old(receipts[f].verified)
         /\ receipts[f].written # 0 => Own(f, receipts[f].written)
         /\ receipts[f].verified # 0 =>
               Own(f, receipts[f].verified) /\ WasRead(f, receipts[f].verified)
  BY DEF EvidenceInv, VersionsAreOld, RegistryFits
<1>3. receipts' =
         CASE x.ok /\ x.tool = "write" ->
                [receipts EXCEPT ![x.file] = [written |-> x.version, verified |-> 0]]
           [] x.ok /\ x.tool = "read" /\ receipts[x.file].written = x.version ->
                [receipts EXCEPT ![x.file].verified = x.version]
           [] OTHER -> receipts
  BY DEF Proof!AddStep
<1>4. Old(0) /\ \A v : /\ Old(v) <=> Old(v)'
                       /\ \A f : Own(f, v) <=> Own(f, v)'
                       /\ \A f : WasRead(f, v) <=> WasRead(f, v)'
  BY <1>1 DEF Old, Own, WasRead
<1>5. /\ receipts' \in [Files -> [written : Nat, verified : Nat]]
      /\ \A f \in Files :
            /\ Old(receipts'[f].written) /\ Old(receipts'[f].verified)
            /\ receipts'[f].written # 0 => Own(f, receipts'[f].written)
            /\ receipts'[f].verified # 0 =>
                  Own(f, receipts'[f].verified) /\ WasRead(f, receipts'[f].verified)
  <2>1. CASE x.ok /\ x.tool = "write"
    <3>1. receipts' = [receipts EXCEPT ![x.file] = [written |-> x.version, verified |-> 0]]
      BY <1>3, <2>1
    <3>2. receipts' \in [Files -> [written : Nat, verified : Nat]]
      BY <1>1, <3>1
    <3>3. receipts'[x.file] = [written |-> x.version, verified |-> 0]
          /\ \A f \in Files : f # x.file => receipts'[f] = receipts[f]
      BY <1>1, <3>1
    <3> QED BY <1>1, <1>2, <1>4, <2>1, <3>2, <3>3
  <2>2. CASE ~(x.tool = "write") /\ x.ok /\ x.tool = "read" /\ receipts[x.file].written = x.version
    <3>1. receipts' = [receipts EXCEPT ![x.file].verified = x.version]
      BY <1>3, <2>2
    <3>2. receipts' \in [Files -> [written : Nat, verified : Nat]]
      BY <1>1, <3>1
    <3>3. /\ receipts'[x.file].written = x.version /\ receipts'[x.file].verified = x.version
          /\ \A f \in Files : f # x.file => receipts'[f] = receipts[f]
      BY <1>1, <2>2, <3>1
    <3>4. x.version # 0 => Own(x.file, x.version)
      BY <1>1, <1>2, <2>2
    <3> QED BY <1>1, <1>2, <2>2, <3>2, <3>3, <3>4
  <2>3. CASE ~(x.ok /\ x.tool = "write") /\ ~(x.ok /\ x.tool = "read" /\ receipts[x.file].written = x.version)
    BY <1>1, <1>2, <1>3, <2>3
  <2> QED BY <2>1, <2>2, <2>3
<1>6. PICK n : n = receipts'
  OBVIOUS
<1>7. \A f \in Files :
         /\ Old(n[f].written)' /\ Old(n[f].verified)'
         /\ n[f].written # 0 => Own(f, n[f].written)'
         /\ n[f].verified # 0 => Own(f, n[f].verified)' /\ WasRead(f, n[f].verified)'
  BY <1>4, <1>5, <1>6
<1> QED BY <1>5, <1>6, <1>7

\* What a command was seen to change, it changed.
LEMMA ArtifactsGoOn ==
    ASSUME EvidenceInv, NEW x, Kept(x), x.id \in Nat, Proof!AddArtifact(x),
           UNCHANGED <<made, slipped, clock>>
    PROVE  /\ artifact' \in [Files -> [version : Nat, producer : Nat]]
           /\ \A f \in Files : /\ Old(artifact[f].version)'
                               /\ artifact'[f].version # 0 => Own(f, artifact[f].version)'
<1>1. /\ artifact \in [Files -> [version : Nat, producer : Nat]] /\ x.file \in Files
      /\ x.version \in Nat /\ Old(x.version)
      /\ x.tool = "shell" /\ x.version # action.before => Own(x.file, x.version)
  BY StepShows DEF EvidenceInv, EvidenceTypes, Kept, ToolStep
<1>2. \A f \in Files : /\ Old(artifact[f].version)
                       /\ artifact[f].version # 0 => Own(f, artifact[f].version)
  BY DEF EvidenceInv, VersionsAreOld, RegistryFits
<1>3. PICK n : n = artifact'
  OBVIOUS
<1>4. /\ n \in [Files -> [version : Nat, producer : Nat]]
      /\ \A f \in Files : /\ Old(n[f].version)
                          /\ n[f].version # 0 => Own(f, n[f].version)
  <2>1. CASE /\ x.ok /\ x.tool = "shell" /\ x.version # 0
             /\ x.version \notin {action.before, artifact[x.file].version}
    <3>1. n = [artifact EXCEPT ![x.file] = [version |-> x.version, producer |-> x.id]]
      BY <1>3, <2>1 DEF Proof!AddArtifact
    <3>2. n \in [Files -> [version : Nat, producer : Nat]]
      BY <1>1, <3>1
    <3>3. n[x.file] = [version |-> x.version, producer |-> x.id]
          /\ \A f \in Files : f # x.file => n[f] = artifact[f]
      BY <1>1, <3>1
    <3> QED BY <1>1, <1>2, <2>1, <3>2, <3>3
  <2>2. CASE ~(/\ x.ok /\ x.tool = "shell" /\ x.version # 0
               /\ x.version \notin {action.before, artifact[x.file].version})
    <3>1. n = artifact
      BY <1>3, <2>2 DEF Proof!AddArtifact
    <3> QED BY <1>1, <1>2, <3>1
  <2> QED BY <2>1, <2>2
<1>5. \A v : (Old(v) <=> Old(v)') /\ \A f : Own(f, v) <=> Own(f, v)'
  BY DEF Old, Own
<1>6. \A f \in Files : /\ Old(n[f].version)'
                       /\ n[f].version # 0 => Own(f, n[f].version)'
  BY <1>4, <1>5
<1> QED BY <1>3, <1>4, <1>6

\* Pages follow each other, so below the next one every page was read.
LEMMA PagesGoOn ==
    ASSUME EvidenceInv, NEW x, Kept(x), Proof!AddPage(x), UNCHANGED <<read, slipped, clock>>
    PROVE  /\ pending' \in [Files -> [version : Nat, next : 0 .. Pages]] /\ whole' \in [Files -> Nat]
           /\ \A f \in Files :
                 /\ Old(pending[f].version)' /\ Old(whole[f])'
                 /\ \A p \in 0 .. pending'[f].next - 1 :
                       PageRead(f, pending[f].version, p)' \/ <<f, pending'[f].version>> \in slipped'
                 /\ whole'[f] # 0 => \A p \in 0 .. Pages - 1 :
                       PageRead(f, whole[f], p)' \/ <<f, whole'[f]>> \in slipped'
<1> DEFINE Seen(f, v, p) == PageRead(f, v, p) \/ <<f, v>> \in slipped
<1>1. /\ pending \in [Files -> [version : Nat, next : 0 .. Pages]] /\ whole \in [Files -> Nat]
      /\ x.file \in Files /\ x.version \in Nat /\ Old(x.version) /\ x.page \in 0 .. Pages - 1
      /\ x.tool = "read" /\ x.ok /\ ~action.cached => Seen(x.file, x.version, x.page)
      /\ clock \in Nat /\ Pages \in Nat \ {0}
  BY StepShows, EvidenceAssumption DEF EvidenceInv, EvidenceTypes, Kept, ToolStep
<1>2. \A f \in Files :
         /\ Old(pending[f].version) /\ Old(whole[f])
         /\ \A p \in 0 .. pending[f].next - 1 : Seen(f, pending[f].version, p)
         /\ whole[f] # 0 => \A p \in 0 .. Pages - 1 : Seen(f, whole[f], p)
  BY DEF EvidenceInv, VersionsAreOld, RegistryFits
<1>3. Old(0)
  BY <1>1 DEF Old
<1>4. PICK n, h : n = pending' /\ h = whole'
  OBVIOUS
<1> HIDE DEF Seen
<1>5. /\ n \in [Files -> [version : Nat, next : 0 .. Pages]] /\ h \in [Files -> Nat]
      /\ \A f \in Files :
            /\ Old(n[f].version) /\ Old(h[f])
            /\ \A p \in 0 .. n[f].next - 1 : Seen(f, n[f].version, p)
            /\ h[f] # 0 => \A p \in 0 .. Pages - 1 : Seen(f, h[f], p)
  <2>1. CASE x.tool # "read" \/ ~x.ok \/ action.cached \/ whole[x.file] = x.version
    <3>1. n = pending /\ h = whole
      BY <1>4, <2>1 DEF Proof!AddPage
    <3> QED BY <1>1, <1>2, <3>1
  <2>2. CASE ~(x.tool # "read" \/ ~x.ok \/ action.cached \/ whole[x.file] = x.version)
    <3>1. PICK before, next :
             /\ before = IF pending[x.file].version = x.version THEN pending[x.file].next ELSE 0
             /\ next = IF x.page <= before /\ x.page + 1 > before THEN x.page + 1 ELSE before
             /\ h = [whole EXCEPT ![x.file] = IF next = Pages THEN x.version ELSE 0]
             /\ n = [pending EXCEPT ![x.file] =
                       IF next = Pages THEN [version |-> 0, next |-> 0]
                       ELSE [version |-> x.version, next |-> next]]
      BY <1>4, <2>2 DEF Proof!AddPage
    <3>2. before \in 0 .. Pages /\ \A p \in 0 .. before - 1 : Seen(x.file, x.version, p)
      BY <1>1, <1>2, <3>1
    <3>3. next \in 0 .. Pages /\ \A p \in 0 .. next - 1 : Seen(x.file, x.version, p)
      <4>1. next = before \/ (next = before + 1 /\ x.page = before)
        BY <1>1, <3>1, <3>2
      <4>2. \A p \in 0 .. next - 1 : p \in 0 .. before - 1 \/ p = x.page
        BY <1>1, <3>2, <4>1
      <4>3. next \in 0 .. Pages
        BY <1>1, <3>2, <4>1
      <4> QED BY <1>1, <2>2, <3>2, <4>2, <4>3
    <3>4. CASE next = Pages
      <4>1. /\ h[x.file] = x.version /\ n[x.file] = [version |-> 0, next |-> 0]
            /\ \A f \in Files : f # x.file => h[f] = whole[f] /\ n[f] = pending[f]
            /\ h \in [Files -> Nat] /\ n \in [Files -> [version : Nat, next : 0 .. Pages]]
        BY <1>1, <3>1, <3>4
      <4>2. \A p \in 0 .. n[x.file].next - 1 : FALSE
        BY <4>1
      <4>3. \A p \in 0 .. Pages - 1 : Seen(x.file, x.version, p)
        BY <3>3, <3>4
      <4>4. ASSUME NEW f \in Files
            PROVE  /\ Old(n[f].version) /\ Old(h[f])
                   /\ \A p \in 0 .. n[f].next - 1 : Seen(f, n[f].version, p)
                   /\ h[f] # 0 => \A p \in 0 .. Pages - 1 : Seen(f, h[f], p)
        <5>1. CASE f = x.file
          BY <1>1, <1>3, <4>1, <4>2, <4>3, <5>1
        <5>2. CASE f # x.file
          BY <1>2, <4>1, <5>2
        <5> QED BY <5>1, <5>2
      <4> QED BY <4>1, <4>4
    <3>5. CASE next # Pages
      <4>1. /\ h[x.file] = 0 /\ n[x.file] = [version |-> x.version, next |-> next]
            /\ \A f \in Files : f # x.file => h[f] = whole[f] /\ n[f] = pending[f]
            /\ h \in [Files -> Nat] /\ n \in [Files -> [version : Nat, next : 0 .. Pages]]
        BY <1>1, <3>1, <3>3, <3>5
      <4>2. ASSUME NEW f \in Files
            PROVE  /\ Old(n[f].version) /\ Old(h[f])
                   /\ \A p \in 0 .. n[f].next - 1 : Seen(f, n[f].version, p)
                   /\ h[f] # 0 => \A p \in 0 .. Pages - 1 : Seen(f, h[f], p)
        <5>1. CASE f = x.file
          BY <1>1, <1>3, <3>3, <4>1, <5>1
        <5>2. CASE f # x.file
          BY <1>2, <4>1, <5>2
        <5> QED BY <5>1, <5>2
      <4> QED BY <4>1, <4>2
    <3> QED BY <3>4, <3>5
  <2> QED BY <2>1, <2>2
<1>6. \A v : /\ Old(v) <=> Old(v)'
             /\ \A f, p : Seen(f, v, p) => PageRead(f, v, p)' \/ <<f, v>> \in slipped'
  BY DEF Old, Seen, PageRead
<1>7. \A f \in Files :
         /\ Old(n[f].version)' /\ Old(h[f])'
         /\ \A p \in 0 .. n[f].next - 1 :
               PageRead(f, n[f].version, p)' \/ <<f, n[f].version>> \in slipped'
         /\ h[f] # 0 => \A p \in 0 .. Pages - 1 : PageRead(f, h[f], p)' \/ <<f, h[f]>> \in slipped'
  BY <1>5, <1>6
<1> QED BY <1>4, <1>5, <1>7

\* A failure that was known is known still, or its file was read.
LEMMA FailuresGoOn ==
    ASSUME EvidenceInv, NEW x, Kept(x), Proof!AddOutcome(x), x.id \in Nat, UNCHANGED read,
           owed' = IF x.tool = "read" /\ ~x.ok THEN [owed EXCEPT ![x.file] = x.id] ELSE owed
    PROVE  /\ failed' \subseteq [tool : Tools, file : Files] /\ owed' \in [Files -> Nat]
           /\ OwedFits'
<1>1. /\ failed \subseteq [tool : Tools, file : Files] /\ owed \in [Files -> Nat] /\ OwedFits
      /\ x.file \in Files /\ x.tool \in Tools /\ Guess \in Files
      /\ x.tool = "read" /\ x.ok => Opened(x.file)
  BY StepShows, EvidenceAssumption DEF EvidenceInv, EvidenceTypes, Kept, ToolStep
<1>2. /\ Proof!Failure(x) \in [tool : Tools, file : Files]
      /\ Proof!Failure(x).tool = x.tool
      /\ x.tool = "read" => Proof!Failure(x) = [tool |-> "read", file |-> x.file]
  BY <1>1 DEF Proof!Failure
<1>3. failed' \subseteq [tool : Tools, file : Files] /\ owed' \in [Files -> Nat]
  <2>1. failed' \subseteq failed \cup {Proof!Failure(x)}
    BY DEF Proof!AddOutcome
  <2> QED BY <1>1, <1>2, <2>1
<1>4. \A f : Opened(f) <=> Opened(f)'
  BY DEF Opened
<1>5. ASSUME NEW f \in Files, owed'[f] # 0
      PROVE  \/ [tool |-> "read", file |-> f] \in failed' \/ overflow'
             \/ Opened(f) \/ (f = Guess /\ Opened(Real))
  <2>1. CASE x.tool = "read" /\ ~x.ok /\ f = x.file
    <3>1. Proof!Failure(x) \in failed' \/ overflow'
      BY <2>1 DEF Proof!AddOutcome
    <3> QED BY <1>2, <2>1, <3>1
  <2>2. CASE ~(x.tool = "read" /\ ~x.ok /\ f = x.file)
    <3>1. owed[f] # 0
      BY <1>1, <1>5, <2>2
    <3>2. \/ [tool |-> "read", file |-> f] \in failed \/ overflow
          \/ Opened(f) \/ (f = Guess /\ Opened(Real))
      BY <1>1, <3>1 DEF OwedFits
    <3>3. overflow => overflow'
      BY DEF Proof!AddOutcome
    <3>4. ASSUME [tool |-> "read", file |-> f] \in failed, [tool |-> "read", file |-> f] \notin failed'
          PROVE  Opened(f) \/ (f = Guess /\ Opened(Real))
      <4>1. x.ok /\ Proof!Resolves(x, [tool |-> "read", file |-> f])
        BY <3>4 DEF Proof!AddOutcome
      <4>2. CASE Proof!Failure(x) = [tool |-> "read", file |-> f]
        <5>1. x.tool = "read" /\ x.file = f
          BY <1>2, <4>2
        <5> QED BY <1>1, <4>1, <5>1
      <4>3. CASE x.tool = "read" /\ [tool |-> "read", file |-> f] = [tool |-> "read", file |-> Guess]
                 /\ x.file = Real
        BY <1>1, <4>1, <4>3
      <4> QED BY <4>1, <4>2, <4>3 DEF Proof!Resolves
    <3> QED BY <3>2, <3>3, <3>4
  <2> QED BY <2>1, <2>2
<1>6. OwedFits'
  BY <1>4, <1>5 DEF OwedFits
<1> QED BY <1>3, <1>6

\* The tool is over, and what it did is kept.
LEMMA StepIsKept == ASSUME EvidenceInv, Proof!Keep PROVE EvidenceInv'
<1>1. PICK x : x = [action.step EXCEPT !.id = sequence + 1, !.version = disk[action.step.file].version]
  OBVIOUS
<1>2. /\ action.stage = "ran" /\ action' = Proof!NoAction
      /\ Proof!AddStep(x) /\ Proof!AddArtifact(x) /\ Proof!AddPage(x) /\ Proof!AddOutcome(x)
      /\ seen' = IF x.tool = "read" /\ x.ok
                 THEN seen \cup {<<x.file, x.page, x.version>>} ELSE seen
      /\ owed' = IF x.tool = "read" /\ ~x.ok THEN [owed EXCEPT ![x.file] = x.id] ELSE owed
      /\ UNCHANGED <<disk, clock, undo, contract, verdict, made, read, slipped>>
  BY <1>1 DEF Proof!Keep, Proof!files, Proof!promises
<1>3. EvidenceTypes /\ VersionsAreOld /\ RegistryFits /\ made \cap slipped = {}
  BY DEF EvidenceInv, VersionsAreOld
<1>4. Kept(x) /\ x.id = sequence + 1 /\ x.id \in Nat /\ x \in ToolStep
  <2>1. action.step \in ToolStep /\ sequence + 1 \in Nat /\ disk[action.step.file].version \in Nat
    BY <1>3 DEF EvidenceTypes, ToolStep, FileState
  <2>2. x \in ToolStep /\ x.id = sequence + 1 /\ x.version = disk[action.step.file].version
        /\ x.tool = action.step.tool /\ x.file = action.step.file /\ x.page = action.step.page
        /\ x.ok = action.step.ok
    BY <1>1, <2>1 DEF ToolStep
  <2> QED BY <1>2, <2>1, <2>2 DEF Kept
<1>5. /\ x.tool \in Tools /\ Old(x.version) /\ x.version \in Nat /\ x.file \in Files
      /\ x.page \in 0 .. Pages - 1
      /\ x.tool = "write" => Own(x.file, x.version)
      /\ x.tool = "read" /\ x.ok => WasRead(x.file, x.version) /\ Opened(x.file)
  BY <1>4, StepShows DEF ToolStep
<1>6. \A v : /\ Old(v) <=> Old(v)'
             /\ \A f : Own(f, v) <=> Own(f, v)'
             /\ \A f : WasRead(f, v) <=> WasRead(f, v)'
             /\ \A f : Opened(f) <=> Opened(f)'
  BY <1>2 DEF Old, Own, WasRead, Opened
<1>7. /\ steps' \in Seq(ToolStep)
      /\ \A k \in DOMAIN steps' : steps'[k] = x \/ \E j \in DOMAIN steps : steps'[k] = steps[j]
  BY <1>2, <1>3, <1>4, StepsGoOn DEF Proof!AddStep
<1>8. /\ receipts' \in [Files -> [written : Nat, verified : Nat]]
      /\ \A f \in Files :
            /\ Old(receipts[f].written)' /\ Old(receipts[f].verified)'
            /\ receipts'[f].written # 0 => Own(f, receipts[f].written)'
            /\ receipts'[f].verified # 0 =>
                  Own(f, receipts[f].verified)' /\ WasRead(f, receipts[f].verified)'
  BY <1>2, <1>4, ReceiptsGoOn
<1>9. /\ artifact' \in [Files -> [version : Nat, producer : Nat]]
      /\ \A f \in Files : /\ Old(artifact[f].version)'
                          /\ artifact'[f].version # 0 => Own(f, artifact[f].version)'
  BY <1>2, <1>4, ArtifactsGoOn
<1>10. /\ pending' \in [Files -> [version : Nat, next : 0 .. Pages]] /\ whole' \in [Files -> Nat]
       /\ \A f \in Files :
             /\ Old(pending[f].version)' /\ Old(whole[f])'
             /\ \A p \in 0 .. pending'[f].next - 1 :
                   PageRead(f, pending[f].version, p)' \/ <<f, pending'[f].version>> \in slipped'
             /\ whole'[f] # 0 => \A p \in 0 .. Pages - 1 :
                   PageRead(f, whole[f], p)' \/ <<f, whole'[f]>> \in slipped'
  BY <1>2, <1>4, PagesGoOn
<1>11. /\ failed' \subseteq [tool : Tools, file : Files] /\ owed' \in [Files -> Nat]
       /\ OwedFits'
  BY <1>2, <1>4, FailuresGoOn
<1>12. /\ seen' \subseteq Files \X (0 .. Pages - 1) \X Nat
       /\ \A y \in seen' : Old(y[3])' /\ WasRead(y[1], y[3])' /\ Opened(y[1])'
  <2>1. /\ seen \subseteq Files \X (0 .. Pages - 1) \X Nat
        /\ \A y \in seen : Old(y[3]) /\ WasRead(y[1], y[3]) /\ Opened(y[1])
    BY <1>3 DEF EvidenceTypes, VersionsAreOld, RegistryFits
  <2>2. CASE x.tool = "read" /\ x.ok
    <3>1. PICK z : z = <<x.file, x.page, x.version>>
      OBVIOUS
    <3>2. /\ z \in Files \X (0 .. Pages - 1) \X Nat
          /\ z[1] = x.file /\ z[3] = x.version
      BY <1>5, <3>1
    <3>3. Old(z[3]) /\ WasRead(z[1], z[3]) /\ Opened(z[1])
      BY <1>5, <2>2, <3>2
    <3>4. seen' = seen \cup {z}
      BY <1>2, <2>2, <3>1
    <3> QED BY <1>6, <2>1, <3>2, <3>3, <3>4
  <2>3. CASE ~(x.tool = "read" /\ x.ok)
    BY <1>2, <1>6, <2>1, <2>3
  <2> QED BY <2>2, <2>3
<1>13. \A k \in DOMAIN steps' :
          /\ Old(steps'[k].version)
          /\ steps'[k].ok => /\ steps'[k].tool = "write" => Own(steps'[k].file, steps'[k].version)
                             /\ steps'[k].tool = "read" => WasRead(steps'[k].file, steps'[k].version)
  <2>1. \A j \in DOMAIN steps :
          /\ Old(steps[j].version)
          /\ steps[j].ok => /\ steps[j].tool = "write" => Own(steps[j].file, steps[j].version)
                            /\ steps[j].tool = "read" => WasRead(steps[j].file, steps[j].version)
    BY <1>3 DEF VersionsAreOld, RegistryFits
  <2> QED BY <1>5, <1>7, <2>1
<1>14. \A k \in DOMAIN steps' :
          /\ Old(steps[k].version)'
          /\ steps'[k].ok => /\ steps'[k].tool = "write" => Own(steps[k].file, steps[k].version)'
                             /\ steps'[k].tool = "read" => WasRead(steps[k].file, steps[k].version)'
  <2>1. PICK s : s = steps'
    OBVIOUS
  <2>2. \A k \in DOMAIN s :
          /\ Old(s[k].version)'
          /\ s[k].ok => /\ s[k].tool = "write" => Own(s[k].file, s[k].version)'
                        /\ s[k].tool = "read" => WasRead(s[k].file, s[k].version)'
    BY <1>6, <1>13, <2>1
  <2> QED BY <2>1, <2>2
<1>15. /\ action'.stage = "none" /\ action'.step \in ToolStep /\ action'.before = 0
       /\ action'.cached = FALSE /\ DOMAIN action' = {"stage", "step", "before", "cached"}
  BY <1>2, EvidenceAssumption DEF Proof!NoAction, Proof!NoStep, ToolStep
<1>16. EvidenceTypes'
  <2>1. sequence' \in Nat
    BY <1>2, <1>4 DEF Proof!AddStep
  <2>2. action'.cached \in BOOLEAN
    BY <1>15
  <2>3. /\ clock' \in Nat /\ disk' \in [Files -> FileState]
        /\ undo' \in Seq([file : Files, was : FileState])
        /\ made' \subseteq Files \X Nat /\ slipped' \subseteq Files \X Nat /\ read' \subseteq Reading
        /\ contract'.artifacts \subseteq Files /\ contract'.reads \subseteq Files
        /\ DOMAIN contract' = {"artifacts", "reads", "acts"}
    BY <1>2, <1>3 DEF EvidenceTypes
  <2>4. /\ action'.stage \in {"none", "started", "ran"} /\ action'.before \in Nat
    BY <1>15
  <2>5. /\ receipts' \in [Files -> [written : Nat, verified : Nat]]
        /\ artifact' \in [Files -> [version : Nat, producer : Nat]]
        /\ pending' \in [Files -> [version : Nat, next : 0 .. Pages]] /\ whole' \in [Files -> Nat]
        /\ seen' \subseteq Files \X (0 .. Pages - 1) \X Nat
    BY <1>8, <1>9, <1>10, <1>12
  <2> QED BY <1>7, <1>11, <1>15, <2>1, <2>2, <2>3, <2>4, <2>5 DEF EvidenceTypes
<1>17. VersionsAreOld'
  <2>1. \A f \in Files : Old(disk[f].version)'
    BY <1>2, <1>3, <1>6 DEF VersionsAreOld
  <2>2. Old(action.before)'
    BY <1>2, <1>3, <1>15 DEF Old, EvidenceTypes
  <2>3. \A y \in made' \cup slipped' : Old(y[2])'
    BY <1>2, <1>3, <1>6 DEF VersionsAreOld
  <2>4. made' \cap slipped' = {}
    BY <1>2, <1>3
  <2> QED BY <1>8, <1>9, <1>10, <1>12, <1>14, <2>1, <2>2, <2>3, <2>4 DEF VersionsAreOld
<1>18. ActionFits'
  BY <1>15 DEF ActionFits
<1>19. RegistryFits'
  BY <1>8, <1>9, <1>10, <1>12, <1>14 DEF RegistryFits
<1>20. verdict' # "accepted"
  BY <1>2, <1>3 DEF EvidenceTypes
<1> QED BY <1>11, <1>16, <1>17, <1>18, <1>19, <1>20, NothingAccepted DEF EvidenceInv

\* A round ends; a rollback gives every file it brings back a version of its own,
\* which is nobody's.
LEMMA RoundIsOver == ASSUME EvidenceInv, Proof!EndRound PROVE EvidenceInv'
<1>1. /\ action.stage = "none" /\ verdict = "open" /\ verdict' = verdict /\ undo' = <<>>
      /\ UNCHANGED <<action, steps, sequence, receipts, artifact, pending, whole, seen, failed,
                     overflow, contract, made, read, slipped, owed>>
  BY DEF Proof!EndRound, Proof!registry, Proof!promises, Proof!progress, Proof!history
<1>2. EvidenceTypes /\ VersionsAreOld /\ RegistryFits /\ OwedFits
  BY DEF EvidenceInv
<1>3. /\ clock' \in Nat /\ clock <= clock' /\ disk' \in [Files -> FileState]
      /\ \A g \in Files : disk'[g].version <= clock'
  <2>1. /\ clock \in Nat /\ disk \in [Files -> FileState]
        /\ \A g \in Files : disk[g].version <= clock
        /\ undo \in Seq([file : Files, was : FileState])
    BY <1>2 DEF EvidenceTypes, VersionsAreOld, Old
  <2>2. CASE clean
    <3>1. disk' = disk /\ clock' = clock
      BY <2>2 DEF Proof!EndRound, Proof!files
    <3> QED BY <2>1, <3>1
  <2>3. CASE ~clean
    <3> DEFINE Saved(f) == {i \in DOMAIN undo : undo[i].file = f}
               Was(f) == undo[CHOOSE i \in Saved(f) : TRUE].was
               Back(f) == IF Saved(f) = {} THEN disk[f]
                          ELSE IF Was(f) = Proof!Missing THEN Proof!Missing
                          ELSE [Was(f) EXCEPT !.version = clock + 1]
    <3>1. disk' = [f \in Files |-> Back(f)] /\ clock' = clock + 1
      BY <2>3 DEF Proof!EndRound
    <3>2. ASSUME NEW f \in Files PROVE Back(f) \in FileState /\ Back(f).version <= clock + 1
      <4>1. CASE Saved(f) = {}
        <5>1. Back(f) = disk[f] /\ disk[f] \in FileState /\ disk[f].version <= clock
          BY <2>1, <4>1
        <5>2. disk[f].version \in Nat
          BY <5>1 DEF FileState
        <5> HIDE DEF Back
        <5> QED BY <2>1, <5>1, <5>2
      <4>2. CASE Saved(f) # {}
        <5>1. (CHOOSE i \in Saved(f) : TRUE) \in Saved(f)
          BY <4>2, Zenon
        <5>2. (CHOOSE i \in Saved(f) : TRUE) \in 1 .. Len(undo)
          BY <2>1, <5>1, LenProperties
        <5>3. Was(f) \in FileState
          <6>1. undo[CHOOSE i \in Saved(f) : TRUE] \in [file : Files, was : FileState]
            BY <2>1, <5>2, ElementOfSeq
          <6> QED BY <6>1
        <5>4. CASE Was(f) = Proof!Missing
          <6>1. Back(f) = Proof!Missing
            BY <4>2, <5>4
          <6>2. Proof!Missing \in FileState /\ Proof!Missing.version = 0
            BY DEF Proof!Missing, FileState
          <6> HIDE DEF Back
          <6> QED BY <2>1, <6>1, <6>2
        <5>5. CASE Was(f) # Proof!Missing
          <6>1. PICK w \in FileState : w = Was(f)
            BY <5>3
          <6>2. Back(f) = [w EXCEPT !.version = clock + 1]
            BY <4>2, <5>5, <6>1
          <6>3. [w EXCEPT !.version = clock + 1] \in FileState
                /\ [w EXCEPT !.version = clock + 1].version = clock + 1
            <7>1. PICK v \in Nat : v = clock + 1
              BY <2>1
            <7>2. [w EXCEPT !.version = v] \in FileState /\ [w EXCEPT !.version = v].version = v
              BY <6>1 DEF FileState
            <7> QED BY <7>1, <7>2
          <6> HIDE DEF Back
          <6> QED BY <2>1, <6>2, <6>3
        <5> QED BY <5>4, <5>5
      <4> QED BY <4>1, <4>2
    <3> HIDE DEF Back
    <3>3. disk' \in [Files -> FileState] /\ \A g \in Files : disk'[g].version <= clock + 1
      BY <3>1, <3>2
    <3> QED BY <2>1, <3>1, <3>3
  <2> QED BY <2>2, <2>3
<1>4. EvidenceTypes'
  <2>1. undo' \in Seq([file : Files, was : FileState])
    BY <1>1, EmptySeq
  <2> QED BY <1>1, <1>2, <1>3, <2>1 DEF EvidenceTypes
<1>5. VersionsAreOld'
  <2>1. made' \cap slipped' = {}
    BY <1>1, <1>2 DEF VersionsAreOld
  <2> QED BY <1>1, <1>2, <1>3, <2>1, VersionsStayOld
<1>6. ActionFits'
  BY <1>1 DEF ActionFits
<1>7. RegistryFits' /\ OwedFits'
  BY <1>1, <1>2, RegistryStays, OwedStays
<1> QED BY <1>1, <1>4, <1>5, <1>6, <1>7, NothingAccepted DEF EvidenceInv

\* The user says something, or the run promises to make a file.
LEMMA PromisesChange ==
    ASSUME EvidenceInv, Proof!Message \/ Proof!Declare({Real}, {}, TRUE)
    PROVE  EvidenceInv'
<1>1. /\ action.stage = "none" /\ verdict = "open" /\ verdict' = verdict
      /\ UNCHANGED <<disk, clock, undo, action, steps, sequence, receipts, artifact, pending,
                     whole, failed, overflow, made, read, slipped, owed>>
      /\ seen' \subseteq seen
  BY DEF Proof!Message, Proof!Declare, Proof!Quiet, Proof!registry, Proof!files, Proof!round,
         Proof!progress, Proof!history
<1>2. EvidenceTypes /\ VersionsAreOld /\ RegistryFits /\ OwedFits
  BY DEF EvidenceInv
<1>3. contract'.artifacts \subseteq Files /\ contract'.reads \subseteq Files
      /\ DOMAIN contract' = {"artifacts", "reads", "acts"}
  <2>1. contract.artifacts \subseteq Files /\ contract.reads \subseteq Files
        /\ DOMAIN contract = {"artifacts", "reads", "acts"}
    BY <1>2 DEF EvidenceTypes
  <2>2. \/ contract' = contract
        \/ contract' = [artifacts |-> contract.artifacts \cup {Real},
                        reads |-> contract.reads \cup {}, acts |-> contract.acts \/ TRUE]
    BY DEF Proof!Message, Proof!Declare
  <2> QED BY <2>1, <2>2, EvidenceAssumption
<1>4. EvidenceTypes'
  BY <1>1, <1>2, <1>3 DEF EvidenceTypes
<1>5. VersionsAreOld'
  BY <1>1, <1>2 DEF VersionsAreOld, Old
<1>6. ActionFits'
  BY <1>1 DEF ActionFits
<1>7. RegistryFits' /\ OwedFits'
  BY <1>1, <1>2, RegistryStays, OwedStays
<1> QED BY <1>1, <1>4, <1>5, <1>6, <1>7, NothingAccepted DEF EvidenceInv

-----------------------------------------------------------------------------
(* The completion itself *)

\* The last step that succeeded with a tool is one.
LEMMA LastOkIsOne ==
    ASSUME EvidenceTypes, NEW tool, NEW f, Proof!LastOk(tool, f) # 0
    PROVE  LET i == Proof!LastOk(tool, f)
           IN  i \in DOMAIN steps /\ steps[i].ok /\ steps[i].tool = tool /\ steps[i].file = f
<1> DEFINE these == {i \in DOMAIN steps : steps[i].ok /\ steps[i].tool = tool /\ steps[i].file = f}
<1>1. DOMAIN steps = 1 .. Len(steps) /\ Len(steps) \in Nat
  BY LenProperties DEF EvidenceTypes
<1>2. these # {} /\ Proof!LastOk(tool, f) = CHOOSE i \in these : \A j \in these : j <= i
  BY DEF Proof!LastOk
<1>3. these \subseteq 1 .. Len(steps)
  BY <1>1
<1>4. \E i \in these : \A j \in these : j <= i
  <2> HIDE DEF these
  <2> QED BY <1>1, <1>2, <1>3, LastExists
<1>5. (CHOOSE i \in these : \A j \in these : j <= i) \in these
  <2> HIDE DEF these
  <2> QED BY <1>4, Zenon
<1> QED BY <1>2, <1>5

\* An artifact the checks find is one the run made and has read since.
LEMMA ArtifactIsReal ==
    ASSUME EvidenceInv, NEW f \in Files, Proof!HasArtifact(f)
    PROVE  Own(f, disk[f].version) /\ WasRead(f, disk[f].version)
<1> DEFINE i == Proof!LastOk("read", f)
           j == Proof!LastOk("write", f)
           v == disk[f].version
<1>1. EvidenceTypes /\ RegistryFits
  BY DEF EvidenceInv
<1>2. CASE receipts[f].verified = v /\ v # 0
  BY <1>1, <1>2 DEF RegistryFits
<1>3. CASE /\ i # 0 /\ v # 0 /\ steps[i].version = v
           /\ IF j # 0 /\ steps[j].version = v THEN j < i
              ELSE /\ baseline[f] # v /\ artifact[f].version = v
                   /\ artifact[f].producer < steps[i].id
  <2>1. WasRead(f, v)
    <3>1. i \in DOMAIN steps /\ steps[i].ok /\ steps[i].tool = "read" /\ steps[i].file = f
      BY <1>1, <1>3, LastOkIsOne
    <3> HIDE DEF i
    <3> QED BY <1>1, <1>3, <3>1 DEF RegistryFits
  <2>2. CASE j # 0 /\ steps[j].version = v
    <3>1. j \in DOMAIN steps /\ steps[j].ok /\ steps[j].tool = "write" /\ steps[j].file = f
      BY <1>1, <2>2, LastOkIsOne
    <3> HIDE DEF j
    <3>2. Own(f, v)
      BY <1>1, <2>2, <3>1 DEF RegistryFits
    <3> QED BY <2>1, <3>2
  <2>3. CASE ~(j # 0 /\ steps[j].version = v)
    <3>1. artifact[f].version = v /\ v # 0
      BY <1>3, <2>3
    <3>2. Own(f, v)
      BY <1>1, <3>1 DEF RegistryFits
    <3> QED BY <2>1, <3>2
  <2> QED BY <2>2, <2>3
<1> QED BY <1>2, <1>3 DEF Proof!HasArtifact

\* A failed read that is neither known nor excused was made good.
LEMMA CompletionTells ==
    ASSUME EvidenceInv, NEW claims, NEW pairs, Proof!Complete(claims, pairs)
    PROVE  \A f \in Files : owed'[f] # 0 =>
              \/ [tool |-> "read", file |-> f] \in failed' \/ overflow'
              \/ Opened(f)' \/ (f = Guess /\ Opened(Real)')
<1>1. /\ owed' = [f \in Files |-> IF f \in claims /\ ~Proof!There(f) THEN 0 ELSE owed[f]]
      /\ failed' = Proof!Left(claims) /\ UNCHANGED <<overflow, read>>
  BY DEF Proof!Complete
<1> SUFFICES ASSUME NEW f \in Files, owed'[f] # 0
             PROVE  \/ [tool |-> "read", file |-> f] \in failed' \/ overflow'
                    \/ Opened(f)' \/ (f = Guess /\ Opened(Real)')
  OBVIOUS
<1>2. ~(f \in claims /\ ~Proof!There(f)) /\ owed[f] # 0
  BY <1>1
<1>3. [tool |-> "read", file |-> f] \in failed => [tool |-> "read", file |-> f] \in failed'
  BY <1>1, <1>2 DEF Proof!Left, Proof!Excused
<1>4. (Opened(f) => Opened(f)') /\ (Opened(Real) => Opened(Real)')
  BY <1>1 DEF Opened
<1>5. \/ [tool |-> "read", file |-> f] \in failed \/ overflow
      \/ Opened(f) \/ (f = Guess /\ Opened(Real))
  BY <1>2 DEF EvidenceInv, OwedFits
<1> QED BY <1>1, <1>3, <1>4, <1>5

\* A completion is accepted, sent back or rejected.
LEMMA RunCompletes ==
    ASSUME EvidenceInv, NEW claims, NEW pairs, Proof!Complete(claims, pairs)
    PROVE  EvidenceInv'
<1>1. /\ action.stage = "none" /\ verdict = "open"
      /\ UNCHANGED <<disk, clock, undo, action, steps, sequence, receipts, artifact, pending,
                     whole, seen, overflow, contract, made, read, slipped>>
      /\ failed' = Proof!Left(claims) /\ equal' = equal \cup pairs
      /\ owed' = [f \in Files |-> IF f \in claims /\ ~Proof!There(f) THEN 0 ELSE owed[f]]
  BY DEF Proof!Complete, Proof!Quiet, Proof!files, Proof!round
<1>2. EvidenceTypes /\ VersionsAreOld /\ RegistryFits
  BY DEF EvidenceInv
<1>3. \A f \in Files : owed'[f] # 0 =>
         \/ [tool |-> "read", file |-> f] \in failed' \/ overflow'
         \/ Opened(f)' \/ (f = Guess /\ Opened(Real)')
  BY CompletionTells
<1>4. EvidenceTypes'
  <2>1. owed' \in [Files -> Nat] /\ failed' \subseteq [tool : Tools, file : Files]
    BY <1>1, <1>2 DEF EvidenceTypes, Proof!Left
  <2> QED BY <1>1, <1>2, <2>1 DEF EvidenceTypes
<1>5. VersionsAreOld'
  BY <1>1, <1>2 DEF VersionsAreOld, Old
<1>6. ActionFits'
  BY <1>1 DEF ActionFits
<1>7. RegistryFits'
  BY <1>1, <1>2, RegistryStays
<1>8. OwedFits'
  BY <1>3 DEF OwedFits
<1>9. ASSUME verdict' = "accepted" PROVE Proof!EvidenceSafe'
  <2>1. /\ Proof!ChecksHold(equal')
        /\ nudged' \/ (failed' = {} /\ ~overflow')
    <3>1. Proof!ChecksHold(equal \cup pairs)
      BY <1>9 DEF Proof!Complete
    <3>2. failed' # {} \/ overflow => nudged'
      BY <3>1, Zenon DEF Proof!Complete
    <3> QED BY <1>1, <3>1, <3>2, Zenon
  <2>2. ASSUME NEW f \in contract.artifacts
        PROVE  <<f, disk[f].version>> \notin slipped =>
                  /\ <<f, disk[f].version>> \in made
                  /\ \E r \in read : r.file = f /\ r.version = disk[f].version
    <3>1. f \in Files /\ Proof!HasArtifact(f)
      BY <1>2, <2>1 DEF EvidenceTypes, Proof!ChecksHold
    <3>2. Own(f, disk[f].version) /\ WasRead(f, disk[f].version)
      BY <3>1, ArtifactIsReal
    <3> QED BY <3>2 DEF Own, WasRead
  <2>3. ASSUME NEW f \in contract.reads, <<f, disk[f].version>> \notin slipped
        PROVE  {r.page : r \in Proof!ReadOf(f, disk[f].version)} = 0 .. Pages - 1
    <3>1. f \in Files /\ disk[f].version # 0 /\ whole[f] = disk[f].version
      BY <1>2, <2>1, <2>3 DEF EvidenceTypes, Proof!ChecksHold, Proof!There
    <3>2. \A p \in 0 .. Pages - 1 :
             \E r \in read : r.file = f /\ r.version = disk[f].version /\ r.page = p
      BY <1>2, <2>3, <3>1 DEF RegistryFits, PageRead
    <3>3. \A r \in read : r.page \in 0 .. Pages - 1
      BY <1>2 DEF EvidenceTypes, Reading
    <3> QED BY <3>2, <3>3 DEF Proof!ReadOf
  <2>4. \A p \in equal' : disk[p[1]].content = disk[p[2]].content
    BY <2>1 DEF Proof!ChecksHold
  <2>5. Proof!EvidenceIsReal'
    <3>1. \A f \in contract.artifacts : <<f, disk[f].version>> \notin slipped =>
             <<f, disk[f].version>> \in made /\ Proof!ReadOf(f, disk[f].version) # {}
      BY <2>2 DEF Proof!ReadOf
    <3>2. \A f \in contract.reads : <<f, disk[f].version>> \notin slipped =>
             {r.page : r \in Proof!ReadOf(f, disk[f].version)} = 0 .. Pages - 1
      BY <2>3
    <3> QED BY <1>1, <2>4, <3>1, <3>2 DEF Proof!EvidenceIsReal, Proof!ReadOf
  <2>6. Proof!FailuresAnswered'
    <3>1. ASSUME ~nudged', NEW f \in Files, owed'[f] # 0
          PROVE  Opened(f)' \/ (f = Guess /\ Opened(Real)')
      BY <1>3, <2>1, <3>1
    <3>2. \A f \in Files : Opened(f)' \/ (f = Guess /\ Opened(Real)') =>
             \E r \in read' : r.file = f \/ (f = Guess /\ r.file = Real)
      BY DEF Opened
    <3> QED BY <3>1, <3>2 DEF Proof!FailuresAnswered
  <2> QED BY <2>5, <2>6 DEF Proof!EvidenceSafe
<1> QED BY <1>4, <1>5, <1>6, <1>7, <1>8, <1>9, NothingAccepted DEF EvidenceInv

-----------------------------------------------------------------------------
\* Every step keeps the invariant.
LEMMA EvidenceSteps == EvidenceInv /\ [Proof!Next]_(Proof!evidenceVars) => EvidenceInv'
<1> SUFFICES ASSUME EvidenceInv, [Proof!Next]_(Proof!evidenceVars) PROVE EvidenceInv'
  OBVIOUS
<1>1. ASSUME NEW tool \in {"write", "shell"}, NEW f \in Outputs, Proof!Start(tool, f, 0)
      PROVE  EvidenceInv'
  <2>1. tool \in Tools /\ f \in Files /\ 0 \in 0 .. Pages - 1
    BY EvidenceAssumption DEF Tools
  <2> QED BY <1>1, <2>1, ToolStarts
<1>2. ASSUME NEW page \in 0 .. Pages - 1, Proof!Start("read", Real, page) PROVE EvidenceInv'
  <2>1. "read" \in Tools /\ Real \in Files
    BY EvidenceAssumption DEF Tools
  <2> QED BY <1>2, <2>1, ToolStarts
<1>3. ASSUME NEW tool \in {"read", "list", "glob"}, Proof!Start(tool, Guess, 0) PROVE EvidenceInv'
  <2>1. tool \in Tools /\ Guess \in Files /\ 0 \in 0 .. Pages - 1
    BY EvidenceAssumption DEF Tools
  <2> QED BY <1>3, <2>1, ToolStarts
<1>4. ASSUME UNCHANGED Proof!evidenceVars PROVE EvidenceInv'
  <2>1. UNCHANGED <<disk, clock, action, undo, steps, sequence, receipts, artifact, pending, whole,
                    seen, failed, overflow, contract, equal, nudged, verdict, made, read, slipped, owed>>
    BY <1>4 DEF Proof!evidenceVars
  <2>2. EvidenceTypes' /\ VersionsAreOld'
    BY <2>1 DEF EvidenceInv, EvidenceTypes, VersionsAreOld, Old
  <2>3. RegistryFits' /\ OwedFits'
    BY <2>1, RegistryStays, OwedStays DEF EvidenceInv
  <2>4. ActionFits'
    BY <2>1 DEF EvidenceInv, ActionFits, Own, Opened, PageRead
  <2>5. Proof!EvidenceSafe'
    BY <2>1 DEF EvidenceInv, Proof!EvidenceSafe, Proof!EvidenceIsReal, Proof!FailuresAnswered,
                Proof!ReadOf, Proof!There
  <2> QED BY <2>2, <2>3, <2>4, <2>5 DEF EvidenceInv
<1> QED BY <1>1, <1>2, <1>3, <1>4, OthersChange, ToolWorks, StepIsKept, RoundIsOver, PromisesChange,
           RunCompletes DEF Proof!Next

\* The other parts of MCAgent leave the evidence alone.
LEMMA OthersLeaveEvidence == [AgentNext]_allVars => [Proof!Next]_(Proof!evidenceVars)
BY DEF AgentNext, InLoop, allVars, proofVars, Proof!evidenceVars

\* A completion is accepted only on evidence that is real: files the run made and
\* read since, files read to their end, equal pairs, and an answer to every read
\* that failed (verify_completion_files, run_has_verified_artifact).
THEOREM CompletionHasEvidence == AgentSpec => []EvidenceSafe
<1>1. AgentInit => EvidenceInv
  BY EvidenceStarts DEF AgentInit
<1>2. EvidenceInv /\ [AgentNext]_allVars => EvidenceInv'
  BY EvidenceSteps, OthersLeaveEvidence
<1>3. EvidenceInv => EvidenceSafe
  BY DEF EvidenceInv, EvidenceSafe
<1> QED BY <1>1, <1>2, <1>3, PTL DEF AgentSpec

-----------------------------------------------------------------------------
(***************************************************************************)
(* The calls of the model.  What a thread has spent and not booked yet is  *)
(* the difference of its two counters until the round is booked, and what  *)
(* has no row yet that same difference until the row is written; so both   *)
(* accounts can be stated for every moment, not only for the quiet ones.   *)
(***************************************************************************)

CallTypes ==
    /\ sent \in 0 .. Calls!Whole /\ got \in 0 .. sent
    /\ spent \in Int /\ base \in Int /\ total \in Int /\ rows \in Int
    /\ reported \in Int /\ loaded \in Int /\ direct \in Int /\ lost \in Int
    /\ ledger \in [tokens : Int, torn : BOOLEAN]
    /\ simple \in [at : {"idle", "booking"}, due : Int]
    /\ req \in Calls!Requests

\* An answer is judged last, from a body that was read.
AnswerFits ==
    /\ answer # "none" => at = "booking"
    /\ Calls!WholeAnswersOnly

\* A socket is closed after the thread that watches it was waited for.
SocketFits == sock = "closed" => guard \in {"none", "over"}

Unbooked == IF at = "recording" THEN 0 ELSE spent - base
Unwritten == IF at = "recording" THEN spent - base ELSE 0

AccountFits ==
    /\ spent >= base /\ (at \in {"idle", "opening"} => spent = base)
    /\ simple.at = "idle" => simple.due = 0
    /\ loaded + reported = total + simple.due + Unbooked
    /\ rows + direct + Unwritten = total
    /\ ledger.tokens + lost = rows

CallsInv == CallTypes /\ AnswerFits /\ SocketFits /\ ~late /\ AccountFits

\* Answers have parts, replies calls; windows and prompts are counted in tokens.
ASSUME RepliesAssumption ==
    Parts \in Nat /\ MaxItems \in Nat /\ Windows \subseteq Nat /\ Sizes \subseteq Nat

LEMMA CallsStart == Calls!Init => CallsInv
<1> SUFFICES ASSUME Calls!Init PROVE CallsInv
  OBVIOUS
<1>1. CallTypes
  <2>1. Calls!NoRequest \in Calls!Requests
    BY DEF Calls!NoRequest, Calls!Requests, Calls!Answers
  <2> QED BY <2>1, RepliesAssumption DEF CallTypes, Calls!Init, Calls!Whole
<1> QED BY <1>1 DEF Calls!Init, CallsInv, AnswerFits, SocketFits, AccountFits, Unbooked, Unwritten,
                    Calls!WholeAnswersOnly

LEMMA CallsImplySafe == CallsInv => Calls!CallsSafe
BY DEF CallsInv, CallTypes, AnswerFits, AccountFits, Unbooked, Unwritten, Calls!CallsSafe,
       Calls!GuardEndsFirst, Calls!AccountIsComplete

\* A request is made, refused, or its connection fails or opens.
LEMMA CallOpens ==
    ASSUME CallsInv, NEW r \in Calls!Requests,
           Calls!Ask(r) \/ Calls!Refuse \/ Calls!Open \/ Calls!OpenFails
    PROVE  CallsInv'
<1> USE DEF CallsInv, Calls!wire, Calls!tokens, Calls!account, Calls!counters, Calls!history
<1>1. CallTypes'
  BY DEF CallTypes, Calls!Ask, Calls!Refuse, Calls!Open, Calls!OpenFails
<1>2. AnswerFits' /\ SocketFits' /\ ~late'
  BY DEF AnswerFits, SocketFits, Calls!WholeAnswersOnly, Calls!Ask, Calls!Refuse, Calls!Open,
         Calls!OpenFails
<1>3. AccountFits'
  BY DEF CallTypes, AccountFits, Unbooked, Unwritten, Calls!Ask, Calls!Refuse, Calls!Open, Calls!OpenFails
<1> QED BY <1>1, <1>2, <1>3

\* The provider sends or hangs up; the answer is read to its end or not.
LEMMA CallReads ==
    ASSUME CallsInv, Calls!Send \/ Calls!HangUp \/ Calls!Read \/ Calls!ReadDone \/ Calls!ReadFails
    PROVE  CallsInv'
<1> USE DEF CallsInv, Calls!wire, Calls!tokens, Calls!account, Calls!counters, Calls!history
<1>1. CallTypes'
  BY RepliesAssumption
     DEF CallTypes, Calls!Send, Calls!HangUp, Calls!Read, Calls!ReadDone, Calls!ReadFails,
         Calls!RecordUsage, Calls!Whole
<1>2. AnswerFits' /\ SocketFits' /\ ~late'
  BY DEF AnswerFits, SocketFits, Calls!WholeAnswersOnly, Calls!Wanted, Calls!Send, Calls!HangUp,
         Calls!Read, Calls!ReadDone, Calls!ReadFails
<1>3. AccountFits'
  BY DEF CallTypes, AccountFits, Unbooked, Unwritten, Calls!Wanted, Calls!Send, Calls!HangUp,
         Calls!Read, Calls!ReadDone, Calls!ReadFails, Calls!RecordUsage
<1> QED BY <1>1, <1>2, <1>3

\* A cancellation, the thread that watches for it, and the end of the stream.
LEMMA CallCloses ==
    ASSUME CallsInv, Calls!Cancel \/ Calls!Watch \/ Calls!Interrupt \/ Calls!StopGuard \/ Calls!CloseStream
    PROVE  CallsInv'
<1> USE DEF CallsInv, Calls!wire, Calls!tokens, Calls!account, Calls!counters, Calls!history
<1>1. CallTypes'
  BY DEF CallTypes, Calls!Cancel, Calls!Watch, Calls!Interrupt, Calls!StopGuard, Calls!CloseStream
<1>2. AnswerFits'
  BY DEF AnswerFits, Calls!WholeAnswersOnly, Calls!Cancel, Calls!Watch, Calls!Interrupt,
         Calls!StopGuard, Calls!CloseStream
<1>3. SocketFits' /\ ~late'
  <2>1. CASE Calls!Interrupt
    <3>1. guard = "noticed" /\ guard' = "over" /\ sock # "closed"
      BY <2>1 DEF SocketFits, Calls!Interrupt
    <3>2. ~late'
      BY <2>1, <3>1, Zenon DEF Calls!Interrupt
    <3> QED BY <3>1, <3>2 DEF SocketFits
  <2>2. CASE Calls!Watch
    BY <2>2 DEF SocketFits, Calls!Watch
  <2>3. CASE Calls!Cancel \/ Calls!StopGuard
    BY <2>3 DEF SocketFits, Calls!Cancel, Calls!StopGuard
  <2>4. CASE Calls!CloseStream
    BY <2>4 DEF SocketFits, Calls!CloseStream
  <2> QED BY <2>1, <2>2, <2>3, <2>4
<1>4. AccountFits'
  BY DEF CallTypes, AccountFits, Unbooked, Unwritten, Calls!Cancel, Calls!Watch, Calls!Interrupt,
         Calls!StopGuard, Calls!CloseStream
<1> QED BY <1>1, <1>2, <1>3, <1>4

\* The answer is judged.
LEMMA CallJudged == CallsInv /\ (Calls!JudgeFull \/ Calls!JudgeStream) => CallsInv'
<1> SUFFICES ASSUME CallsInv, Calls!JudgeFull \/ Calls!JudgeStream PROVE CallsInv'
  OBVIOUS
<1> USE DEF CallsInv, Calls!wire, Calls!tokens, Calls!account, Calls!counters, Calls!history
<1>1. CallTypes'
  BY RepliesAssumption DEF CallTypes, Calls!JudgeFull, Calls!JudgeStream, Calls!RecordUsage
<1>2. AnswerFits'
  <2>1. at' = "booking"
    BY DEF Calls!JudgeFull, Calls!JudgeStream
  <2>2. got \in Nat /\ got <= Calls!Whole /\ Calls!Whole \in Nat
    BY RepliesAssumption DEF CallTypes, Calls!Whole
  <2>3. answer' \in {"actions", "text"} => status = 200 /\ ~Calls!CutShort /\ answer' = Calls!Judge(req.answer)
    BY DEF Calls!JudgeFull, Calls!JudgeStream
  <2>4. answer' \in {"actions", "text"} => got = Calls!Whole
    BY <2>2, <2>3 DEF Calls!CutShort
  <2>5. Calls!Judge(req.answer) = "actions" =>
           req.answer.kind = "calls" /\ req.answer.finish # "length"
    BY DEF Calls!Judge
  <2>6. UNCHANGED <<got, status, req>>
    BY DEF Calls!JudgeFull, Calls!JudgeStream
  <2> QED BY <2>1, <2>3, <2>4, <2>5, <2>6 DEF AnswerFits, Calls!WholeAnswersOnly
<1>3. SocketFits' /\ ~late'
  BY DEF SocketFits, Calls!JudgeFull, Calls!JudgeStream
<1>4. AccountFits'
  BY RepliesAssumption
     DEF CallTypes, AccountFits, Unbooked, Unwritten, Calls!JudgeFull, Calls!JudgeStream, Calls!RecordUsage
<1> QED BY <1>1, <1>2, <1>3, <1>4

\* A round is booked and gets its row; a call of another thread is booked directly.
LEMMA CallBooked ==
    ASSUME CallsInv, Calls!Book \/ Calls!Record \/ Calls!SimpleCall \/ Calls!SimpleBook
    PROVE  CallsInv'
<1> USE DEF CallsInv, Calls!wire, Calls!tokens, Calls!account, Calls!counters, Calls!history
<1>1. CASE Calls!Book
  <2>1. CallTypes'
    <3>1. Calls!NoRequest \in Calls!Requests
      BY DEF Calls!NoRequest, Calls!Requests, Calls!Answers
    <3> QED BY <1>1, <3>1, RepliesAssumption DEF CallTypes, Calls!Book, Calls!NoCall, Calls!NoWire, Calls!Whole
  <2>2. AnswerFits' /\ SocketFits' /\ ~late'
    BY <1>1 DEF AnswerFits, SocketFits, Calls!WholeAnswersOnly, Calls!Book, Calls!NoCall, Calls!NoWire
  <2>3. AccountFits'
    BY <1>1 DEF CallTypes, AccountFits, Unbooked, Unwritten, Calls!Book
  <2> QED BY <2>1, <2>2, <2>3
<1>2. CASE Calls!Record
  <2>1. ledger' \in [tokens : Int, torn : BOOLEAN]
    <3>1. spent - base \in Int /\ ledger \in [tokens : Int, torn : BOOLEAN]
      BY DEF CallTypes
    <3>2. Calls!Appended(spent - base) \in [tokens : Int, torn : BOOLEAN]
      <4>1. [ledger EXCEPT !.torn = FALSE] \in [tokens : Int, torn : BOOLEAN]
        BY <3>1
      <4>2. [ledger EXCEPT !.tokens = @ + (spent - base)] \in [tokens : Int, torn : BOOLEAN]
        BY <3>1
      <4> QED BY <4>1, <4>2 DEF Calls!Appended
    <3>3. \A file \in [tokens : Int, torn : BOOLEAN] :
             [file EXCEPT !.torn = TRUE] \in [tokens : Int, torn : BOOLEAN]
      OBVIOUS
    <3> QED BY <1>2, <3>1, <3>2, <3>3 DEF Calls!Record
  <2>2. CallTypes'
    BY <1>2, <2>1 DEF CallTypes, Calls!Record
  <2>3. AnswerFits' /\ SocketFits' /\ ~late'
    BY <1>2 DEF AnswerFits, SocketFits, Calls!WholeAnswersOnly, Calls!Record
  <2>4. AccountFits'
    BY <1>2, <2>1 DEF CallTypes, AccountFits, Unbooked, Unwritten, Calls!Record
  <2> QED BY <2>2, <2>3, <2>4
<1>3. CASE Calls!SimpleCall \/ Calls!SimpleBook
  <2>1. CallTypes'
    BY <1>3 DEF CallTypes, Calls!SimpleCall, Calls!SimpleBook
  <2>2. AnswerFits' /\ SocketFits' /\ ~late'
    BY <1>3 DEF AnswerFits, SocketFits, Calls!WholeAnswersOnly, Calls!SimpleCall, Calls!SimpleBook
  <2>3. AccountFits'
    BY <1>3 DEF CallTypes, AccountFits, Unbooked, Unwritten, Calls!SimpleCall, Calls!SimpleBook
  <2> QED BY <2>1, <2>2, <2>3
<1> QED BY <1>1, <1>2, <1>3

\* After a restart the totals and the rows are what the file gives back.
LEMMA CallsRestart == CallsInv /\ Calls!Restart => CallsInv'
<1> SUFFICES ASSUME CallsInv, Calls!Restart PROVE CallsInv'
  OBVIOUS
<1> USE DEF CallsInv
<1>1. ledger' \in [tokens : Int, torn : BOOLEAN]
  <2>1. ASSUME NEW n \in {0, spent - base}
        PROVE  [tokens |-> ledger.tokens + n, torn |-> TRUE] \in [tokens : Int, torn : BOOLEAN]
    BY <2>1 DEF CallTypes
  <2> QED BY <2>1 DEF CallTypes, Calls!Restart
<1>2. CallTypes'
  <2>1. Calls!NoRequest \in Calls!Requests
    BY DEF Calls!NoRequest, Calls!Requests, Calls!Answers
  <2> QED BY <1>1, <2>1, RepliesAssumption
          DEF CallTypes, Calls!Restart, Calls!NoCall, Calls!NoWire, Calls!Whole
<1>3. AnswerFits' /\ SocketFits' /\ ~late'
  BY DEF AnswerFits, SocketFits, Calls!WholeAnswersOnly, Calls!Restart, Calls!NoCall, Calls!NoWire
<1>4. AccountFits'
  BY <1>1 DEF AccountFits, Unbooked, Unwritten, Calls!Restart
<1> QED BY <1>2, <1>3, <1>4

LEMMA CallsSteps == CallsInv /\ [Calls!Next]_(Calls!callVars) => CallsInv'
<1> SUFFICES ASSUME CallsInv, [Calls!Next]_(Calls!callVars) PROVE CallsInv'
  OBVIOUS
<1>1. ASSUME UNCHANGED Calls!callVars PROVE CallsInv'
  BY <1>1 DEF CallsInv, CallTypes, AnswerFits, SocketFits, AccountFits, Unbooked, Unwritten,
              Calls!callVars, Calls!WholeAnswersOnly
<1>2. Calls!NoRequest \in Calls!Requests
  BY DEF Calls!NoRequest, Calls!Requests, Calls!Answers
<1> QED BY <1>1, <1>2, CallOpens, CallReads, CallCloses, CallJudged, CallBooked, CallsRestart DEF Calls!Next

\* The other parts of MCAgent leave the calls alone.
LEMMA OthersLeaveCalls == [AgentNext]_allVars => [Calls!Next]_(Calls!callVars)
BY DEF AgentNext, InLoop, allVars, callsVars, Calls!callVars

-----------------------------------------------------------------------------
(***************************************************************************)
(* The planner.  A reply is read once, and once more if it was sent back;  *)
(* until then nothing is decided, and only an array that was cut is sent   *)
(* back (Planned).  The rest is what each way of reading makes of it.      *)
(***************************************************************************)

Planned ==
    /\ native \in BOOLEAN
    /\ stage \in {"asking", "repairing"} => decision = Plan!Nothing /\ fixed = Plan!NoReply
    /\ stage = "repairing" =>
          /\ ~native /\ reply \in Plan!LegacyReplies
          /\ Plan!NeedsRepair(reply)

PlanInv == Planned /\ Plan!PlanningSafe

\* What a reply is made of, without its calls.
LEMMA RepliesAre ==
    /\ \A r \in Plan!NativeReplies :
          /\ Len(r.items) \in Nat /\ r.truncated \in BOOLEAN
          /\ \A i \in 1 .. Len(r.items) : r.items[i] \in Plan!Kinds
          /\ r.truncated => Len(r.items) = 0
          /\ Len(r.items) = 0 <=> r.items = <<>>
    /\ \A r \in Plan!LegacyReplies :
          /\ Len(r.items) \in Nat /\ r.cut \in 0 .. Len(r.items) /\ r.truncated \in BOOLEAN
          /\ \A i \in 1 .. Len(r.items) : r.items[i] \in Plan!Kinds
          /\ r.text = "prose" /\ r.format \in {"json", "tags", "dsml", "prose", "thinking"}
          /\ Len(r.items) = 0 <=> r.items = <<>>
          /\ r.format \in {"prose", "thinking"} => r.items = <<>>
<1>1. ASSUME NEW q \in Plan!SeqOf(Plan!Kinds, MaxItems)
      PROVE  /\ Len(q) \in Nat
             /\ \A i \in 1 .. Len(q) : q[i] \in Plan!Kinds
             /\ Len(q) = 0 <=> q = <<>>
  <2>1. PICK m \in 0 .. MaxItems : q \in [1 .. m -> Plan!Kinds]
    BY DEF Plan!SeqOf
  <2>2. m \in Nat /\ q \in Seq(Plan!Kinds)
    BY <2>1, RepliesAssumption, IsASeq
  <2> QED BY <2>2, LenProperties, ElementOfSeq, EmptySeq
<1>2. ASSUME NEW r \in Plan!NativeReplies
      PROVE  r.items \in Plan!SeqOf(Plan!Kinds, MaxItems) /\ r.truncated \in BOOLEAN
             /\ (r.truncated => r.items = <<>>)
  BY DEF Plan!NativeReplies
<1>3. ASSUME NEW r \in Plan!LegacyReplies
      PROVE  /\ r.items \in Plan!SeqOf(Plan!Kinds, MaxItems) /\ r.truncated \in BOOLEAN
             /\ r.cut \in 0 .. MaxItems /\ r.cut <= Len(r.items) /\ r.text = "prose"
             /\ r.format \in {"json", "tags", "dsml", "prose", "thinking"}
             /\ (r.format \in {"prose", "thinking"} => r.items = <<>>)
  BY DEF Plan!LegacyReplies
<1>4. ASSUME NEW r \in Plan!LegacyReplies PROVE r.cut \in 0 .. Len(r.items)
  BY <1>1, <1>3, RepliesAssumption
<1> QED BY <1>1, <1>2, <1>3, <1>4

\* A single completion or declaration ends the run or is refused.
LEMMA MeaningRunsNothing ==
    \A c : /\ Plan!Meaning(c).actions = {}
           /\ Plan!Meaning(c).end \in {"complete", "blocked"} => c \in {"complete", "blocked"}
BY DEF Plan!Meaning, Plan!Ended, Plan!Rejected, Plan!Nothing

\* What is made of a whole native batch.
LEMMA NativeDecides ==
    ASSUME NEW r \in Plan!NativeReplies
    PROVE  LET d == Plan!DecideNative(r)
               toRun == Plan!Of(r, Len(r.items), Plan!Kinds \ Plan!Finishes) IN
           /\ d.error \/ d.end # "none" => d.actions = {}
           /\ d.actions # {} =>
                 /\ d.actions = toRun
                 /\ \A i \in toRun : r.items[i] \notin Plan!Finishes \cup {"badargs", "badname"}
           /\ d.end \in {"complete", "blocked"} =>
                 toRun = {} /\ ~r.truncated /\ (r.text # "markup" \/ r.items # <<>>)
<1> DEFINE size == Len(r.items)
           toRun == Plan!Of(r, size, Plan!Kinds \ Plan!Finishes)
           refused == \/ Plan!Has(r, size, {"badname", "badargs"})
                      \/ Plan!Has(r, size, Plan!Declarations) /\ size # 1
           d == Plan!DecideNative(r)
<1>1. size \in Nat /\ (r.truncated => size = 0) /\ (size = 0 <=> r.items = <<>>)
  BY RepliesAre
<1>2. CASE refused
  BY <1>2 DEF Plan!DecideNative, Plan!Rejected, Plan!Nothing
<1>3. CASE ~refused /\ toRun # {}
  <2>1. d = Plan!Run(toRun)
    BY <1>3 DEF Plan!DecideNative
  <2>2. ASSUME NEW i \in toRun PROVE r.items[i] \notin Plan!Finishes \cup {"badargs", "badname"}
    BY <1>3, <2>2 DEF Plan!Has, Plan!Of
  <2> QED BY <2>1, <2>2 DEF Plan!Run, Plan!Nothing
<1>4. CASE ~refused /\ toRun = {} /\ size = 1
  <2>1. d = Plan!Meaning(r.items[1])
    BY <1>4 DEF Plan!DecideNative
  <2>2. d.actions = {} /\ ~r.truncated /\ r.items # <<>>
    BY <1>1, <1>4, <2>1, MeaningRunsNothing
  <2> QED BY <1>4, <2>2
<1>5. CASE ~refused /\ toRun = {} /\ size # 1
  <2>1. d = IF size = 0 /\ r.text = "prose" /\ ~r.truncated
            THEN Plan!Ended("complete") ELSE Plan!Rejected
    BY <1>5 DEF Plan!DecideNative
  <2> QED BY <1>5, <2>1 DEF Plan!Ended, Plan!Rejected, Plan!Nothing
<1> QED BY <1>2, <1>3, <1>4, <1>5

\* What is made of the first n calls of another reply, when these are all that
\* are there in full.
LEMMA LegacySettles ==
    ASSUME NEW r \in Plan!LegacyReplies, NEW n, n = r.cut, NEW truncated \in BOOLEAN
    PROVE  LET d == Plan!Settle(r, n, truncated) IN
           /\ d.error \/ d.end # "none" => d.actions = {}
           /\ d.actions # {} =>
                 /\ d.actions = 1 .. r.cut
                 /\ \A i \in d.actions : r.items[i] \notin Plan!Finishes \cup {"badargs"}
           /\ d.end \in {"complete", "blocked"} =>
                 /\ ~truncated /\ r.cut = 1 /\ r.items[1] \in {"complete", "blocked"}
<1> DEFINE d == Plan!Settle(r, n, truncated)
<1>1. CASE Plan!Has(r, n, {"badargs"})
  BY <1>1 DEF Plan!Settle, Plan!Rejected, Plan!Nothing
<1>2. CASE ~Plan!Has(r, n, {"badargs"}) /\ Plan!Has(r, n, Plan!Finishes)
  <2>1. d = IF n = 1 /\ ~truncated THEN Plan!Meaning(r.items[1]) ELSE Plan!Rejected
    BY <1>2 DEF Plan!Settle
  <2>2. CASE n = 1 /\ ~truncated
    BY <2>1, <2>2, MeaningRunsNothing
  <2>3. CASE ~(n = 1 /\ ~truncated)
    BY <2>1, <2>3 DEF Plan!Rejected, Plan!Nothing
  <2> QED BY <2>2, <2>3
<1>3. CASE ~Plan!Has(r, n, {"badargs"}) /\ ~Plan!Has(r, n, Plan!Finishes)
  <2>1. d = IF n = 0 THEN IF truncated THEN Plan!Rejected ELSE Plan!Ended("commentary")
            ELSE Plan!Run(1 .. n)
    BY <1>3 DEF Plan!Settle
  <2>2. \A i \in 1 .. n : r.items[i] \notin Plan!Finishes \cup {"badargs"}
    BY <1>3 DEF Plan!Has, Plan!Of
  <2> QED BY <2>1, <2>2 DEF Plan!Run, Plan!Ended, Plan!Rejected, Plan!Nothing
<1> QED BY <1>1, <1>2, <1>3

\* A batch that is found has all the calls that are there in full, and none of a
\* name that no tool can have unless it came in a DSML envelope.
BatchFits(r, b) ==
    b.size # 0 => b.size = r.cut /\ (~Plan!Has(r, r.cut, {"badname"}) \/ r.format = "dsml")

LEMMA BatchesFit ==
    \A r \in Plan!LegacyReplies : BatchFits(r, Plan!Parse(r)) /\ BatchFits(r, Plan!Salvage(r))
<1> SUFFICES ASSUME NEW r \in Plan!LegacyReplies
             PROVE  BatchFits(r, Plan!Parse(r)) /\ BatchFits(r, Plan!Salvage(r))
  OBVIOUS
<1> USE DEF BatchFits, Plan!Batch, Plan!NoBatch, Plan!BadBatch
<1>1. BatchFits(r, Plan!ParseArray(r))
  BY DEF Plan!ParseArray
<1>2. BatchFits(r, Plan!Salvage(r))
  BY <1>1 DEF Plan!Salvage
<1>3. r.format = "dsml" => BatchFits(r, Plan!ParseDsml(r))
  BY DEF Plan!ParseDsml
<1>4. BatchFits(r, Plan!ParseTags(r))
  BY DEF Plan!ParseTags
<1>5. BatchFits(r, Plan!NoBatch)
  OBVIOUS
<1>6. \/ r.format = "dsml" /\ Plan!Parse(r) = Plan!ParseDsml(r)
      \/ Plan!Parse(r) = Plan!ParseTags(r)
      \/ Plan!Parse(r) = Plan!ParseArray(r)
      \/ Plan!Parse(r) = Plan!NoBatch
  BY DEF Plan!Parse
<1> QED BY <1>1, <1>2, <1>3, <1>4, <1>5, <1>6

\* What is made of a reply of the legacy protocol, read for the first time or
\* as a repair.
LegacyFits(r, truncated, d) ==
    /\ d.error \/ d.end # "none" => d.actions = {}
    /\ d.actions # {} =>
          /\ d.actions = 1 .. r.cut
          /\ \A i \in d.actions : r.items[i] \notin Plan!Finishes \cup {"badargs"}
          /\ (\E i \in d.actions : r.items[i] = "badname") => r.format = "dsml"
    /\ d.end \in {"complete", "blocked"} =>
          /\ ~truncated
          /\ r.cut = 1 /\ r.items[1] \in {"complete", "blocked"}

LEMMA RejectedFits == \A r, truncated : LegacyFits(r, truncated, Plan!Rejected)
BY DEF LegacyFits, Plan!Rejected, Plan!Nothing

\* Of a batch that fits.
LEMMA BatchSettles ==
    ASSUME NEW r \in Plan!LegacyReplies, NEW b, BatchFits(r, b), NEW truncated \in BOOLEAN,
           b.size = r.cut
    PROVE  LegacyFits(r, truncated, Plan!Settle(r, b.size, truncated))
<1> DEFINE d == Plan!Settle(r, b.size, truncated)
<1>1. /\ d.error \/ d.end # "none" => d.actions = {}
      /\ d.actions # {} =>
            /\ d.actions = 1 .. r.cut
            /\ \A i \in d.actions : r.items[i] \notin Plan!Finishes \cup {"badargs"}
      /\ d.end \in {"complete", "blocked"} =>
            /\ ~truncated /\ r.cut = 1 /\ r.items[1] \in {"complete", "blocked"}
  BY LegacySettles
<1>2. ASSUME d.actions # {}, NEW i \in d.actions, r.items[i] = "badname" PROVE r.format = "dsml"
  <2>1. i \in 1 .. r.cut
    <3>1. d.actions = 1 .. r.cut
      BY <1>1, <1>2
    <3> QED BY <1>2, <3>1
  <2>2. r.cut # 0
    <3>1. r.cut \in Int /\ i \in Int /\ 1 <= i /\ i <= r.cut
      BY <2>1, RepliesAre
    <3> QED BY <3>1
  <2>3. Plan!Has(r, r.cut, {"badname"})
    BY <1>2, <2>1 DEF Plan!Has, Plan!Of
  <2> QED BY <2>2, <2>3 DEF BatchFits
<1> QED BY <1>1, <1>2 DEF LegacyFits

LEMMA LegacyDecides ==
    ASSUME NEW r \in Plan!LegacyReplies
    PROVE  LegacyFits(r, r.truncated, Plan!DecideLegacy(r))
<1> DEFINE b == IF Plan!Whole(r) \/ r.format # "json" THEN Plan!Parse(r) ELSE Plan!Salvage(r)
           unread == r.format = "thinking" \/ b.bad \/ (r.format # "prose" /\ b.size = 0)
<1>1. BatchFits(r, b)
  BY BatchesFit
<1>2. CASE unread
  BY <1>2, RejectedFits DEF Plan!DecideLegacy
<1>3. CASE ~unread
  <2>1. Plan!DecideLegacy(r) = Plan!Settle(r, b.size, r.truncated)
    BY <1>3 DEF Plan!DecideLegacy
  <2>2. b.size = r.cut
    <3>1. CASE b.size # 0
      BY <1>1, <3>1 DEF BatchFits
    <3>2. CASE b.size = 0
      BY <1>3, <3>2, RepliesAre
    <3> QED BY <3>1, <3>2
  <2> QED BY <1>1, <2>1, <2>2, BatchSettles, RepliesAre
<1> QED BY <1>2, <1>3

\* A repair is a reply of the legacy protocol.
LEMMA RepairsAre == \A r \in Plan!Repairs : r \in Plan!LegacyReplies /\ r # Plan!NoReply
<1>1. <<>> \in Plan!SeqOf(Plan!Kinds, MaxItems)
  <2>1. 0 \in 0 .. MaxItems /\ <<>> \in [1 .. 0 -> Plan!Kinds]
    BY RepliesAssumption
  <2> QED BY <2>1 DEF Plan!SeqOf
<1>2. [format |-> "prose", items |-> <<>>, cut |-> 0, text |-> "prose", truncated |-> FALSE]
         \in Plan!LegacyReplies
  BY <1>1, RepliesAssumption DEF Plan!LegacyReplies
<1>3. \A r \in Plan!Repairs : r \in Plan!LegacyReplies
  BY <1>2 DEF Plan!Repairs
<1> QED BY <1>3, RepliesAre DEF Plan!NoReply

LEMMA RepairDecides ==
    ASSUME NEW r \in Plan!Repairs, reply.truncated \in BOOLEAN
    PROVE  LegacyFits(r, reply.truncated, Plan!DecideRepaired(r))
<1> DEFINE b == IF Plan!Whole(r) THEN Plan!Parse(r) ELSE Plan!Salvage(r)
           second == IF b.found THEN b ELSE Plan!Salvage(r)
<1>1. r \in Plan!LegacyReplies
  BY RepairsAre
<1>2. BatchFits(r, second)
  BY <1>1, BatchesFit
<1>3. CASE second.size = 0
  BY <1>3, RejectedFits DEF Plan!DecideRepaired
<1>4. CASE second.size # 0
  <2>1. Plan!DecideRepaired(r) = Plan!Settle(r, second.size, reply.truncated)
    BY <1>4 DEF Plan!DecideRepaired
  <2>2. second.size = r.cut
    BY <1>2, <1>4 DEF BatchFits
  <2> QED BY <1>1, <1>2, <2>1, <2>2, BatchSettles
<1> QED BY <1>3, <1>4

LEMMA PlanStarts == Plan!Init => PlanInv
BY DEF Plan!Init, PlanInv, Planned, Plan!PlanningSafe, Plan!NothingInPart, Plan!EndsAlone, Plan!Nothing

LEMMA NativeAsked ==
    ASSUME PlanInv, native, NEW r \in Plan!NativeReplies, Plan!Ask(r)
    PROVE  PlanInv'
<1>1. /\ stage' = "planned" /\ reply' = r /\ fixed' = Plan!NoReply /\ native' = native
      /\ decision' = Plan!DecideNative(r)
  BY DEF PlanInv, Planned, Plan!Ask
<1>2. Planned'
  BY <1>1 DEF PlanInv, Planned
<1>3. Plan!NothingInPart'
  BY <1>1, NativeDecides DEF Plan!NothingInPart, Plan!Of
<1>4. Plan!EndsAlone'
  BY <1>1, NativeDecides DEF Plan!EndsAlone, Plan!Has, Plan!Of
<1> QED BY <1>2, <1>3, <1>4 DEF PlanInv, Plan!PlanningSafe

LEMMA LegacyAsked ==
    ASSUME PlanInv, ~native, NEW r \in Plan!LegacyReplies, Plan!Ask(r)
    PROVE  PlanInv'
<1>1. /\ reply' = r /\ fixed' = Plan!NoReply /\ ~native' /\ native' \in BOOLEAN
      /\ decision = Plan!Nothing
  BY DEF PlanInv, Planned, Plan!Ask
<1>2. CASE Plan!NeedsRepair(r)
  <2>1. stage' = "repairing" /\ decision' = Plan!Nothing
    BY <1>1, <1>2 DEF Plan!Ask
  <2>2. Plan!PlanningSafe'
    BY <2>1 DEF Plan!PlanningSafe, Plan!NothingInPart, Plan!EndsAlone, Plan!Nothing
  <2>3. Planned'
    BY <1>1, <1>2, <2>1 DEF Planned, Plan!NeedsRepair, Plan!Salvage, Plan!ParseArray, Plan!Whole,
                           Plan!Has, Plan!Of
  <2> QED BY <2>2, <2>3 DEF PlanInv
<1>3. CASE ~Plan!NeedsRepair(r)
  <2>1. stage' = "planned" /\ decision' = Plan!DecideLegacy(r)
    BY <1>3 DEF Plan!Ask
  <2>2. LegacyFits(r, r.truncated, decision')
    BY <2>1, LegacyDecides
  <2>3. Planned'
    BY <1>1, <2>1 DEF Planned
  <2>4. Plan!NothingInPart'
    BY <1>1, <2>2 DEF LegacyFits, Plan!NothingInPart
  <2>5. Plan!EndsAlone'
    <3>1. SUFFICES ASSUME decision'.end \in {"complete", "blocked"}
                   PROVE  Plan!EndsAlone'
      BY DEF Plan!EndsAlone
    <3>2. /\ ~r.truncated /\ r.cut = 1 /\ r.items[1] \in {"complete", "blocked"}
          /\ Len(r.items) \in Nat /\ r.cut \in 0 .. Len(r.items) /\ r.text = "prose"
      BY <2>2, <3>1, RepliesAre DEF LegacyFits
    <3>3. Plan!Whole(r) => ~Plan!Has(r, Len(r.items), Plan!Kinds \ Plan!Finishes)
      BY <3>2 DEF Plan!Whole, Plan!Has, Plan!Of, Plan!Finishes, Plan!Completions
    <3>4. Plan!Has(r, Len(r.items), {"complete", "blocked"})
      BY <3>2 DEF Plan!Has, Plan!Of
    <3> QED BY <1>1, <3>2, <3>3, <3>4 DEF Plan!EndsAlone, Plan!Whole, Plan!Has, Plan!Of
  <2> QED BY <2>3, <2>4, <2>5 DEF PlanInv, Plan!PlanningSafe
<1> QED BY <1>2, <1>3

LEMMA PlanRepaired ==
    ASSUME PlanInv, stage = "repairing", NEW r \in Plan!Repairs, Plan!Repair(r)
    PROVE  PlanInv'
<1>1. /\ reply' = reply /\ fixed' = r /\ ~native /\ native' = native /\ native' \in BOOLEAN
      /\ stage' = "planned" /\ decision' = Plan!DecideRepaired(r)
      /\ reply \in Plan!LegacyReplies /\ ~Plan!Whole(reply)
  BY DEF PlanInv, Planned, Plan!Repair, Plan!NeedsRepair
<1>2. r \in Plan!LegacyReplies /\ r # Plan!NoReply
  BY RepairsAre
<1>3. LegacyFits(r, reply.truncated, decision')
  BY <1>1, RepliesAre, RepairDecides
<1>4. Planned'
  BY <1>1 DEF Planned
<1>5. Plan!NothingInPart'
  BY <1>1, <1>2, <1>3 DEF LegacyFits, Plan!NothingInPart, Plan!NoReply
<1>6. Plan!EndsAlone'
  <2>1. SUFFICES ASSUME decision'.end \in {"complete", "blocked"}
                 PROVE  Plan!EndsAlone'
    BY DEF Plan!EndsAlone
  <2>2. /\ ~reply.truncated /\ r.cut = 1 /\ r.items[1] \in {"complete", "blocked"}
        /\ Len(r.items) \in Nat /\ r.cut \in 0 .. Len(r.items) /\ reply.text = "prose"
    BY <1>1, <1>2, <1>3, <2>1, RepliesAre DEF LegacyFits
  <2>3. Plan!Has(r, Len(r.items), {"complete", "blocked"})
    BY <2>2 DEF Plan!Has, Plan!Of
  <2> QED BY <1>1, <2>2, <2>3 DEF Plan!EndsAlone, Plan!Whole, Plan!Has, Plan!Of
<1> QED BY <1>4, <1>5, <1>6 DEF PlanInv, Plan!PlanningSafe

LEMMA PlanSteps == PlanInv /\ [Plan!Next]_(Plan!planVars) => PlanInv'
<1> SUFFICES ASSUME PlanInv, [Plan!Next]_(Plan!planVars) PROVE PlanInv'
  OBVIOUS
<1>1. CASE Plan!Fails
  BY <1>1 DEF PlanInv, Planned, Plan!Fails, Plan!PlanningSafe, Plan!NothingInPart, Plan!EndsAlone,
              Plan!Rejected, Plan!Nothing
<1>2. ASSUME NEW r \in IF native THEN Plan!NativeReplies ELSE Plan!LegacyReplies, Plan!Ask(r)
      PROVE  PlanInv'
  BY <1>2, NativeAsked, LegacyAsked DEF PlanInv, Planned
<1>3. CASE UNCHANGED Plan!planVars
  BY <1>3 DEF PlanInv, Planned, Plan!planVars, Plan!PlanningSafe, Plan!NothingInPart, Plan!EndsAlone,
              Plan!NeedsRepair, Plan!Salvage, Plan!ParseArray, Plan!Whole, Plan!Has, Plan!Of
<1> QED BY <1>1, <1>2, <1>3, PlanRepaired DEF Plan!Next

\* Tokens are never asked for that would not fit.
LEMMA BudgetAlwaysFits == Plan!BudgetFits
<1> SUFFICES ASSUME NEW window \in Windows, NEW size \in Sizes, NEW requested \in {0, 65536},
                    NEW most \in {0, 512, 8192}
             PROVE  LET output == Plan!OutputTokens(window, requested, most)
                        budget == Plan!InputBudget(window, output, size)
                    IN  /\ output > 0
                        /\ budget > 0 => budget \div 2 + output + 1024 + size \div 2 <= window
  BY DEF Plan!BudgetFits
<1> DEFINE output == Plan!OutputTokens(window, requested, most)
           budget == Plan!InputBudget(window, output, size)
<1>1. window \in Nat /\ size \in Nat
  BY RepliesAssumption
<1>2. output \in Int /\ output > 0
  BY <1>1 DEF Plan!OutputTokens, Plan!Smaller
<1>3. budget > 0 => budget \div 2 + output + 1024 + size \div 2 <= window
  BY <1>1, <1>2 DEF Plan!InputBudget
<1> QED BY <1>2, <1>3

\* The other parts of MCAgent leave the planner alone.
LEMMA OthersLeavePlan == [AgentNext]_allVars => [Plan!Next]_(Plan!planVars)
BY DEF AgentNext, InLoop, allVars, planVars, Plan!planVars

\* Only whole answers of the model count, no socket is shut after it was closed,
\* every token is booked once (llm.c, http_dispatch.c, usage.c); and what the
\* planner makes of a reply is all of it or nothing (planner.c).
THEOREM RepliesCountWhole == AgentSpec => []RepliesSafe
<1>1. AgentInit => CallsInv /\ PlanInv
  BY CallsStart, PlanStarts DEF AgentInit
<1>2. CallsInv /\ PlanInv /\ [AgentNext]_allVars => (CallsInv /\ PlanInv)'
  BY CallsSteps, PlanSteps, OthersLeaveCalls, OthersLeavePlan
<1>3. CallsInv /\ PlanInv => RepliesSafe
  BY CallsImplySafe, BudgetAlwaysFits DEF PlanInv, RepliesSafe
<1> QED BY <1>1, <1>2, <1>3, PTL DEF AgentSpec
=============================================================================
