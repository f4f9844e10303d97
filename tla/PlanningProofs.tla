---------------------------- MODULE PlanningProofs ----------------------------
(* Theorems about Planning, for every limit, every number of resumptions and *)
(* every choice of providers.                                                *)
EXTENDS Planning, TLAPS

\* A plan records who wrote it and what the author had been told.
LEMMA PlanType ==
    ASSUME author \in Models, told \in SUBSET Facts
    PROVE  Plan \in Plans
BY Zenon DEF Plan, Plans

\* So does a recorded session.
LEMMA SessionType ==
    ASSUME NEW m \in Models, NEW facts \in SUBSET Facts
    PROVE  [model |-> m, told |-> facts] \in Sessions
BY Zenon DEF Sessions

\* What was recorded is something the planner may have been told.
LEMMA RecordedTold ==
    ASSUME recorded \in Sessions \cup {NoSession}
    PROVE  /\ recorded.told \in SUBSET Facts
           /\ recorded # NoSession => recorded.model \in Models
BY DEF Sessions, NoSession

\* The context of the inputs so far fits into a prompt.
LEMMA ContextType ==
    ASSUME NEW n \in 0..MaxInputs
    PROVE  Context(n) \in SUBSET Facts
BY LimitsAssumption DEF Context, Facts

\* The variables of a loop that begins.
LEMMA LoopType ==
    ASSUME NEW how \in Attempts, NEW with \in Models, NEW id \in BOOLEAN,
           NEW first_prompt \in SUBSET Facts,
           BeginLoop(how, with, id, first_prompt)
    PROVE  /\ attempt' \in Attempts
           /\ model' \in Models
           /\ escalated' \in BOOLEAN
           /\ session_id' \in BOOLEAN
           /\ prompt' \in SUBSET Facts
           /\ turn' = 0 /\ malformed' = 0 /\ pc' = "invoke"
BY Zenon DEF BeginLoop, GoTo

\* While the planner is asked there is a turn left: this is what makes the
\* types inductive.
TurnsLeft == pc \in {"start", "invoke", "reply", "ask", "heard", "approval"} =>
                turn < max_turns

\* Every variable has its type; no loop takes more than max_turns turns.
THEOREM TypeCorrect == Spec => []TypeOK
<1>1. Init => TypeOK /\ TurnsLeft
  <2> SUFFICES ASSUME Init PROVE TypeOK /\ TurnsLeft
    OBVIOUS
  <2>1. /\ artifacts \in [ArtifactNames -> Plans \cup {NoPlan}]
        /\ approved \in Plans \cup {NoPlan}
        /\ recorded \in Sessions \cup {NoSession}
    BY DEF Init
  <2>2. escalation \in BOOLEAN /\ escalated \in BOOLEAN /\ session_id \in BOOLEAN
    BY DEF Init
  <2>3. QED
    BY <2>1, <2>2, LimitsAssumption
       DEF Init, TypeOK, TurnsLeft, States, Running, Attempts, Models
<1>2. TypeOK /\ TurnsLeft /\ [Next]_vars => TypeOK' /\ TurnsLeft'
  <2> SUFFICES ASSUME TypeOK, TurnsLeft, [Next]_vars PROVE TypeOK' /\ TurnsLeft'
    OBVIOUS
  <2> USE LimitsAssumption DEF TypeOK, TurnsLeft, At, GoTo, States, Running, Attempts, Models
  <2>1. CASE Discover
    BY <2>1 DEF Discover, loopVars, replyVars
  <2>2. CASE Run
    <3>1. Context(0) \in SUBSET Facts
      BY ContextType
    <3>2. /\ attempt' \in Attempts
          /\ model' \in Models
          /\ escalated' \in BOOLEAN
          /\ session_id' \in BOOLEAN
          /\ prompt' \in SUBSET Facts
          /\ turn' = 0 /\ malformed' = 0 /\ pc' = "invoke"
      BY <2>2, <3>1, LoopType DEF Run
    <3>3. QED
      BY <2>2, <3>2 DEF Run, replyVars
  <2>3. CASE Invoke
    <3>1. told' \in SUBSET Facts
      BY <2>3 DEF Invoke
    <3>2. [model |-> model, told |-> told'] \in Sessions
      BY <3>1, SessionType
    <3>3. recorded' \in Sessions \cup {NoSession}
      BY <2>3, <3>2 DEF Invoke
    <3>4. session_id' \in BOOLEAN
      BY <2>3 DEF Invoke, CanResume
    <3>5. QED
      BY <2>3, <3>1, <3>3, <3>4 DEF Invoke
  <2>4. CASE InvokeFails
    <3>1. ASSUME NEW facts \in SUBSET Facts
          PROVE  [model |-> model, told |-> facts] \in Sessions
      BY SessionType
    <3>2. recorded' \in Sessions \cup {NoSession}
      BY <2>4, <3>1 DEF InvokeFails
    <3>3. QED
      BY <2>4, <3>2 DEF InvokeFails, loopVars, replyVars
  <2>5. CASE Malformed
    BY <2>5 DEF Malformed, stored, replyVars
  <2>6. MayEscalate => /\ model' \in Models
                       /\ escalated' \in BOOLEAN
                       /\ session_id' \in BOOLEAN
                       /\ escalation' \in BOOLEAN
    BY DEF MayEscalate
  <2>7. CASE ReplyBlocked
    BY <2>6, <2>7 DEF ReplyBlocked, replyVars
  <2>8. CASE ReplyQuestions
    BY <2>6, <2>8 DEF ReplyQuestions, replyVars
  <2>9. CASE ReplyPlan
    BY <2>6, <2>9 DEF ReplyPlan, replyVars
  <2>10. CASE Answer
    BY <2>10 DEF Answer, Record, Facts, replyVars
  <2>11. CASE Feedback
    BY <2>11 DEF Feedback, Record, Facts, replyVars
  <2>12. CASE NextTurn
    BY <2>12 DEF NextTurn, replyVars
  <2>13. CASE Cancel
    BY <2>13 DEF Cancel, loopVars, replyVars
  <2>14. CASE Approve
    <3>1. Plan \in Plans
      BY PlanType
    <3>2. QED
      BY <2>14, <3>1 DEF Approve, loopVars, replyVars
  <2>15. CASE WritePlan \/ WriteProfile
    <3>1. Plan \in Plans
      BY PlanType
    <3>2. artifacts' \in [ArtifactNames -> Plans \cup {NoPlan}]
      BY <2>15, <3>1 DEF WritePlan, WriteProfile, Write
    <3>3. QED
      BY <2>15, <3>2 DEF WritePlan, WriteProfile, Write, loopVars, replyVars
  <2>16. CASE Classify
    BY <2>16 DEF Classify, loopVars, replyVars
  <2>17. CASE Block
    BY <2>17 DEF Block, loopVars, replyVars
  <2>18. CASE Fallback
    <3>1. Context(read) \in SUBSET Facts
      BY ContextType
    <3>2. /\ attempt' \in Attempts
          /\ model' \in Models
          /\ escalated' \in BOOLEAN
          /\ session_id' \in BOOLEAN
          /\ prompt' \in SUBSET Facts
          /\ turn' = 0 /\ malformed' = 0 /\ pc' = "invoke"
      BY <2>18, <3>1, LoopType DEF Fallback
    <3>3. QED
      BY <2>18, <3>2 DEF Fallback, stored, replyVars
  <2>19. CASE Die
    BY <2>19 DEF Die, stored, loopVars, replyVars
  <2>20. CASE Recover
    BY <2>20 DEF Recover, loopVars, replyVars
  <2>21. CASE Resume
    <3>1. Context(inputs) \in SUBSET Facts
      BY ContextType
    <3>2. /\ recorded.told \in SUBSET Facts
          /\ recorded # NoSession => recorded.model \in Models
      BY RecordedTold
    <3>3. /\ attempt' \in Attempts
          /\ model' \in Models
          /\ escalated' \in BOOLEAN
          /\ session_id' \in BOOLEAN
          /\ prompt' \in SUBSET Facts
          /\ turn' = 0 /\ malformed' = 0 /\ pc' = "invoke"
      BY <2>21, <3>1, <3>2, LoopType DEF Resume
    <3>4. QED
      BY <2>21, <3>2, <3>3 DEF Resume
  <2>22. CASE UNCHANGED vars
    BY <2>22 DEF vars, stored, loopVars, replyVars
  <2>23. QED
    BY <2>1, <2>2, <2>3, <2>4, <2>5, <2>7, <2>8, <2>9, <2>10, <2>11, <2>12,
       <2>13, <2>14, <2>15, <2>16, <2>17, <2>18, <2>19, <2>20, <2>21, <2>22
       DEF Next, Proceed
<1>3. QED
  BY <1>1, <1>2, PTL DEF Spec

-----------------------------------------------------------------------------
(* What is classified *)

\* The inductive invariant: from the approval on the plan in memory is the
\* approved one and the files are written one after the other; once the run
\* is classified nobody works on it any more.
Writing ==
    /\ pc \in {"write_plan", "write_profile", "classify"} =>
          state = "PLAN_APPROVED" /\ approved = Plan
    /\ pc \in {"write_profile", "classify"} =>
          artifacts["approved-plan.md"] = approved
    /\ pc = "classify" => artifacts["task-profile.json"] = approved
    /\ state = "TASK_CLASSIFIED" =>
          /\ pc = "off"
          /\ \A file \in ArtifactNames : artifacts[file] = approved

LEMMA WritingIsInductive == TypeOK /\ Writing /\ [Next]_vars => Writing'
<1> SUFFICES ASSUME TypeOK, Writing, [Next]_vars PROVE Writing'
  OBVIOUS
<1> USE DEF Writing, ArtifactNames, At, GoTo
<1>1. CASE Discover \/ Run
  BY <1>1 DEF Discover, Run, BeginLoop
<1>2. CASE Invoke \/ InvokeFails
  BY <1>2 DEF Invoke, InvokeFails
<1>3. CASE Malformed
  BY <1>3 DEF Malformed, stored
<1>4. CASE ReplyBlocked \/ ReplyQuestions \/ ReplyPlan
  BY <1>4 DEF ReplyBlocked, ReplyQuestions, ReplyPlan
<1>5. CASE Answer \/ Feedback \/ NextTurn
  BY <1>5 DEF Answer, Feedback, NextTurn
<1>6. CASE Cancel
  BY <1>6 DEF Cancel
<1>7. CASE Approve
  BY <1>7 DEF Approve, Plan, replyVars
<1>8. CASE WritePlan
  <2>1. artifacts' = [artifacts EXCEPT !["approved-plan.md"] = approved]
    BY <1>8 DEF WritePlan, Write
  <2>2. artifacts'["approved-plan.md"] = approved
    BY <2>1 DEF TypeOK
  <2>3. QED
    BY <1>8, <2>2 DEF WritePlan, Write, Plan, replyVars
<1>9. CASE WriteProfile
  <2>1. artifacts' = [artifacts EXCEPT !["task-profile.json"] = approved]
    BY <1>9 DEF WriteProfile, Write
  <2>2. /\ artifacts'["task-profile.json"] = approved
        /\ artifacts'["approved-plan.md"] = approved
    BY <1>9, <2>1 DEF TypeOK, WriteProfile
  <2>3. QED
    BY <1>9, <2>2 DEF WriteProfile, Write, Plan, replyVars
<1>10. CASE Classify
  BY <1>10 DEF Classify
<1>11. CASE Block \/ Die \/ Recover
  BY <1>11 DEF Block, Die, Recover, stored
<1>12. CASE Fallback
  BY <1>12 DEF Fallback, BeginLoop, stored
<1>13. CASE Resume
  BY <1>13 DEF Resume, BeginLoop, Recoverable
<1>14. CASE UNCHANGED vars
  BY <1>14 DEF vars, stored, replyVars, Plan
<1>15. QED
  BY <1>1, <1>2, <1>3, <1>4, <1>5, <1>6, <1>7, <1>8, <1>9, <1>10, <1>11,
     <1>12, <1>13, <1>14 DEF Next, Proceed

\* Wherever processes die and runs are resumed, a classified run has both
\* artifacts of the plan its user approved.
THEOREM ClassifiedHasApprovedPlan == Spec => []ClassifiedIsApproved
<1>1. Init => Writing
  BY DEF Init, Writing
<1>2. Writing => ClassifiedIsApproved
  BY DEF Writing, ClassifiedIsApproved
<1>3. QED
  BY <1>1, <1>2, TypeCorrect, WritingIsInductive, PTL DEF Spec

-----------------------------------------------------------------------------
(* The states of the run *)

\* The state of the run at each place: a process takes up a run only where its
\* state fits, and is at no place when it has died.
StateFits ==
    /\ pc = "start" => state \in {"NEW", "PROJECT_READY"}
    /\ pc \in {"invoke", "reply", "raised"} => state = "PLANNING"
    /\ pc = "ask" => state = "WAITING_FOR_USER"
    /\ pc = "heard" => state \in {"WAITING_FOR_USER", "PLAN_READY"}
    /\ pc = "approval" => state = "PLAN_READY"
    /\ pc \in {"write_plan", "write_profile", "classify"}
          => state = "PLAN_APPROVED"

\* The transitions of planning.
LEMMA PlanningTransitions ==
    /\ Valid("NEW", "PROJECT_READY")
    /\ Valid("PROJECT_READY", "PLANNING")
    /\ \A to \in {"WAITING_FOR_USER", "PLAN_READY", "BLOCKED"} :
          Valid("PLANNING", to)
    /\ Valid("WAITING_FOR_USER", "PLANNING")
    /\ \A to \in {"PLANNING", "PLAN_APPROVED", "CANCELLED"} :
          Valid("PLAN_READY", to)
    /\ Valid("PLAN_APPROVED", "TASK_CLASSIFIED")
BY DEF Valid, ALLOWED_TRANSITIONS

Allowed == state' # state =>
              /\ \/ Valid(state, state')
                 \/ state = "BLOCKED" /\ state' = "PLANNING"
              /\ state' = "BLOCKED" => state = "PLANNING"

LEMMA StateStep == StateFits /\ [Next]_vars => StateFits' /\ Allowed
<1> SUFFICES ASSUME StateFits, [Next]_vars PROVE StateFits' /\ Allowed
  OBVIOUS
<1> USE PlanningTransitions DEF StateFits, Allowed, At, GoTo
<1>1. CASE Discover \/ Run
  BY <1>1 DEF Discover, Run, BeginLoop
<1>2. CASE Invoke \/ InvokeFails \/ Malformed
  BY <1>2 DEF Invoke, InvokeFails, Malformed, stored
<1>3. CASE ReplyBlocked \/ ReplyQuestions \/ ReplyPlan
  BY <1>3 DEF ReplyBlocked, ReplyQuestions, ReplyPlan
<1>4. CASE Answer \/ Feedback \/ NextTurn
  BY <1>4 DEF Answer, Feedback, NextTurn
<1>5. CASE Cancel \/ Approve
  BY <1>5 DEF Cancel, Approve
<1>6. CASE WritePlan \/ WriteProfile \/ Classify
  BY <1>6 DEF WritePlan, WriteProfile, Write, Classify
<1>7. CASE Block \/ Die \/ Recover
  BY <1>7 DEF Block, Die, Recover, stored
<1>8. CASE Fallback
  BY <1>8 DEF Fallback, BeginLoop, stored
<1>9. CASE Resume
  BY <1>9 DEF Resume, BeginLoop, Recoverable
<1>10. CASE UNCHANGED vars
  BY <1>10 DEF vars, stored
<1>11. QED
  BY <1>1, <1>2, <1>3, <1>4, <1>5, <1>6, <1>7, <1>8, <1>9, <1>10
     DEF Next, Proceed

\* Whatever the planner and the user answer, wherever processes die and however
\* often the run is resumed: planning makes only transitions of
\* ALLOWED_TRANSITIONS, and is blocked only while PLANNING.
THEOREM PlanningKeepsToTheStates == Spec => TransitionsAllowed
<1>1. Init => StateFits
  BY DEF Init, StateFits
<1>2. StateFits /\ [Next]_vars => [Allowed]_vars
  BY StateStep
<1>3. QED
  BY <1>1, <1>2, StateStep, PTL DEF Spec, TransitionsAllowed, Allowed

-----------------------------------------------------------------------------
(* What the planner knows *)

\* The inductive invariant: with one provider that can resume, and outside
\* the fallback, a session is kept from the first reply on, and session and
\* pending prompt together hold the task and all inputs of the user.
Informed ==
    /\ pc = "start" => inputs = 0
    /\ OneConversation /\ attempt # "fallback" =>
          /\ pc = "invoke" =>
                Context(inputs) \subseteq (IF session_id THEN told ELSE {}) \cup prompt
          /\ pc \in {"reply", "ask", "heard", "approval"} => session_id
          /\ pc \in {"reply", "approval"} => Context(inputs) \subseteq told
          /\ pc \in {"ask", "heard"} => Context(inputs) \subseteq told \cup prompt

\* Which provider serves which model does not change while a run is planned.
LEMMA SameConversation ==
    ASSUME [Next]_vars
    PROVE  provider' = provider
BY DEF vars, Next, Proceed, Discover, Run, Invoke, InvokeFails, Malformed,
       ReplyBlocked, ReplyQuestions, ReplyPlan, Answer, Feedback, NextTurn,
       Cancel, Approve, WritePlan, WriteProfile, Write, Classify, Block,
       Fallback, Die, Recover, Resume

LEMMA InformedIsInductive == TypeOK /\ Informed /\ [Next]_vars => Informed'
<1> SUFFICES ASSUME TypeOK, Informed, [Next]_vars PROVE Informed'
  OBVIOUS
<1>0. OneConversation' = OneConversation
  BY SameConversation DEF OneConversation, CanResume
<1>00. OneConversation => \A m \in Models : CanResume(m)
  BY DEF OneConversation, CanResume, Models
<1> USE <1>0 DEF Informed, At, GoTo
<1>1. CASE Discover
  BY <1>1 DEF Discover, loopVars
<1>2. CASE Run
  BY <1>2 DEF Run, BeginLoop
<1>3. CASE Invoke
  <2>1. OneConversation => CanResume(model)
    BY <1>00 DEF TypeOK
  <2>2. QED
    BY <1>3, <2>1 DEF Invoke
<1>4. CASE InvokeFails
  BY <1>4 DEF InvokeFails, loopVars
<1>5. CASE Malformed
  BY <1>5 DEF Malformed, stored, replyVars
<1>6. OneConversation /\ session_id /\ MayEscalate => session_id'
  \* Both models have the same provider, so escalating keeps the session.
  BY DEF MayEscalate, OneConversation, TypeOK, Models
<1>7. CASE ReplyBlocked
  BY <1>7 DEF ReplyBlocked
<1>8. CASE ReplyQuestions
  BY <1>6, <1>8 DEF ReplyQuestions, replyVars
<1>9. CASE ReplyPlan
  BY <1>6, <1>9 DEF ReplyPlan, replyVars
<1>10. Context(inputs + 1) = Context(inputs) \cup {inputs + 1}
  BY LimitsAssumption DEF TypeOK, Context
<1>11. CASE Answer
  BY <1>10, <1>11 DEF Answer, Record, replyVars
<1>12. CASE Feedback
  BY <1>10, <1>12 DEF Feedback, Record, replyVars
<1>13. CASE NextTurn
  BY <1>13 DEF NextTurn, replyVars
<1>14. CASE Cancel \/ Approve \/ WritePlan \/ WriteProfile \/ Classify
  BY <1>14 DEF Cancel, Approve, WritePlan, WriteProfile, Write, Classify
<1>15. CASE Block \/ Die \/ Recover
  BY <1>15 DEF Block, Die, Recover
<1>16. CASE Fallback
  BY <1>16 DEF Fallback, BeginLoop
<1>17. CASE Resume
  BY <1>17 DEF Resume, BeginLoop
<1>18. CASE UNCHANGED vars
  BY <1>18 DEF vars, stored, loopVars, replyVars
<1>19. QED
  BY <1>1, <1>2, <1>3, <1>4, <1>5, <1>7, <1>8, <1>9, <1>11, <1>12, <1>13,
     <1>14, <1>15, <1>16, <1>17, <1>18 DEF Next, Proceed

\* Whatever is retried, escalated, interrupted and resumed: with one provider
\* that can resume, the planner of a plan the user is asked about has heard
\* everything the user has said, outside the fallback of a resumption.
THEOREM PlannerIsInformed == Spec => []PlanIsInformed
<1>1. Init => Informed
  BY DEF Init, Informed
<1>2. Informed => PlanIsInformed
  BY DEF Informed, PlanIsInformed, At
<1>3. QED
  BY <1>1, <1>2, TypeCorrect, InformedIsInductive, PTL DEF Spec
=============================================================================
