------------------------------- MODULE Planning -------------------------------
(***************************************************************************)
(* PlanningWorkflow (workflow/planning.py): the conversation with the      *)
(* planner CLI and with the user, what of it is persisted, and how a run   *)
(* is resumed after its process has died or planning was blocked.          *)
(*                                                                         *)
(* The planner may answer anything at any turn.  What it can know is what  *)
(* its CLI session has been told; a prompt stands for what it tells.  One  *)
(* process plans a run at a time, which RunLifecycle shows.                *)
(***************************************************************************)
EXTENDS Naturals, WorkflowStates

CONSTANTS Providers,
          Resumable,               \* those whose adapter supports_resume
          max_turns,
          max_malformed_retries,
          MaxInputs,               \* bound: answers and feedback of the user
          MaxResumes               \* bound: times the run is resumed

ASSUME ProvidersAssumption == Resumable \subseteq Providers
ASSUME LimitsAssumption == /\ max_turns \in Nat \ {0}
                           /\ max_malformed_retries \in Nat
                           /\ MaxInputs \in Nat
                           /\ MaxResumes \in Nat

VARIABLES
    provider,     \* routing.yaml: the provider of each planner model
    \* persisted
    state,
    inputs,       \* decisions: answers and feedback given so far
    escalation,   \* decisions: an architecture_escalation is recorded
    recorded,     \* agent_sessions: the latest one with a session id
    artifacts,    \* the files approved-plan.md and task-profile.json
    \* the process that plans, if any
    pc, attempt,  \* attempt: how its planning loop came to start
    model, escalated, session_id, prompt, turn, malformed,
    read,         \* how many inputs `decisions` of resume() holds
    told,         \* what the session that answered last has been told
    author,       \* the model that answered last
    \* history
    approved,     \* the plan the user has approved
    resumes       \* how often the run has been resumed

stored == <<state, inputs, escalation, recorded, artifacts>>
loopVars == <<attempt, model, escalated, session_id, prompt, turn, malformed,
              read>>
replyVars == <<told, author>>
vars == <<provider, stored, pc, loopVars, replyVars, approved, resumes>>

Models == {"planner.default", "planner.architecture"}
\* 0 stands for the task, and the inputs of the user are numbered.
Facts == 0..MaxInputs
Plans == [by : Models, told : SUBSET Facts]
NoPlan == [by |-> "nobody", told |-> {}]
ArtifactNames == {"approved-plan.md", "task-profile.json"}
Sessions == [model : Models, told : SUBSET Facts]
NoSession == [model |-> "none", told |-> {}]

States == {"NEW", "PROJECT_READY", "PLANNING", "WAITING_FOR_USER",
           "PLAN_READY", "PLAN_APPROVED", "TASK_CLASSIFIED", "BLOCKED",
           "CANCELLED"}
Recoverable == {"PROJECT_READY", "PLANNING", "WAITING_FOR_USER", "PLAN_READY"}
Running == {"start", "invoke", "reply", "ask", "heard", "approval",
            "write_plan", "write_profile", "classify", "raised"}
Attempts == {"run", "resumed", "reconstructed", "fallback"}

TypeOK == /\ provider \in [Models -> Providers]
          /\ state \in States
          /\ inputs \in 0..MaxInputs
          /\ escalation \in BOOLEAN
          /\ recorded \in Sessions \cup {NoSession}
          /\ artifacts \in [ArtifactNames -> Plans \cup {NoPlan}]
          /\ pc \in Running \cup {"off"}
          /\ attempt \in Attempts
          /\ model \in Models
          /\ escalated \in BOOLEAN
          /\ session_id \in BOOLEAN
          /\ prompt \in SUBSET Facts
          /\ turn \in 0..max_turns
          /\ malformed \in 0..max_malformed_retries
          /\ read \in 0..inputs
          /\ told \in SUBSET Facts
          /\ author \in Models
          /\ approved \in Plans \cup {NoPlan}
          /\ resumes \in 0..MaxResumes

Init == /\ provider \in [Models -> Providers]
        /\ state = "NEW"
        /\ inputs = 0
        /\ escalation = FALSE
        /\ recorded = NoSession
        /\ artifacts = [file \in ArtifactNames |-> NoPlan]
        /\ pc = "start"
        /\ attempt = "run"
        /\ model = "planner.default"
        /\ escalated = FALSE
        /\ session_id = FALSE
        /\ prompt = {}
        /\ turn = 0
        /\ malformed = 0
        /\ read = 0
        /\ told = {}
        /\ author = "planner.default"
        /\ approved = NoPlan
        /\ resumes = 0

-----------------------------------------------------------------------------
At(place) == pc = place
GoTo(place) == pc' = place

\* The task, and what the user has said in the first n inputs.
Context(n) == 0..n

CanResume(m) == provider[m] \in Resumable

\* _planning_loop() begins.
BeginLoop(how, with, id, first_prompt) ==
    /\ attempt' = how
    /\ model' = with
    /\ escalated' = (with = "planner.architecture")
    /\ session_id' = id
    /\ prompt' = first_prompt
    /\ turn' = 0
    /\ malformed' = 0
    /\ GoTo("invoke")

\* run()
Discover ==
    /\ At("start")
    /\ state = "NEW"
    /\ state' = "PROJECT_READY"
    /\ UNCHANGED <<provider, inputs, escalation, recorded, artifacts, pc,
                   loopVars, replyVars, approved, resumes>>

Run ==
    /\ At("start")
    /\ state = "PROJECT_READY"
    /\ state' = "PLANNING"
    /\ BeginLoop("run", "planner.default", FALSE, Context(0))
    /\ UNCHANGED <<provider, inputs, escalation, recorded, artifacts, read,
                   replyVars, approved, resumes>>

-----------------------------------------------------------------------------
(* A turn of the planner *)

\* _invoke_planner(): the prompt goes to the session, or to a new one.  A
\* provider that resumes sessions reports the id of each.
Invoke ==
    /\ At("invoke")
    /\ told' = (IF session_id THEN told ELSE {}) \cup prompt
    /\ author' = model
    /\ session_id' = CanResume(model)
    /\ recorded' = IF CanResume(model) THEN [model |-> model, told |-> told']
                                       ELSE recorded
    /\ GoTo("reply")
    /\ UNCHANGED <<provider, state, inputs, escalation, artifacts, attempt,
                   model, escalated, prompt, turn, malformed, read, approved,
                   resumes>>

\* The CLI fails, whether or not the prompt has reached the session and an id
\* was reported: what is recorded comes before the check of the exit code.
InvokeFails ==
    /\ At("invoke")
    /\ \/ UNCHANGED recorded
       \/ /\ CanResume(model)
          /\ \E reached \in {{}, prompt} :
                recorded' = [model |-> model,
                             told |-> (IF session_id THEN told ELSE {})
                                      \cup reached]
    /\ GoTo("raised")
    /\ UNCHANGED <<provider, state, inputs, escalation, artifacts, loopVars,
                   replyVars, approved, resumes>>

\* Mutant of Malformed: retries are not counted.
MalformedUncounted ==
    /\ At("reply")
    /\ \/ prompt' = {} /\ GoTo("invoke")
       \/ GoTo("raised") /\ UNCHANGED prompt
    /\ UNCHANGED <<provider, stored, attempt, model, escalated, session_id,
                   turn, malformed, read, replyVars, approved, resumes>>

\* _parse_turn_with_retry(): the retry prompt tells what was wrong.
Malformed ==
    /\ At("reply")
    /\ \/ /\ malformed < max_malformed_retries
          /\ malformed' = malformed + 1
          /\ prompt' = {}
          /\ GoTo("invoke")
       \/ /\ malformed = max_malformed_retries
          /\ GoTo("raised")
          /\ UNCHANGED <<malformed, prompt>>
    /\ UNCHANGED <<provider, stored, attempt, model, escalated, session_id,
                   turn, read, replyVars, approved, resumes>>

\* The planner reports an architecture flag, or none.
MayEscalate ==
    \/ UNCHANGED <<model, escalated, session_id, escalation>>
    \/ /\ ~escalated
       /\ escalated' = TRUE
       /\ model' = "planner.architecture"
       /\ session_id' = (session_id /\ provider["planner.architecture"]
                                         = provider[model])
       /\ escalation' = TRUE

\* The planner reports a blocker, or a status without what belongs to it.
ReplyBlocked ==
    /\ At("reply")
    /\ MayEscalate
    /\ GoTo("raised")
    /\ UNCHANGED <<provider, state, inputs, recorded, artifacts, attempt,
                   prompt, turn, malformed, read, replyVars, approved, resumes>>

ReplyQuestions ==
    /\ At("reply")
    /\ inputs < MaxInputs
    /\ MayEscalate
    /\ state' = "WAITING_FOR_USER"
    /\ prompt' = {}
    /\ GoTo("ask")
    /\ UNCHANGED <<provider, inputs, recorded, artifacts, attempt, turn,
                   malformed, read, replyVars, approved, resumes>>

ReplyPlan ==
    /\ At("reply")
    /\ MayEscalate
    /\ state' = "PLAN_READY"
    /\ GoTo("approval")
    /\ UNCHANGED <<provider, inputs, recorded, artifacts, attempt, prompt,
                   turn, malformed, read, replyVars, approved, resumes>>

-----------------------------------------------------------------------------
(* The user *)

\* An input is persisted before the planner hears of it.
Record(so_far) ==
    /\ inputs < MaxInputs
    /\ inputs' = inputs + 1
    /\ prompt' = so_far \cup {inputs + 1}

Answer ==
    /\ At("ask")
    /\ Record(prompt)
    /\ GoTo("ask") \/ GoTo("heard")
    /\ inputs' = MaxInputs => GoTo("heard")
    /\ UNCHANGED <<provider, state, escalation, recorded, artifacts, attempt,
                   model, escalated, session_id, turn, malformed, read,
                   replyVars, approved, resumes>>

Feedback ==
    /\ At("approval")
    /\ Record({})
    /\ GoTo("heard")
    /\ UNCHANGED <<provider, state, escalation, recorded, artifacts, attempt,
                   model, escalated, session_id, turn, malformed, read,
                   replyVars, approved, resumes>>

\* Mutant of NextTurn: one turn too many.
NextTurnOnceMore ==
    /\ At("heard")
    /\ state' = "PLANNING"
    /\ turn' = turn + 1
    /\ malformed' = 0
    /\ GoTo(IF turn = max_turns THEN "raised" ELSE "invoke")
    /\ UNCHANGED <<provider, inputs, escalation, recorded, artifacts, attempt,
                   model, escalated, session_id, prompt, read, replyVars,
                   approved, resumes>>

\* Mutant of NextTurn: the run is left as it was when the user was asked.
NextTurnUnmarked ==
    /\ At("heard")
    /\ turn' = turn + 1
    /\ malformed' = 0
    /\ GoTo(IF turn + 1 = max_turns THEN "raised" ELSE "invoke")
    /\ UNCHANGED <<provider, stored, attempt, model, escalated, session_id,
                   prompt, read, replyVars, approved, resumes>>

\* Back to the planner, unless this was the last turn.
NextTurn ==
    /\ At("heard")
    /\ state' = "PLANNING"
    /\ turn' = turn + 1
    /\ malformed' = 0
    /\ GoTo(IF turn + 1 = max_turns THEN "raised" ELSE "invoke")
    /\ UNCHANGED <<provider, inputs, escalation, recorded, artifacts, attempt,
                   model, escalated, session_id, prompt, read, replyVars,
                   approved, resumes>>

Cancel ==
    /\ At("approval")
    /\ state' = "CANCELLED"
    /\ GoTo("off")
    /\ UNCHANGED <<provider, inputs, escalation, recorded, artifacts, loopVars,
                   replyVars, approved, resumes>>

Plan == [by |-> author, told |-> told]

Approve ==
    /\ At("approval")
    /\ state' = "PLAN_APPROVED"
    /\ approved' = Plan
    /\ GoTo("write_plan")
    /\ UNCHANGED <<provider, inputs, escalation, recorded, artifacts, loopVars,
                   replyVars, resumes>>

-----------------------------------------------------------------------------
(* After the approval *)

Write(file, next) ==
    /\ artifacts' = [artifacts EXCEPT ![file] = Plan]
    /\ GoTo(next)
    /\ UNCHANGED <<provider, state, inputs, escalation, recorded, loopVars,
                   replyVars, approved, resumes>>

\* Mutant of WritePlan: the run is classified before its profile is written.
WritePlanOnly == At("write_plan") /\ Write("approved-plan.md", "classify")

WritePlan == At("write_plan") /\ Write("approved-plan.md", "write_profile")
WriteProfile == At("write_profile") /\ Write("task-profile.json", "classify")

Classify ==
    /\ At("classify")
    /\ state' = "TASK_CLASSIFIED"
    /\ GoTo("off")
    /\ UNCHANGED <<provider, inputs, escalation, recorded, artifacts, loopVars,
                   replyVars, approved, resumes>>

-----------------------------------------------------------------------------
(* PlanningBlockedError, death and resume() *)

Block ==
    /\ At("raised")
    /\ attempt # "resumed"
    /\ state' = "BLOCKED"
    /\ GoTo("off")
    /\ UNCHANGED <<provider, inputs, escalation, recorded, artifacts, loopVars,
                   replyVars, approved, resumes>>

\* A session that was resumed in vain: once more in a new one, with the
\* decisions as resume() has read them.
Fallback ==
    /\ At("raised")
    /\ attempt = "resumed"
    /\ BeginLoop("fallback", "planner.default", FALSE, Context(read))
    /\ UNCHANGED <<provider, stored, read, replyVars, approved, resumes>>

\* The process is killed, interrupted, or ended by any other exception.
Die ==
    /\ pc # "off"
    /\ GoTo("off")
    /\ UNCHANGED <<provider, stored, loopVars, replyVars, approved, resumes>>

\* Application.run_resume of a blocked run: planning is only blocked from
\* PLANNING.
Recover ==
    /\ At("off")
    /\ state = "BLOCKED"
    /\ state' = "PLANNING"
    /\ UNCHANGED <<provider, inputs, escalation, recorded, artifacts, pc,
                   loopVars, replyVars, approved, resumes>>

\* Mutant of Resume: a session that goes on needs no decisions.
ResumeUninformed ==
    /\ At("off")
    /\ state \in Recoverable
    /\ resumes < MaxResumes
    /\ resumes' = resumes + 1
    /\ state' = "PLANNING"
    /\ read' = inputs
    /\ told' = recorded.told
    /\ IF recorded = NoSession
         THEN BeginLoop("reconstructed", "planner.default", FALSE,
                        Context(inputs))
         ELSE BeginLoop("resumed", recorded.model, TRUE, {0})
    /\ UNCHANGED <<provider, inputs, escalation, recorded, artifacts, author,
                   approved>>

\* The latest session with an id goes on if its provider can resume it.
Resume ==
    /\ At("off")
    /\ state \in Recoverable
    /\ resumes < MaxResumes
    /\ resumes' = resumes + 1
    /\ state' = "PLANNING"
    /\ read' = inputs
    /\ told' = recorded.told
    /\ IF recorded = NoSession
         THEN BeginLoop("reconstructed", "planner.default", FALSE,
                        Context(inputs))
         ELSE BeginLoop("resumed", recorded.model, TRUE, Context(inputs))
    /\ UNCHANGED <<provider, inputs, escalation, recorded, artifacts, author,
                   approved>>

-----------------------------------------------------------------------------
Proceed == \/ Discover
           \/ Run
           \/ Invoke
           \/ InvokeFails
           \/ Malformed
           \/ ReplyBlocked
           \/ ReplyQuestions
           \/ ReplyPlan
           \/ Answer
           \/ Feedback
           \/ NextTurn
           \/ Cancel
           \/ Approve
           \/ WritePlan
           \/ WriteProfile
           \/ Classify
           \/ Block
           \/ Fallback

Next == Proceed \/ Die \/ Recover \/ Resume

\* A process at work goes on, the planner answers or fails, and so does the
\* user; nobody has to resume a run.
Spec == Init /\ [][Next]_vars /\ WF_vars(Proceed)

-----------------------------------------------------------------------------
(* Properties *)

\* A classified run has both artifacts, and they hold the plan the user
\* approved, wherever a process has died on the way: this is what
\* implementing relies on.
ClassifiedIsApproved ==
    state = "TASK_CLASSIFIED" =>
        \A file \in ArtifactNames : artifacts[file] = approved

\* No turn, retry, death or resumption ends in a transition that
\* transition_run_state() refuses; and planning is blocked only while PLANNING,
\* so recovering a blocked run (_recover_pre_blocked_state) goes back there.
TransitionsAllowed ==
    [][state' # state =>
          /\ \/ Valid(state, state')
             \/ state = "BLOCKED" /\ state' = "PLANNING"
          /\ state' = "BLOCKED" => state = "PLANNING"]_vars

\* One provider that can resume serves both models.
OneConversation == /\ CanResume("planner.default")
                   /\ provider["planner.architecture"] = provider["planner.default"]

\* The plan the user is asked about comes from a session that has been told
\* the task and everything the user has said, through retries, escalation,
\* deaths and resumption; except in the fallback of a resumed session.
PlanIsInformed ==
    At("approval") /\ OneConversation /\ attempt # "fallback" =>
        Context(inputs) \subseteq told

\* A process that plans ends, whatever the planner and the user answer:
\* turns and retries are counted.
PlanningEnds == pc # "off" ~> pc = "off"
=============================================================================
