----------------------------- MODULE Checkpoint -----------------------------
(***************************************************************************)
(* The checkpoint of one session (src/src/backend/checkpoint/mod.rs) and   *)
(* the changes the agent makes to it as a whole: the values that are saved *)
(* and that a restart reads back.                                          *)
(*                                                                         *)
(* `context' keeps what the properties tell apart: <<"message", m>> for a  *)
(* delivered message, <<"call", c>> and <<"output", c>> for a tool call    *)
(* and its result.  Assistant text, usage, model routes and the context    *)
(* epoch are left out.                                                     *)
(***************************************************************************)
EXTENDS MessageQueue

NoExec     == [turn |-> NoTurn, phase |-> "model", idle |-> FALSE, steps |-> 0]
NoApproval == [calls |-> <<>>, decided |-> FALSE]

EmptyCheckpoint ==
    [pending |-> <<>>, exec |-> NoExec, step |-> FALSE, tools |-> <<>>,
     approval |-> NoApproval, context |-> <<>>]

ContextItems(X) == {"message", "call", "output"} \X X

(* All checkpoints with messages of M and calls of C.                      *)
CheckpointsOf(M, C) ==
    [pending : Seq(QueueItems(M)),
     exec : [turn : Nat, phase : {"model", "completion"}, idle : BOOLEAN, steps : Nat],
     step : BOOLEAN,
     tools : Seq(C),
     approval : [calls : Seq(C), decided : BOOLEAN],
     context : Seq(ContextItems(M \cup C))]

Active(ck) == ck.exec # NoExec

MessageItems(queued) == [i \in DOMAIN queued |-> <<"message", queued[i].id>>]
CallItems(calls)   == [i \in DOMAIN calls |-> <<"call", calls[i]>>]
OutputItems(calls) == [i \in DOMAIN calls |-> <<"output", calls[i]>>]

(* begin_turn.                                                             *)
Execution(turn, idle) == [turn |-> turn, phase |-> "model", idle |-> idle, steps |-> 0]

(* Mutant of TurnStartedBy: the message that starts a turn stays queued.   *)
TurnStartKeepsMessage(ck, turn) ==
    [ck EXCEPT !.exec = Execution(turn, FALSE),
               !.context = Append(@, <<"message", NextTurn(ck.pending).id>>)]

(* start_message_turn: the message leaves the queue and enters the context *)
(* with the execution it starts.                                           *)
TurnStartedBy(ck, turn) ==
    [ck EXCEPT !.pending = ConsumeNextTurn(@),
               !.exec = Execution(turn, FALSE),
               !.context = Append(@, <<"message", NextTurn(ck.pending).id>>)]

(* stage_message_input: the accepted steers enter the context in queue     *)
(* order, the ones a hook rejected only leave the queue; a turn that gets  *)
(* one is no longer idle.                                                  *)
WithStaged(ck, rejected) ==
    LET staged   == StagedMessages(ck.pending, ck.exec.turn)
        accepted == Entries(staged, {i \in DOMAIN staged : staged[i].id \notin rejected})
    IN  [ck EXCEPT !.pending = Unstaged(@, ck.exec.turn),
                   !.context = @ \o MessageItems(accepted),
                   !.exec.idle = @ /\ accepted = <<>>]

(* Mutant of WithModelOutput: recovery does not learn of the calls.        *)
OutputNotOwned(ck, calls, endTurn) ==
    [ck EXCEPT !.context = @ \o CallItems(calls),
               !.step = FALSE,
               !.exec.steps = @ + 1,
               !.exec.phase = IF endTurn /\ calls = <<>> THEN "completion" ELSE "model"]

(* normalize_and_persist_model_step: the whole provider output becomes     *)
(* history, and recovery owns its calls before any of the rest runs.       *)
WithModelOutput(ck, calls, endTurn) ==
    [ck EXCEPT !.context = @ \o CallItems(calls),
               !.tools = calls,
               !.step = FALSE,
               !.exec.steps = @ + 1,
               !.exec.phase = IF endTurn /\ calls = <<>> THEN "completion" ELSE "model"]

(* The calls that are in S, in their order.                                *)
CallsIn(calls, S) == Entries(calls, {i \in DOMAIN calls : calls[i] \in S})

(* append_tool_results.                                                    *)
WithResults(ck, calls) ==
    [ck EXCEPT !.context = @ \o OutputItems(calls),
               !.tools = CallsIn(@, ToSet(@) \ ToSet(calls))]

(* Mutant of WithInterruptedTools: outputs without calls.                  *)
InterruptedOutputsOnly(ck) == [ck EXCEPT !.context = @ \o OutputItems(ck.tools), !.tools = <<>>]

(* finish_pending_tools: calls that were streamed while the step was open  *)
(* enter the history together with their interrupted results.              *)
WithInterruptedTools(ck) ==
    [ck EXCEPT !.context = @ \o (IF ck.step THEN CallItems(ck.tools) ELSE <<>>)
                             \o OutputItems(ck.tools),
               !.tools = <<>>]

(* abort_with_events and finish_turn for an aborted or failed execution.   *)
Aborted(ck) ==
    [WithInterruptedTools(ck) EXCEPT !.step = FALSE,
                                     !.approval = NoApproval,
                                     !.pending = PromoteFailedTurn(@, ck.exec.turn),
                                     !.exec = NoExec]

(* complete_turn: the messages of a completed turn are not promoted.       *)
Completed(ck) == [ck EXCEPT !.exec = NoExec]

(* Mutant of UncertainTools: a decision is forgotten.                      *)
DecisionForgotten(ck) == ck.tools # <<>> /\ ck.approval = NoApproval

(* create_agent: calls that may have run, and a model step that was open,  *)
(* end the interrupted execution; an undecided approval or a turn between  *)
(* steps is resumed.                                                       *)
UncertainTools(ck) == ck.tools # <<>> /\ (ck.approval = NoApproval \/ ck.approval.decided)

InterruptedExecution(ck) == UncertainTools(ck) \/ ck.step

(* Mutant of Recovered: recovery drops the steers it should promote.       *)
RecoveryDropsSteers(ck) ==
    IF ~InterruptedExecution(ck)
      THEN ck
      ELSE [WithInterruptedTools(ck) EXCEPT !.step = FALSE,
                                            !.approval = NoApproval,
                                            !.pending = Unstaged(@, ck.exec.turn),
                                            !.exec = NoExec]

Recovered(ck) ==
    IF ~InterruptedExecution(ck)
      THEN ck
      ELSE LET closed == IF UncertainTools(ck)
                           THEN [WithInterruptedTools(ck) EXCEPT !.approval = NoApproval]
                           ELSE ck
           IN  [closed EXCEPT !.step = FALSE,
                              !.pending = PromoteFailedTurn(@, ck.exec.turn),
                              !.exec = NoExec]

=============================================================================
