--------------------------------- MODULE Emit ---------------------------------
(***************************************************************************)
(* The span helpers that agents call: emit (Go) and emit/rust.  Each is a  *)
(* name, a span kind and a list of attributes, translated from the two     *)
(* sources one by one, so that the two can be compared.                    *)
(*                                                                         *)
(* A call is a record with the helper, its arguments, the options of a     *)
(* model call ("" when not given), and the error recorded ("" for none).   *)
(***************************************************************************)
EXTENDS Attributes

Pair(key, text) == [key |-> key, value |-> Str(text)]

Operation(call) ==
    CASE call.helper = "workflow" -> "invoke_workflow"
      [] call.helper = "agent"    -> "invoke_agent"
      [] call.helper = "plan"     -> "plan"
      [] call.helper = "tool"     -> "execute_tool"
      [] call.helper = "model"    -> "chat"

Option(key, text) == IF text = "" THEN <<>> ELSE <<Pair(key, text)>>

(* StartWorkflowSpan, StartAgentSpan, StartPlanSpan, StartToolSpan,        *)
(* StartModelSpan with WithProviderName and WithRequestModel.              *)
GoAttrs(call) ==
    CASE call.helper = "workflow" ->
            << Pair("run_id", call.run), Pair("workflow_name", call.label),
               Pair("gen_ai.operation.name", Operation(call)),
               Pair("gen_ai.workflow.name", call.label),
               Pair("gen_ai.conversation.id", call.run) >>
      [] call.helper = "agent" ->
            << Pair("run_id", call.run), Pair("job_id", call.job),
               Pair("agent_id", call.label),
               Pair("gen_ai.operation.name", Operation(call)),
               Pair("gen_ai.agent.id", call.label) >>
      [] call.helper = "plan" ->
            << Pair("run_id", call.run), Pair("job_id", call.job),
               Pair("gen_ai.operation.name", Operation(call)) >>
      [] call.helper = "tool" ->
            << Pair("run_id", call.run), Pair("job_id", call.job),
               Pair("tool_name", call.label),
               Pair("gen_ai.operation.name", Operation(call)),
               Pair("gen_ai.tool.name", call.label) >>
      [] call.helper = "model" ->
            << Pair("run_id", call.run), Pair("job_id", call.job),
               Pair("gen_ai.operation.name", Operation(call)) >>
            \o Option("gen_ai.provider.name", call.provider)
            \o Option("gen_ai.request.model", call.model)

(* What start_agent_span and its siblings set of their own.                *)
RustOwn(call) ==
    CASE call.helper = "workflow" ->
            << Pair("workflow_name", call.label), Pair("gen_ai.workflow.name", call.label),
               Pair("gen_ai.conversation.id", call.run) >>
      [] call.helper = "agent" ->
            << Pair("agent_id", call.label), Pair("gen_ai.agent.id", call.label) >>
      [] call.helper = "plan" -> <<>>
      [] call.helper = "tool" ->
            << Pair("tool_name", call.label), Pair("gen_ai.tool.name", call.label) >>
      [] call.helper = "model" ->
            Option("gen_ai.provider.name", call.provider)
            \o Option("gen_ai.request.model", call.model)

RustSpine(call) ==
    << Pair("run_id", call.run), Pair("gen_ai.operation.name", Operation(call)) >>

(* MUTANT of RustAttrs: the job id is set for no helper.                   *)
RustAttrsNoJob(call) == RustSpine(call) \o RustOwn(call)

RustAttrs(call) ==
    RustSpine(call)
    \o (IF call.helper = "workflow" THEN <<>> ELSE << Pair("job_id", call.job) >>)
    \o RustOwn(call)

(* Go passes a kind, and CLIENT for a model call; the Rust helpers pass    *)
(* none and have the default of the SDK.                                   *)
GoKind(call)   == IF call.helper = "model" THEN "CLIENT" ELSE "INTERNAL"
RustKind(call) == "INTERNAL"

(* RecordError: nothing for nil; status and exception event otherwise.     *)
GoEvents(call) ==
    IF call.error = "" THEN <<>>
    ELSE << [name |-> "exception",
             attrs |-> << Pair("exception.type", "*errors.errorString"),
                          Pair("exception.message", call.error) >>] >>

(* record_error: the event has the message only.                           *)
RustEvents(call) ==
    IF call.error = "" THEN <<>>
    ELSE << [name |-> "exception",
             attrs |-> << Pair("exception.message", call.error) >>] >>

Status(call) == IF call.error = "" THEN "unset" ELSE "error"

(* The span as the SDK exports it.                                         *)
GoSpan(call) ==
    [name |-> Operation(call), kind |-> GoKind(call), status |-> Status(call),
     body |-> Scalar("missing", ""),
     attrs |-> GoAttrs(call), events |-> GoEvents(call)]

RustSpan(call) ==
    [name |-> Operation(call), kind |-> RustKind(call), status |-> Status(call),
     body |-> Scalar("missing", ""),
     attrs |-> RustAttrs(call), events |-> RustEvents(call)]
=============================================================================
