------------------------------ MODULE MCPipeline ------------------------------
(***************************************************************************)
(* Six ways to start the program and eleven batches: two that differ only  *)
(* in prompts, ids on several levels and of several types, values JSON     *)
(* cannot hold on each level, in an event and beside a good record, an     *)
(* integer a float64 cannot hold, and every helper in either language.     *)
(***************************************************************************)
EXTENDS Pipeline, TLC

GenAi == {"gen_ai.operation.name", "gen_ai.workflow.name", "gen_ai.conversation.id",
          "gen_ai.agent.id", "gen_ai.tool.name", "gen_ai.provider.name",
          "gen_ai.request.model", "gen_ai.prompt"}
Own == {"run_id", "job_id", "workflow_name", "agent_id", "tool_name"}
MCKeys == GenAi \cup Own
    \cup {"event.name", "ratio", "count", "exception.type", "exception.message", ""}

MCLower == [k \in MCKeys |-> k] @@ ("Job_ID" :> "job_id") @@ ("gen_ai.p" :> "gen_ai.p")

MCPrefixes == [k \in MCKeys |-> {"", k} \cup
    (CASE k = "gen_ai.prompt" -> {"gen_ai.p"} [] OTHER -> {})]

MCFormatted == [t \in {"x"} |-> "&{[120]}"]
MCRounded == ("7" :> "7") @@ ("2^53+1" :> "2^53") @@ ("2^53" :> "2^53") @@ ("NaN" :> "NaN")

Exact(t) == [text |-> t, glob |-> FALSE]
Glob(t)  == [text |-> t, glob |-> TRUE]

Plain == [tokenFlag |-> "", tokenEnv |-> "", tokenFileFlag |-> "", tokenFileEnv |-> "",
          files |-> ("a" :> "t1") @@ ("b" :> Unreadable) @@ ("c" :> ""),
          redactFlag |-> <<>>, redactEnv |-> <<>>, memory |-> FALSE]

MCConfigs ==
    { Plain,
      [Plain EXCEPT !.tokenFlag = "t1", !.tokenEnv = "t2",
                    !.redactFlag = <<Exact("Job_ID"), Glob("gen_ai.p")>>],
      [Plain EXCEPT !.tokenFileFlag = "a", !.tokenFileEnv = "b", !.redactEnv = <<Glob("")>>,
                    !.memory = TRUE],
      [Plain EXCEPT !.tokenFileEnv = "b"],
      [Plain EXCEPT !.tokenEnv = "t2", !.redactFlag = <<Exact("")>>,
                    !.redactEnv = <<Exact("job_id")>>],
      [Plain EXCEPT !.tokenFileFlag = "c", !.redactEnv = <<Glob("gen_ai.p")>>] }

MCHeaders == { <<>>, << [scheme |-> "Bearer", token |-> "t1"] >>,
               << [scheme |-> "Basic", token |-> "t1"], [scheme |-> "Bearer", token |-> "t1"] >> }

At(k, v) == [key |-> k, value |-> v]
Missing == Scalar("missing", "")
NaN == Scalar("double", "NaN")

Span(attrs, events) == [name |-> "call", kind |-> "INTERNAL", status |-> "unset",
                        body |-> Missing, attrs |-> attrs, events |-> events]

One(resource, scope, record) == [resource |-> resource, scope |-> scope, records |-> {record}]

Prompted(p) ==
    One(<<At("run_id", Str("r1"))>>, <<At("job_id", Str(p))>>,
        Span(<<At("gen_ai.prompt", Str(p))>>,
             <<[name |-> "prompt", attrs |-> <<At("gen_ai.prompt", Str(p))>>]>>))

Call(helper, error) == [helper |-> helper, run |-> "r1", job |-> "j1", label |-> "a",
                        provider |-> "p", model |-> "", error |-> error]

MCCalls == { Call("workflow", ""), Call("agent", "boom"), Call("plan", ""),
             Call("tool", ""), Call("model", "boom") }

MCBatches ==
    { Prompted("p1"), Prompted("p2"),
      One(<<At("job_id", Str("j2")), At("run_id", Str("r2"))>>, <<At("run_id", Str("r1"))>>,
          [Span(<<At("job_id", Str("j2")), At("job_id", Str("j1"))>>, <<>>)
              EXCEPT !.body = [kind |-> "array", items |-> <<Str("a"), Missing>>]]),
      One(<<At("job_id", Str("j1"))>>, <<>>,
          [Span(<<At("job_id", Scalar("int", "7")), At("run_id", Scalar("bytes", "x")),
                  At("event.name", Scalar("unset", ""))>>, <<>>) EXCEPT !.body = Str("text")]),
      One(<<At("ratio", NaN)>>, <<>>, Span(<<At("ratio", Scalar("int", "7"))>>, <<>>)),
      One(<<At("ratio", [kind |-> "array", items |-> <<Scalar("int", "7"), NaN>>])>>, <<>>,
          Span(<<At("run_id", Str("r1"))>>, <<>>)),
      One(<<>>, <<>>, Span(<<At("run_id", Str("r1")),
             At("gen_ai.prompt", [kind |-> "kvlist", pairs |-> <<At("ratio", NaN)>>])>>, <<>>)),
      One(<<>>, <<>>, Span(<<At("run_id", Str("r1"))>>,
             <<[name |-> "e", attrs |-> <<At("count", Scalar("int", "7"))>>],
               [name |-> "e", attrs |-> <<At("ratio", NaN)>>]>>)),
      One(<<>>, <<>>, Span(<<At("run_id", Str("r1")), At("count", Scalar("int", "2^53+1"))>>, <<>>)),
      [resource |-> <<At("run_id", Str("r2"))>>, scope |-> <<At("job_id", Str("j2"))>>,
       records |-> { GoSpan(c) : c \in MCCalls } \cup { RustSpan(c) : c \in MCCalls }],
      [resource |-> <<>>, scope |-> <<>>,
       records |-> { Span(<<At("run_id", Str("r1"))>>, <<>>),
                     Span(<<At("run_id", Str("r1")), At("ratio", NaN)>>, <<>>) }] }

MCAsks == { [column |-> "run_id", text |-> "r1"], [column |-> "job_id", text |-> "j1"],
            [column |-> "job_id", text |-> Placeholder], [column |-> "run_id", text |-> "&{[120]}"] }
=============================================================================
