------------------------------- MODULE Backends -------------------------------
(***************************************************************************)
(* The agent backends as functions: what a tool call answers, what a       *)
(* provider's response turns into, and what the shared conversation        *)
(* history becomes on the wire of each provider.                           *)
(*                                                                         *)
(* Texts are left out.  A call keeps its identity, its tool and whether    *)
(* its arguments are usable; a message keeps its role, whether it has any  *)
(* text, the calls it makes and the calls it answers.                      *)
(***************************************************************************)
EXTENDS Integers, Sequences

Tools     == {"shell", "read_file", "write_file", "edit_file", "list_dir", "finish", "other"}
Arguments == {"fine", "missing", "garbled", "outside"}
RawProviders == {"anthropic", "openai", "google", "ollama"}
CliProviders == {"claude_code", "codex", "opencode"}

(***************************************************************************)
(* Building an agent, with parts of its configuration `missing`.  Ollama   *)
(* and the app-server stub need none of them.                              *)
(***************************************************************************)
Missing == {"api_key", "command", "binary"}
NewOpenAi(missing)    == "api_key" \notin missing
NewAnthropic(missing) == "api_key" \notin missing
NewGoogle(missing)    == "api_key" \notin missing
NewCli(missing)       == "command" \notin missing
Preflight(missing)    == "binary" \notin missing
NewOpenCode(missing)  == "command" \notin missing /\ Preflight(missing)

Builds(provider, missing) ==
    CASE provider = "openai"                    -> NewOpenAi(missing)
      [] provider = "anthropic"                 -> NewAnthropic(missing)
      [] provider = "google"                    -> NewGoogle(missing)
      [] provider \in {"claude_code", "codex"} -> NewCli(missing)
      [] provider = "opencode"                  -> NewOpenCode(missing)
      [] OTHER                                  -> TRUE

(***************************************************************************)
(* The conversation history (turn.rs).                                     *)
(***************************************************************************)
Message(role, text, calls, answers) ==
    [role |-> role, text |-> text, calls |-> calls, answers |-> answers]
System             == Message("system", TRUE, <<>>, <<>>)
Prompt             == Message("user", TRUE, <<>>, <<>>)
Assistant(m)       == Message("assistant", m.text, m.calls, <<>>)
ToolAnswer(c)      == Message("tool", TRUE, <<>>, <<c>>)

(***************************************************************************)
(* Tool calls (tools.rs).  "abort" is an Err that the turn loop passes on  *)
(* and that ends the attempt; everything else becomes an answer.           *)
(* `here` says whether the workspace directory exists: a shell cannot be   *)
(* started in a directory that is gone, and the deepest existing ancestor  *)
(* of a path in it lies outside of the workspace.                          *)
(***************************************************************************)
ResolveInWorkspace(c, here) ==
    IF c.args = "outside" \/ ~here THEN "abort" ELSE "path"

RunShell(c, here) ==
    IF c.args = "missing" \/ ~here THEN "abort" ELSE "answer"

RunFileTool(c, here) ==
    IF c.args = "missing" \/ ResolveInWorkspace(c, here) = "abort"
    THEN "abort" ELSE "answer"

RunEditFile(c, here) == RunFileTool(c, here)
RunReadFile(c, here) == RunFileTool(c, here)

\* The path is resolved first; creating its parents and writing come later.
RunWriteFile(c, here) ==
    IF RunFileTool(c, here) = "abort" THEN "abort" ELSE "resolved"

\* Without a path it lists the workspace itself.
RunListDir(c, here) ==
    IF ResolveInWorkspace(c, here) = "abort" THEN "abort" ELSE "answer"

DispatchTool(c, here) ==
    CASE c.tool = "shell"      -> RunShell(c, here)
      [] c.tool = "read_file"  -> RunReadFile(c, here)
      [] c.tool = "write_file" -> RunWriteFile(c, here)
      [] c.tool = "edit_file"  -> RunEditFile(c, here)
      [] c.tool = "list_dir"   -> RunListDir(c, here)
      [] OTHER                 -> "answer"

(***************************************************************************)
(* Responses.  "hollow" is a 2xx answer without the part that carries the  *)
(* message; `metered` says whether it reports token usage.                 *)
(***************************************************************************)
Failure == [text |-> FALSE, calls |-> <<>>, tokens |-> -1]

Parsed(resp, calls) ==
    [text   |-> resp.text /\ resp.body = "full",
     calls  |-> IF resp.body = "full" THEN calls ELSE <<>>,
     tokens |-> IF resp.metered THEN 1 ELSE 0]

\* No content array is an empty message, not an error.
ParseAnthropic(resp) ==
    IF resp.body = "error" THEN Failure ELSE Parsed(resp, resp.calls)

\* Arguments come as a JSON text; one that does not parse becomes {}.
ParseOpenAi(resp) ==
    IF resp.body \in {"error", "hollow"} THEN Failure
    ELSE Parsed(resp, [k \in DOMAIN resp.calls |->
            IF resp.calls[k].args = "garbled"
            THEN [resp.calls[k] EXCEPT !.args = "missing"] ELSE resp.calls[k]])

ParseGoogle(resp) ==
    IF resp.body \in {"error", "hollow"} THEN Failure ELSE Parsed(resp, resp.calls)

ParseOllama(resp) ==
    IF resp.body \in {"error", "hollow"} THEN Failure ELSE Parsed(resp, resp.calls)

Parse(provider, resp) ==
    CASE provider = "anthropic" -> ParseAnthropic(resp)
      [] provider = "openai"    -> ParseOpenAi(resp)
      [] provider = "google"    -> ParseGoogle(resp)
      [] provider = "ollama"    -> ParseOllama(resp)

(***************************************************************************)
(* The history on the wire.                                                *)
(***************************************************************************)
\* Anthropic: consecutive tool answers travel together in one user message.
Flush(acc) ==
    IF acc.pending = <<>> THEN acc
    ELSE [out     |-> Append(acc.out, Message("user", FALSE, <<>>, acc.pending)),
          pending |-> <<>>]

\* A plausible bug: answers are flushed before an assistant message only.
CollapseStepLate(acc, m) ==
    CASE m.role = "system" -> acc
      [] m.role = "tool"   -> [acc EXCEPT !.pending = @ \o m.answers]
      [] m.role = "user"   -> [acc EXCEPT !.out = Append(@, m)]
      [] OTHER             -> [Flush(acc) EXCEPT !.out = Append(@, m)]

CollapseStep(acc, m) ==
    CASE m.role = "system" -> acc
      [] m.role = "tool"   -> [acc EXCEPT !.pending = @ \o m.answers]
      [] OTHER             -> [Flush(acc) EXCEPT !.out = Append(@, m)]

\* What the loop over the history leaves behind.
Collapsed(hist) ==
    LET acc[k \in 0..Len(hist)] ==
            IF k = 0 THEN [out |-> <<>>, pending |-> <<>>]
            ELSE CollapseStep(acc[k - 1], hist[k])
    IN  acc[Len(hist)]

CollapseToAnthropic(hist) == Flush(Collapsed(hist)).out

\* OpenAI and Ollama: one message for one message.
MessageToOpenAi(m) ==
    IF m.role = "tool" THEN Message("tool", m.text, <<>>, m.answers)
    ELSE Message(m.role, m.text, m.calls, <<>>)
OpenAiMessages(hist) == [k \in DOMAIN hist |-> MessageToOpenAi(hist[k])]

\* Ollama and Gemini answer a call by the name of its tool.
Named(calls) == [k \in DOMAIN calls |-> calls[k].tool]
OllamaMessages(hist) ==
    [k \in DOMAIN hist |->
        [hist[k] EXCEPT !.calls = Named(@), !.answers = Named(@)]]

\* Gemini: the system text travels apart, an answer is a user turn of its
\* own, and an assistant message without parts is not sent.
GoogleContent(m) ==
    Message(IF m.role = "assistant" THEN "model" ELSE "user",
            m.text, Named(m.calls), Named(m.answers))
PushContent(contents, m) ==
    IF m.role # "system" /\ (m.role = "assistant" => m.text \/ m.calls # <<>>)
    THEN Append(contents, GoogleContent(m)) ELSE contents
GoogleContents(hist) ==
    LET contents[k \in 0..Len(hist)] ==
            IF k = 0 THEN <<>> ELSE PushContent(contents[k - 1], hist[k])
    IN  contents[Len(hist)]

(***************************************************************************)
(* What the providers require of a conversation.                           *)
(***************************************************************************)
\* The messages after one that makes calls answer them one by one and in their
\* order, and nothing is answered that was not called.
Answered(wire) ==
    /\ \A k \in DOMAIN wire : \A i \in 1..Len(wire[k].calls) :
            k + i <= Len(wire) /\ wire[k + i].answers = <<wire[k].calls[i]>>
    /\ \A j \in DOMAIN wire : wire[j].answers # <<>> =>
            \E k \in 1..(j - 1) : j - k <= Len(wire[k].calls)

\* The very next message answers all of them, and nothing else is answered.
AnsweredAtOnce(wire) ==
    /\ \A k \in DOMAIN wire : wire[k].calls # <<>> =>
            k < Len(wire) /\ wire[k + 1].answers = wire[k].calls
    /\ \A k \in DOMAIN wire : wire[k].answers # <<>> =>
            k > 1 /\ wire[k - 1].calls = wire[k].answers

(***************************************************************************)
(* Token usage of the subprocess backends.  A stream line reports one      *)
(* token; `lines` of them were printed.                                    *)
(***************************************************************************)
NoUsage == -1

StreamUsage(provider) == IF provider = "codex" THEN NoUsage ELSE 1

\* Claude Code and Codex print a total for the whole turn, or none.
CliUsage(lines) == {NoUsage} \cup (IF lines > 0 THEN {lines} ELSE {})

\* OpenCode prints none: the last line that carried usage stands for the turn.
OpenCodeUsage(lines) == IF lines > 0 THEN {1} ELSE {NoUsage}

TerminalUsage(provider, lines) ==
    IF provider = "opencode" THEN OpenCodeUsage(lines) ELSE CliUsage(lines)
===============================================================================
