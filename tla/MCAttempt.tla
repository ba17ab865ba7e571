------------------------------ MODULE MCAttempt -------------------------------
(* Instances of Attempt for TLC. *)
EXTENDS Attempt

Active == {"Todo", "Doing"}

Call(tool, args) == [tool |-> tool, args |-> args]
Reply(text, calls, body, metered) ==
    [text |-> text, calls |-> calls, body |-> body, metered |-> metered]

Done   == Reply(TRUE, <<>>, "full", TRUE)
Hollow == Reply(TRUE, <<>>, "hollow", TRUE)
Write  == Reply(FALSE, <<Call("write_file", "fine")>>, "full", FALSE)
Finish == Reply(FALSE, <<Call("finish", "fine"), Call("shell", "garbled")>>, "full", TRUE)
Look   == Reply(TRUE, <<Call("list_dir", "fine"), Call("read_file", "missing")>>, "full", FALSE)
MCResponses == {Done, Hollow, Write, Finish, Look}

Both(a, b) == [s \in Active |-> IF s = "Todo" THEN a ELSE b]
Setup(agent, hooks, turns, reaping, replies) ==
    [agent |-> agent, hooks |-> hooks, maxTurns |-> turns, reaping |-> reaping,
     replies |-> replies, missing |-> {}]

\* One configuration per question: the history over two turns; a workspace
\* with everything that removes it, and an agent that does not start; the other
\* raw providers; two CLI backends and the switch between them; a CLI that
\* streams no usage and an agent that cannot be built.
History    == Setup(Both("anthropic", "anthropic"), {}, 2, FALSE, {Done, Hollow, Write, Finish})
Directory  == Setup(Both("openai", "app_server"), {"after_create"}, 1, TRUE, {Write})
OneTurn    == Setup(Both("ollama", "google"), {"before_run", "after_run"}, 1, FALSE,
                    {Done, Hollow, Finish, Look})
TwoClis    == Setup(Both("claude_code", "opencode"), {}, 2, FALSE, {})
QuietClis  == [Setup(Both("codex", "openai"), {"after_create"}, 2, FALSE, {})
                  EXCEPT !.missing = {"api_key"}]
MCConfigs  == {History, Directory, OneTurn, TwoClis, QuietClis}

\* What is explored: the history for one attempt; removals, restarts and two
\* runs at once where the directory is the question, a restart or a move;
\* tokens, a few of them, up to the point from which events may be counted
\* for another run.
Alone == Cardinality({r \in Runs : run[r].pc \in Live}) <= 1
Bounded ==
    /\ cfg = History => At(2, "idle") /\ moves = 0
    /\ cfg = Directory =>
        /\ restarts + moves <= 1
        /\ moves = 0 => issue = "Todo"
        /\ moves = 1 => ~dir.old /\ Alone
    /\ cfg # Directory =>
        /\ restarts = 0 /\ ~dir.old
        /\ sweep \in {"idle", "drop"} \/ At(1, "idle")
        /\ cut => Alone
        /\ spent <= 3 /\ (At(2, "idle") \/ moves = 0)
===============================================================================
