------------------------------ MODULE Transcripts ------------------------------
(***************************************************************************)
(* How the conversation of a session is read from the file its harness     *)
(* writes: harness/{claude_code,codex,pi}/transcript.rs parse the records  *)
(* into turns, sessions/runtime/tmux.rs reads a bounded suffix of a long   *)
(* file and answers the last turns of it.                                  *)
(*                                                                         *)
(* The harness appends records, and the reader may look after any of them  *)
(* and may see any suffix of the file.  A record stands for its text: the  *)
(* position at which it was written names it, the calls and the messages   *)
(* it makes.  A turn is a sequence of messages, a message is its speaker   *)
(* and its parts.                                                          *)
(***************************************************************************)
EXTENDS Integers, Sequences, SequencesExt, TLC

CONSTANTS
    Adapters,    \* the harnesses that may write: of {"claude", "codex", "pi"}
    MaxEntries   \* bound: records in a file

ASSUME TranscriptConstants ==
    /\ Adapters \subseteq {"claude", "codex", "pi"}
    /\ MaxEntries \in Nat \ {0}

VARIABLES
    adapter,      \* the harness of the session
    transcript    \* the records in the file, oldest first

transcriptVars == <<adapter, transcript>>

-----------------------------------------------------------------------------
(* Turns.                                                                  *)

TextPart(i) == [call |-> FALSE, of |-> i, failed |-> FALSE]
CallPart(i) == [call |-> TRUE, of |-> i, failed |-> FALSE]
SaidBy(role, parts) == [role |-> role, parts |-> parts]
Asked_(i) == SaidBy("user", <<TextPart(i)>>)

\* The running turn; a transcript that starts mid-conversation opens one.
WithCurrentTurn(turns) == IF turns = <<>> THEN << <<>> >> ELSE turns

PushMessage(turns, message) ==
    LET open == WithCurrentTurn(turns)
    IN  [open EXCEPT ![Len(open)] = Append(@, message)]

\* Where the part pushed last is.
LastPart(turns) ==
    LET messages == Last(turns)
    IN  <<Len(turns), Len(messages), Len(Last(messages).parts)>>

MarkFailed(b, id) ==
    IF id \in DOMAIN b.calls
    THEN LET l == b.calls[id] IN [b EXCEPT !.turns[l[1]][l[2]].parts[l[3]].failed = TRUE]
    ELSE b

\* A builder that takes the records one by one.
Builds(push(_, _), start, entries) ==
    LET built[i \in 0..Len(entries)] == IF i = 0 THEN start ELSE push(built[i - 1], entries[i])
    IN  built[Len(entries)]

-----------------------------------------------------------------------------
(* Claude Code: one assistant entry per content block, tool results and    *)
(* prompts as user entries, input sent during a turn as an attachment.     *)

claude_starts_turn(e) == e.type = "user" /\ ~e.aside /\ e.asks /\ ~e.injected

claude_push_prompt(b, e) ==
    IF e.injected THEN b
    ELSE [b EXCEPT !.message = 0, !.turns = Append(@, <<Asked_(e.at)>>)]

claude_push_user(b, e) ==
    LET marked == IF e.of # 0 /\ e.bad THEN MarkFailed(b, e.of) ELSE b
    IN  IF e.asks THEN claude_push_prompt(marked, e) ELSE marked

append_assistant_part(b, id, part) ==
    LET turns == WithCurrentTurn(b.turns)
        last == Last(turns)
        continues == id # 0 /\ id = b.message /\ last # <<>> /\ Last(last).role = "assistant"
    IN  IF continues
        THEN [b EXCEPT !.turns = [turns EXCEPT ![Len(turns)][Len(last)].parts = Append(@, part)]]
        ELSE [b EXCEPT !.turns = PushMessage(turns, SaidBy("assistant", <<part>>)), !.message = id]

claude_push_assistant(b, e) ==
    IF e.call
    THEN LET said == append_assistant_part(b, e.message, CallPart(e.at))
         IN  [said EXCEPT !.calls = (e.at :> LastPart(said.turns)) @@ @]
    ELSE append_assistant_part(b, e.message, TextPart(e.at))

\* Input absorbed into the running turn joins it; a reminder is no conversation.
push_attachment(b, e) ==
    IF e.human THEN [b EXCEPT !.message = 0, !.turns = PushMessage(@, Asked_(e.at))] ELSE b

claude_push(b, e) ==
    CASE e.aside -> b
      [] e.type = "user" -> claude_push_user(b, e)
      [] e.type = "assistant" -> claude_push_assistant(b, e)
      [] e.type = "attachment" -> push_attachment(b, e)

claude_parse(entries) ==
    Builds(claude_push, [turns |-> <<>>, calls |-> <<>>, message |-> 0], entries).turns

-----------------------------------------------------------------------------
(* Codex: a turn is what follows task_started, its prompt the last user    *)
(* message before the model's first output.                                *)

flush_prompt(b) ==
    IF b.prompt = 0 THEN b
    ELSE [b EXCEPT !.turns = PushMessage(@, Asked_(b.prompt)), !.prompt = 0]

start_turn(b) ==
    LET flushed == flush_prompt(b)
        fresh == flushed.turns = <<>> \/ Last(flushed.turns) # <<>>
    IN  [flushed EXCEPT !.turns = IF fresh THEN Append(@, <<>>) ELSE @,
                        !.answered = FALSE, !.nested = FALSE]

\* Input after the first output is steering; before it, a candidate.
codex_push_user(b, e) ==
    IF b.answered THEN [b EXCEPT !.turns = PushMessage(@, Asked_(e.at))]
    ELSE [b EXCEPT !.prompt = e.at]

push_output(b, part) ==
    LET flushed == flush_prompt(b)
    IN  [flushed EXCEPT !.answered = TRUE, !.turns = PushMessage(@, SaidBy("assistant", <<part>>))]

pushes_call(b, e) ==
    LET said == push_output(b, CallPart(e.at))
    IN  [said EXCEPT !.calls = (e.at :> LastPart(said.turns)) @@ @,
                     !.tools = (e.at :> e.tool) @@ @]

ToolOf(b, id) == IF id \in DOMAIN b.tools THEN b.tools[id] ELSE "none"
is_command_tool(tool) == tool \in {"exec", "shell"}

\* The exit code is in the header of a shell's output; a code-mode exec
\* fails with the commands nested in it.
command_failed(tool, e) == tool = "shell" /\ e.bad

pushes_call_output(b, e) ==
    LET tool == ToolOf(b, e.of)
        fails == command_failed(tool, e) \/ (tool = "exec" /\ b.nested)
        marked == IF fails THEN MarkFailed(b, e.of) ELSE b
    IN  [marked EXCEPT !.nested = IF tool = "exec" THEN FALSE ELSE @]

record_command_result(b, e) ==
    IF e.of # 0 /\ ToolOf(b, e.of) # "none"
    THEN IF e.bad /\ is_command_tool(ToolOf(b, e.of)) THEN MarkFailed(b, e.of) ELSE b
    ELSE IF e.of = 0 THEN [b EXCEPT !.nested = @ \/ e.bad]
    ELSE b

codex_push(b, e) ==
    CASE e.type = "started" -> start_turn(b)
      [] e.type = "ended" -> flush_prompt(b)
      [] e.type = "user" -> codex_push_user(b, e)
      [] e.type = "say" -> push_output(b, TextPart(e.at))
      [] e.type = "call" -> pushes_call(b, e)
      [] e.type = "output" -> pushes_call_output(b, e)
      [] e.type = "completed" -> record_command_result(b, e)
      [] e.type = "patched" -> IF e.bad THEN MarkFailed(b, e.of) ELSE b

codex_parse(entries) ==
    LET built == Builds(codex_push,
                        [turns |-> <<>>, calls |-> <<>>, tools |-> <<>>, prompt |-> 0,
                         answered |-> FALSE, nested |-> FALSE], entries)
    IN  SelectSeq(flush_prompt(built).turns, LAMBDA t : t # <<>>)

-----------------------------------------------------------------------------
(* Pi: the entries are a tree, the conversation is the path to the leaf.   *)

\* The entries from the root to the one written last; a suffix of a long
\* file lacks the ancestors before it and the walk ends there.
PathOf(entries) ==
    LET first == entries[1].at
        n == Last(entries).at
        path[i \in 0..n] ==
            IF i < first THEN <<>>
            ELSE Append(path[entries[i - first + 1].parent], entries[i - first + 1])
    IN  IF entries = <<>> THEN <<>> ELSE path[n]

Spoken(e) == e.type \in {"user", "assistant", "toolResult"}

\* A context edit without a replacement drops an attempt that was retried.
OmittedOf(path) ==
    {e.of : e \in {path[i] : i \in {j \in DOMAIN path : path[j].type = "edit" /\ path[j].null}}}

Conversation(entries) ==
    LET path == PathOf(entries)
    IN  SelectSeq(path, LAMBDA e : Spoken(e) /\ (e.type = "user" \/ e.at \notin OmittedOf(path)))

pi_push_user(b, e) ==
    IF b.midRun /\ b.turns # <<>>
    THEN [b EXCEPT !.turns = PushMessage(@, Asked_(e.at))]
    ELSE [b EXCEPT !.turns = Append(@, <<Asked_(e.at)>>), !.midRun = FALSE]

\* Whole messages: text, a call, the gateway's error; nothing for Escape.
pi_push_assistant(b, e) ==
    LET running == [b EXCEPT !.midRun = e.stop = "toolUse"]
        parts == (IF e.says \/ e.stop = "error" THEN <<TextPart(e.at)>> ELSE <<>>)
                 \o (IF e.call THEN <<CallPart(e.at)>> ELSE <<>>)
        said == [running EXCEPT !.turns = PushMessage(@, SaidBy("assistant", parts))]
    IN  IF parts = <<>> THEN running
        ELSE IF e.call THEN [said EXCEPT !.calls = (e.at :> LastPart(said.turns)) @@ @]
        ELSE said

pi_push(b, e) ==
    CASE e.type = "user" -> pi_push_user(b, e)
      [] e.type = "assistant" -> pi_push_assistant(b, e)
      [] e.type = "toolResult" ->
            [IF e.bad THEN MarkFailed(b, e.of) ELSE b EXCEPT !.midRun = TRUE]

pi_parse(entries) ==
    Builds(pi_push, [turns |-> <<>>, calls |-> <<>>, midRun |-> FALSE], Conversation(entries)).turns

-----------------------------------------------------------------------------
(* Reading a file: harness/mod.rs dispatches, tmux.rs bounds the suffix.   *)

parse_transcript(entries) ==
    CASE adapter = "claude" -> claude_parse(entries)
      [] adapter = "codex" -> codex_parse(entries)
      [] adapter = "pi" -> pi_parse(entries)

StartsTurn(e) ==
    CASE adapter = "claude" -> claude_starts_turn(e)
      [] adapter = "codex" -> e.type = "started"
      [] adapter = "pi" -> e.type = "user"

\* As it would be if the cut turn were kept.
trim_partial_transcript_Not(entries) == entries

\* Records before the first one that starts a turn are dropped.
trim_partial_transcript(entries) ==
    LET starts == {i \in DOMAIN entries : StartsTurn(entries[i])}
    IN  IF starts = {} THEN <<>>
        ELSE SubSeq(entries, CHOOSE i \in starts : \A j \in starts : i <= j, Len(entries))

Failed == <<"failed">>
LastOf(seq, n) == SubSeq(seq, Len(seq) - (IF n < Len(seq) THEN n ELSE Len(seq)) + 1, Len(seq))

\* The answer for the last `last` turns (0: all of them) when the limit cuts
\* the first `cut` records off; the cut falls into one of them.
parse_transcript_suffix(cut, last) ==
    LET truncated == cut > 0
        kept == SubSeq(transcript, cut + 1, Len(transcript))
        turns == parse_transcript(IF truncated THEN trim_partial_transcript(kept) ELSE kept)
    IN  IF truncated /\ last = 0 THEN Failed
        ELSE IF truncated /\ Len(turns) < last THEN Failed
        ELSE IF last = 0 THEN turns ELSE LastOf(turns, last)

-----------------------------------------------------------------------------
(* What the harnesses write.  External: the formats as the parsers and     *)
(* their tests describe them.                                              *)

Positions == 1..Len(transcript)
Here == Len(transcript) + 1
Writes_(entry) == transcript' = Append(transcript, entry)

\* Calls no result was written for.
Answering(type) == {transcript[i].of : i \in {j \in Positions : transcript[j].type = type}}
CallsMade == {i \in Positions : transcript[i].type \in {"assistant", "call"} /\
                                (adapter # "codex" => transcript[i].call)}
OpenCalls == CallsMade \ (Answering("user") \cup Answering("output") \cup Answering("toolResult"))

ClaudeUser(aside, injected, asks, of, bad) ==
    [type |-> "user", aside |-> aside, injected |-> injected, asks |-> asks, of |-> of,
     bad |-> bad, at |-> Here]

\* Blocks of one response share a message; another response has another.
ClaudeMessages ==
    {Here} \cup {transcript[i].message : i \in {j \in Positions : transcript[j].type = "assistant"
                    /\ \A k \in (j + 1)..Len(transcript) : transcript[k].type = "attachment"
                                                            \/ transcript[k].type = "assistant"}}

WritesClaude ==
    /\ adapter = "claude"
    /\ \/ \E aside, injected \in BOOLEAN : Writes_(ClaudeUser(aside, injected, TRUE, 0, FALSE))
       \/ \E of \in OpenCalls, bad, asks \in BOOLEAN :
             Writes_(ClaudeUser(FALSE, FALSE, asks, of, bad))
       \/ \E message \in ClaudeMessages, call \in BOOLEAN :
             Writes_([type |-> "assistant", aside |-> FALSE, message |-> message, call |-> call,
                      of |-> 0, at |-> Here])
       \/ \E human \in BOOLEAN :
             Writes_([type |-> "attachment", aside |-> FALSE, human |-> human, of |-> 0, at |-> Here])

\* The records since the turn began.
CodexTurn == {i \in Positions : /\ \E j \in 1..i : transcript[j].type = "started"
                                /\ \A j \in i..Len(transcript) : j > i => transcript[j].type # "started"}
Outputs(i) == transcript[i].type \in {"say", "call"}
CodexOver == CodexTurn = {} \/ \E i \in CodexTurn : transcript[i].type = "ended"

CodexEntry(type, of, bad, tool, operator) ==
    [type |-> type, of |-> of, bad |-> bad, tool |-> tool, operator |-> operator, at |-> Here]
CodexSays(type) == Writes_(CodexEntry(type, 0, FALSE, "none", FALSE))

\* Context is written before the prompt; one code-mode exec runs at a time.
WritesCodex ==
    /\ adapter = "codex"
    /\ \/ CodexSays("started")
       \/ /\ ~CodexOver
          /\ \/ CodexSays("ended")
             \/ /\ \A i \in CodexTurn : ~Outputs(i) /\ ~transcript[i].operator
                /\ CodexSays("user")
             \/ Writes_(CodexEntry("user", 0, FALSE, "none", TRUE))
             \/ /\ \E i \in CodexTurn : transcript[i].operator
                /\ \/ CodexSays("say")
                   \/ \E tool \in {"exec", "shell", "patch"} :
                         /\ tool = "exec" => \A c \in OpenCalls : transcript[c].tool # "exec"
                         /\ Writes_(CodexEntry("call", 0, FALSE, tool, FALSE))
             \/ \E c \in OpenCalls \cap CodexTurn, bad \in BOOLEAN :
                   \/ Writes_(CodexEntry("output", c, bad, transcript[c].tool, FALSE))
                   \/ /\ transcript[c].tool = "exec"
                      /\ Writes_(CodexEntry("completed", 0, bad, "exec", FALSE))
                   \/ /\ transcript[c].tool = "shell"
                      /\ Writes_(CodexEntry("completed", c, bad, "shell", FALSE))
                   \/ /\ transcript[c].tool = "patch"
                      /\ Writes_(CodexEntry("patched", c, bad, "patch", FALSE))

PiEntry(type, parent, of, bad) == [type |-> type, parent |-> parent, of |-> of, bad |-> bad, at |-> Here,
                                   call |-> FALSE, says |-> FALSE, stop |-> "stop", null |-> FALSE]
PiAnswers == {<<TRUE, TRUE, "toolUse">>, <<FALSE, TRUE, "toolUse">>, <<TRUE, FALSE, "stop">>,
              <<FALSE, FALSE, "error">>, <<FALSE, FALSE, "aborted">>}
Leaf == Len(transcript)

\* Appended to the leaf; only input starts a branch at an earlier entry.
WritesPi ==
    /\ adapter = "pi"
    /\ \/ \E parent \in {0, Leaf} \cup {p \in 1..Leaf : transcript[p].type # "user"} :
             Writes_(PiEntry("user", parent, 0, FALSE))
       \/ /\ transcript # <<>>
          /\ LET path == PathOf(transcript)
                 onPath == {path[i].at : i \in DOMAIN path}
             IN  \/ Writes_(PiEntry("compaction", Leaf, 0, FALSE))
                 \/ \E a \in PiAnswers :
                       Writes_([PiEntry("assistant", Leaf, 0, FALSE)
                                  EXCEPT !.says = a[1], !.call = a[2], !.stop = a[3]])
                 \/ \E of \in OpenCalls \cap onPath, bad \in BOOLEAN :
                       Writes_(PiEntry("toolResult", Leaf, of, bad))
                 \/ \E of \in {i \in onPath : transcript[i].type \in {"assistant", "toolResult"}},
                       null \in BOOLEAN :
                       Writes_([PiEntry("edit", Leaf, of, FALSE) EXCEPT !.null = null])

TranscriptInit == adapter \in Adapters /\ transcript = <<>>

TranscriptNext ==
    /\ Len(transcript) < MaxEntries
    /\ adapter' = adapter
    /\ WritesClaude \/ WritesCodex \/ WritesPi

TranscriptSpec == TranscriptInit /\ [][TranscriptNext]_transcriptVars

-----------------------------------------------------------------------------
(* Properties.                                                             *)

TurnsNow == parse_transcript(transcript)

\* Every message says something, every turn has messages, and a part names
\* the record it stands for, once.
TranscriptTypeOK ==
    LET turns == TurnsNow
        messages == FlattenSeq(turns)
        parts == FlattenSeq([i \in DOMAIN messages |-> messages[i].parts])
    IN  /\ adapter \in Adapters /\ Len(transcript) <= MaxEntries
        /\ \A t \in DOMAIN turns : turns[t] # <<>>
        /\ \A m \in DOMAIN messages :
              messages[m].role \in {"user", "assistant"} /\ messages[m].parts # <<>>
        /\ \A i, j \in DOMAIN parts : i < j =>
              \/ parts[i].of < parts[j].of
              \/ parts[i].of = parts[j].of /\ ~parts[i].call /\ parts[j].call

\* The turns read from a suffix of a long file are the last turns of the
\* whole conversation: harness/mod.rs trims "to its first complete harness
\* turn".  For the harness h.
SuffixIsTheEnd(h) ==
    adapter = h =>
        LET turns == TurnsNow
        IN  \A cut \in 1..Len(transcript), last \in 1..2 :
                LET answer == parse_transcript_suffix(cut, last)
                IN  answer # Failed => answer = LastOf(turns, last)

SuffixAgrees == SuffixIsTheEnd("claude") /\ SuffixIsTheEnd("codex")

\* The same of Pi, whose trim takes any user entry for the start of a turn:
\* one steered into a run, or one of an abandoned branch.
PiSuffixAgrees == SuffixIsTheEnd("pi")

\* A call is shown as failed exactly when its result, or a command nested in
\* it before its output, failed.
Conversed == IF adapter = "pi" THEN {Conversation(transcript)[i].at : i \in DOMAIN Conversation(transcript)}
             ELSE Positions
NestedIn(c) ==
    {i \in (c + 1)..Len(transcript) :
        /\ transcript[i].type = "completed" /\ transcript[i].of = 0
        /\ \A j \in c..i : ~(transcript[j].type = "output" /\ transcript[j].of = c)}
CallFailed(c) ==
    CASE adapter = "codex" ->
            \/ \E i \in Positions : /\ transcript[i].of = c /\ transcript[i].bad
                                    /\ \/ transcript[i].type \in {"completed", "patched"}
                                       \/ transcript[i].type = "output" /\ transcript[i].tool = "shell"
            \/ /\ transcript[c].tool = "exec"
               /\ \E i \in Positions : transcript[i].type = "output" /\ transcript[i].of = c
               /\ \E i \in NestedIn(c) : transcript[i].bad
      [] OTHER -> \E i \in Conversed : /\ transcript[i].of = c /\ transcript[i].type \in {"user", "toolResult"}
                                       /\ transcript[i].bad

FailuresAreTheCalls ==
    LET messages == FlattenSeq(TurnsNow)
    IN  \A m \in DOMAIN messages : \A p \in DOMAIN messages[m].parts :
            LET part == messages[m].parts[p]
            IN  part.failed <=> part.call /\ CallFailed(part.of)

\* A turn begins with what the operator asked: never with text the client
\* injected, a side chain, or (Codex) context written ahead of the prompt,
\* once the model has answered; and (Pi) never with input steered into a run.
Steered(conversation, i) ==
    LET before == {j \in 1..(i - 1) : conversation[j].type # "user"}
        last == CHOOSE j \in before : \A k \in before : k <= j
    IN  before # {} /\ (conversation[last].type = "toolResult" \/ conversation[last].stop = "toolUse")
AskedAt ==
    CASE adapter = "claude" ->
            {i \in Positions : transcript[i].type = "user" /\ transcript[i].asks
                                /\ ~transcript[i].aside /\ ~transcript[i].injected}
      [] adapter = "codex" -> {i \in Positions : transcript[i].type = "user" /\ transcript[i].operator}
      [] adapter = "pi" ->
            LET said == Conversation(transcript)
            IN  {said[i].at : i \in {j \in DOMAIN said : said[j].type = "user" /\ ~Steered(said, j)}}

TurnsBeginWithAPrompt ==
    LET turns == TurnsNow
        asked == AskedAt
        Begins_(t) == turns[t][1].role = "user" /\ turns[t][1].parts[1].of \in asked
    IN  /\ \A t \in DOMAIN turns :
              CASE adapter = "codex" -> Len(turns[t]) > 1 => Begins_(t)
                [] OTHER -> t > 1 => Begins_(t)
        /\ adapter # "codex" =>
              \A p \in asked : \E t \in DOMAIN turns : turns[t][1] = Asked_(p)

\* A reader polling `turns` sees a conversation that grows: what is appended
\* changes the last turn only, but for a call of an earlier one that turns
\* out to have failed.  A branch or a retried attempt of Pi may take back.
SamePart(a, b) == a.of = b.of /\ a.call = b.call /\ (a.failed => b.failed)
ContinuesTurn(a, b) ==
    /\ Len(a) <= Len(b)
    /\ \A m \in DOMAIN a : /\ a[m].role = b[m].role /\ Len(a[m].parts) <= Len(b[m].parts)
                           /\ \A p \in DOMAIN a[m].parts : SamePart(a[m].parts[p], b[m].parts[p])
TakesBack(e) == adapter = "pi" /\ (e.parent # e.at - 1 \/ e.null)
GrowthKeepsTurns ==
    [][~TakesBack(Last(transcript')) =>
        LET before == parse_transcript(transcript)
            after == parse_transcript(transcript')
        IN  /\ Len(before) <= Len(after)
            /\ \A t \in DOMAIN before :
                  \/ ContinuesTurn(before[t], after[t])
                  \/ adapter = "codex" /\ t = Len(before) /\ Len(before[t]) = 1]_transcriptVars

\* Every harness's transcript reads as turns that begin with a prompt, failures are those of the
\* calls they follow, and a suffix reads like the whole (harness/codex/transcript.rs and the others).
TranscriptsAgree ==
    /\ TranscriptTypeOK
    /\ SuffixAgrees
    /\ FailuresAreTheCalls
    /\ TurnsBeginWithAPrompt

=============================================================================
