------------------------------ MODULE LiveZone ------------------------------
(***************************************************************************)
(* DetectLiveZones of internal/compress: from a provider request to the     *)
(* blocks of text a compressor may see.  A text is the sequence of its      *)
(* lines and a line is named for what ClassifyContent looks for in it; the  *)
(* empty text has no line.  JSON is taken as decoded: a request is a record *)
(* of messages, and a content is a string, a list of parts, or something    *)
(* else (absent, a number, an object).  No text begins with a blank line,   *)
(* which ClassifyContent would skip.  Indices count from 1.                 *)
(***************************************************************************)
EXTENDS Naturals, Sequences, SequencesExt, Selection

\* Lines by what they begin with or hold; two of them also indented, and two blank.
Line == {"json", "compact json", "diff --git", "@@", "+new", "-old", "fence", "func",
         "ERROR", "  ERROR", "words", "  words", "", "  "}
Text == Seq(Line)

TrimSpace(line) ==
    CASE line = "  ERROR" -> "ERROR" [] line = "  words" -> "words" [] line = "  " -> ""
      [] OTHER -> line

Blank(line) == TrimSpace(line) = ""

\* A role that is not listed is treated as a user's, and only the parts of type
\* "tool_result" differ from the others.
Role == {"system", "developer", "assistant", "tool", "user"}
PartType == {"text", "image", "tool_result"}
Stability == {"stable", "live"}
Source == {"system", "user_message", "assistant_message", "tool_result"}
ContentType == {"text", "log", "code", "diff", "json"}

\* A decoded request.
AnyPart == [type : PartType, text : Text, nested : Seq(Text)]
AnyContent ==
    [shape : {"string"}, text : Text] \cup [shape : {"parts"}, parts : Seq(AnyPart)]
        \cup [shape : {"other"}]
AnyMessage == [role : Role, content : AnyContent]
AnyRequest ==
    [provider : {"openai"}, messages : Seq(AnyMessage)]
        \cup [provider : {"anthropic"}, system : AnyContent, messages : Seq(AnyMessage)]

NonEmpty(text) == text # <<>>
Starts(text, line) == NonEmpty(text) /\ text[1] = line
Has(text, lines) == \E i \in DOMAIN text : text[i] \in lines
HasAfterFirst(text, lines) == \E i \in DOMAIN text : i > 1 /\ text[i] \in lines

LooksLikeJSON(text) == text \in {<<"json">>, <<"compact json">>}
LooksLikeDiff(text) == Starts(text, "diff --git") \/ HasAfterFirst(text, {"@@"})
LooksLikeCode(text) == Starts(text, "fence") \/ HasAfterFirst(text, {"func"})
LooksLikeLog(text) == Has(text, {"ERROR", "  ERROR"})

\* The first of the tests that succeeds decides.
ClassifyContent(text) ==
    LET types == <<"json", "diff", "code", "log", "text">>
        tests == <<LooksLikeJSON(text), LooksLikeDiff(text), LooksLikeCode(text),
                   LooksLikeLog(text), TRUE>>
    IN types[Min({i \in DOMAIN tests : tests[i]})]

\* Empty texts, and blocks of empty texts, are passed over.
NonEmptyTexts(texts) == Only(texts, {text \in ToSet(texts) : NonEmpty(text)})
WithText(blocks) == Only(blocks, {b \in ToSet(blocks) : NonEmpty(b.text)})

\* Mutant: what the user typed is taken for a tool's output.
UserIsLive(role) ==
    CASE role \in {"system", "developer"} -> [source |-> "system", live |-> FALSE]
      [] role = "assistant" -> [source |-> "assistant_message", live |-> FALSE]
      [] role = "tool" -> [source |-> "tool_result", live |-> TRUE]
      [] OTHER -> [source |-> "user_message", live |-> TRUE]

\* classifySource: only a tool's output is live.
ClassifySource(role) ==
    CASE role \in {"system", "developer"} -> [source |-> "system", live |-> FALSE]
      [] role = "assistant" -> [source |-> "assistant_message", live |-> FALSE]
      [] role = "tool" -> [source |-> "tool_result", live |-> TRUE]
      [] OTHER -> [source |-> "user_message", live |-> FALSE]

\* Where a block says its text stands: message 0 is the system prompt, part 0 the
\* whole content of the message.
Path(message, part, field) == [message |-> message, part |-> part, field |-> field]

NewBlock(path, role, text) ==
    LET class == ClassifySource(role)
    IN [id |-> 0, path |-> path, role |-> role, source |-> class.source,
        stability |-> IF class.live THEN "live" ELSE "stable",
        contentType |-> ClassifyContent(text), text |-> text, selected |-> class.live]

\* assignBlockIDs: a block's number is its position.
AssignBlockIDs(blocks) == [i \in DOMAIN blocks |-> [blocks[i] EXCEPT !.id = i]]

-----------------------------------------------------------------------------
(* OpenAI chat requests.                                                     *)

\* Mutant: the first part is taken for the whole content.
OpenAIFirstPart(content) ==
    CASE content.shape = "string" -> <<content.text>>
      [] content.shape = "parts" ->
            NonEmptyTexts([j \in (DOMAIN content.parts) \cap {1} |-> content.parts[j].text])
      [] content.shape = "other" -> <<>>

\* Parts without text (an image) are dropped before they are numbered.
OpenAIContentText(content) ==
    CASE content.shape = "string" -> <<content.text>>
      [] content.shape = "parts" ->
            NonEmptyTexts([j \in DOMAIN content.parts |-> content.parts[j].text])
      [] content.shape = "other" -> <<>>

OpenAIMessageBlocks(i, message) ==
    LET texts == OpenAIContentText(message.content)
        path(j) == IF Len(texts) > 1 THEN Path(i, j, "text") ELSE Path(i, 0, "content")
        block(j) == NewBlock(path(j), message.role, texts[j])
    IN WithText([j \in DOMAIN texts |-> block(j)])

DetectOpenAI(request) ==
    AssignBlockIDs(FlattenSeq([i \in DOMAIN request.messages |->
                                OpenAIMessageBlocks(i, request.messages[i])]))

-----------------------------------------------------------------------------
(* Anthropic messages requests.                                              *)

\* The texts of the system prompt, a string or a list of parts.
AnthropicSystemTexts(content) == OpenAIContentText(content)

SystemBlock(text) ==
    [id |-> 1, path |-> Path(0, 0, "content"), role |-> "system", source |-> "system",
     stability |-> "stable", contentType |-> "text", text |-> text, selected |-> FALSE]

AnthropicContentParts(content) ==
    IF content.shape = "string"
    THEN <<[type |-> "text", text |-> content.text, nested |-> <<>>]>>
    ELSE content.parts

\* A part's own text, or the texts nested in it joined with a newline.  A nested
\* string, or raw JSON, is a single nested text.
AnthropicPartText(part) ==
    IF NonEmpty(part.text) THEN part.text ELSE FlattenSeq(NonEmptyTexts(part.nested))

\* A tool result stands in a user message and is live all the same.
AnthropicPartBlock(i, j, message, part) ==
    LET text == AnthropicPartText(part)
    IN IF part.type = "tool_result"
       THEN [NewBlock(Path(i, j, "content"), message.role, text) EXCEPT
                !.source = "tool_result", !.stability = "live", !.selected = TRUE]
       ELSE NewBlock(Path(i, j, "text"), message.role, text)

\* Mutant: parts without text are dropped before they are numbered.
AnthropicRenumbered(i, message) ==
    LET parts == SelectSeq(AnthropicContentParts(message.content),
                           LAMBDA part : NonEmpty(AnthropicPartText(part)))
    IN [j \in DOMAIN parts |-> AnthropicPartBlock(i, j, message, parts[j])]

AnthropicMessageBlocks(i, message) ==
    LET parts == AnthropicContentParts(message.content)
    IN WithText([j \in DOMAIN parts |-> AnthropicPartBlock(i, j, message, parts[j])])

DetectAnthropic(request) ==
    LET texts == NonEmptyTexts(AnthropicSystemTexts(request.system))
    IN AssignBlockIDs([k \in DOMAIN texts |-> SystemBlock(texts[k])]
                        \o FlattenSeq([i \in DOMAIN request.messages |->
                                        AnthropicMessageBlocks(i, request.messages[i])]))

-----------------------------------------------------------------------------

\* A message whose content is neither a string nor a list of parts fails the whole
\* Anthropic request; an OpenAI message like that has no text.
DetectFails(request) ==
    \/ request.provider \notin {"openai", "anthropic"}
    \/ /\ request.provider = "anthropic"
       /\ \E i \in DOMAIN request.messages : request.messages[i].content.shape = "other"

DetectLiveZones(request) ==
    IF request.provider = "openai" THEN DetectOpenAI(request) ELSE DetectAnthropic(request)
=============================================================================
