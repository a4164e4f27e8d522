--------------------------- MODULE MCCompression ----------------------------
(* Model-checking instance of Compression.                                   *)
EXTENDS Compression

MCRepeated == <<"repeated 1", "repeated 2", "repeated 3", "repeated 4", "repeated 5">>
MCOmitted == <<"omitted 1", "omitted 2", "omitted 3", "omitted 4", "omitted 5">>

Short == <<"words">>
Long == <<"ERROR", "words">>
Joined == <<"words", "ERROR", "words">>

MCProposals == {<<>>, Short, Long, Joined}

Str(text) == [shape |-> "string", text |-> text]
Parts(parts) == [shape |-> "parts", parts |-> parts]
Other == [shape |-> "other"]
Part(type, text, nested) == [type |-> type, text |-> text, nested |-> nested]
Message(role, content) == [role |-> role, content |-> content]

Image == Part("image", <<>>, <<>>)

OpenAIContents ==
    {Str(<<>>), Str(Long), Other, Parts(<<>>), Parts(<<Image, Part("text", Long, <<>>)>>),
     Parts(<<Part("text", Short, <<>>), Part("text", Long, <<>>)>>),
     Parts(<<Image, Part("text", Long, <<>>), Part("text", Long, <<>>)>>)}

OpenAIRequests ==
    {[provider |-> "openai",
      messages |-> <<Message(role, content), Message("tool", Str(Joined))>>] :
        role \in Role, content \in OpenAIContents}

AnthropicContents ==
    {Str(Long), Other, Parts(<<Part("text", Long, <<>>), Part("tool_result", <<>>, <<Long>>)>>),
     Parts(<<Part("tool_result", <<>>, <<Short, <<>>, Long>>), Image>>),
     Parts(<<Image, Part("tool_result", <<>>, <<Long>>)>>)}

AnthropicRequests ==
    {[provider |-> "anthropic", system |-> system,
      messages |-> <<Message("user", first), Message("assistant", second)>>] :
        system \in {Other, Str(Long), Parts(<<Part("text", Long, <<>>), Part("text", Short, <<>>)>>)},
        first \in AnthropicContents, second \in AnthropicContents}

\* Tool output of every content type for the native compressors: a first line, then any
\* lines that the compressor of the type tells apart.
Output(first, lines, max) == {<<first>> \o rest : rest \in BoundedSeq(lines, max)}

ToolOutputs ==
    {<<"json">>}
        \cup Output("ERROR", {"ERROR", "  ERROR", "words", ""}, 3)
        \cup Output("words", {"words", "  words", ""}, 4)
        \cup Output("fence", {"words", "  words", "", "  "}, 3)
        \cup Output("diff --git", {"-old", "words", ""}, 4)

ToolRequests ==
    {[provider |-> "openai", messages |-> <<Message("tool", Str(text))>>] : text \in ToolOutputs}

MCRequests == OpenAIRequests \cup AnthropicRequests \cup ToolRequests

Blocks == UNION {ToSet(DetectLiveZones(r)) : r \in {q \in MCRequests : ~DetectFails(q)}}

MCTexts ==
    MCProposals \cup {block.text : block \in Blocks} \cup {NativeCompress(block) : block \in Blocks}

MCTokens(t) == Len(t)
=============================================================================
