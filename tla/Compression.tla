----------------------------- MODULE Compression ----------------------------
(***************************************************************************)
(* The cache-safe compression pipeline of internal/compress: a request is   *)
(* cut into blocks (LiveZone), and Pipeline.Apply offers every live block   *)
(* to its compressors in turn until a proposal saves tokens.  Compressors   *)
(* and exact token counters are supplied by the caller: the native ones,    *)
(* plugins and others, so any proposal or failure may come back from a call.*)
(***************************************************************************)
EXTENDS NativeCompressors, Integers, FiniteSets

CONSTANTS
    Requests,           \* the requests inspected
    Texts,              \* the texts of the requests and of the proposals
    Proposals,          \* the texts a compressor other than the native ones may propose
    Tokens(_),          \* Tokens(t): what the counter says of text t
    MaxCompressors      \* bound: the compressors of a pipeline

ASSUME CompressionAssumption ==
    /\ \A t \in Texts : Tokens(t) \in Int
    /\ Requests \subseteq AnyRequest
    /\ Proposals \subseteq Texts
    /\ MaxCompressors \in Nat

\* Every text that detection takes out of a request has a token count, and what the
\* native compressors make of it, and no more lines than omissions can be announced of.
ASSUME RequestsAssumption ==
    \A request \in Requests :
        ~DetectFails(request) =>
            \A k \in DOMAIN DetectLiveZones(request) :
                LET block == DetectLiveZones(request)[k]
                IN /\ {block.text, NativeCompress(block)} \subseteq Texts
                   /\ Len(block.text) <= Len(Repeated)

VARIABLES
    request,
    compressors,    \* Len(p.compressors)
    pc,
    blocks,     \* the blocks detected
    out,        \* result.Blocks
    i,          \* the block Apply is at
    decision,   \* the Decision under construction, for block i
    decisions,  \* result.Decisions
    stats,      \* result.Stats
    offers      \* history: what the compressors answered for each block

vars == <<request, compressors, pc, blocks, out, i, decision, decisions, stats, offers>>

Fresh == [applied |-> FALSE, reason |-> "", delta |-> 0, err |-> FALSE]

Reason == {"applied", "not_selected", "no_savings", "invalid_utf8", "compressor_error"}

\* What a call of a compressor and of the counter comes to.
Failure == {"error", "uncountable", "invalid_utf8"}
Answer == Failure \cup {"proposal"}

TypeOK ==
    /\ request.provider \in {"openai", "anthropic"}
    /\ compressors \in 0 .. MaxCompressors
    /\ pc \in {"detect", "apply", "done", "failed"}
    /\ DOMAIN out = DOMAIN blocks
    /\ i \in 1 .. Len(blocks) + 1
    /\ decision \in [applied : {FALSE}, reason : Reason \cup {""}, delta : Int, err : BOOLEAN]
    /\ decisions \in Seq([applied : BOOLEAN, reason : Reason, delta : Int, err : BOOLEAN])
    /\ stats \in [applied : Nat, skipped : Nat, delta : Int]
    /\ DOMAIN offers = DOMAIN blocks
    /\ \A k \in DOMAIN offers : Len(offers[k]) <= compressors
                                /\ \A n \in DOMAIN offers[k] : offers[k][n].kind \in Answer

Init ==
    /\ request \in Requests
    /\ compressors \in 0 .. MaxCompressors
    /\ pc = "detect"
    /\ blocks = <<>> /\ out = <<>> /\ offers = <<>>
    /\ i = 1
    /\ decision = Fresh
    /\ decisions = <<>>
    /\ stats = [applied |-> 0, skipped |-> 0, delta |-> 0]

Detect ==
    /\ pc = "detect"
    /\ ~DetectFails(request)
    /\ pc' = "apply"
    /\ blocks' = DetectLiveZones(request)
    /\ out' = blocks'
    /\ offers' = [k \in DOMAIN blocks' |-> <<>>]
    /\ UNCHANGED <<request, compressors, i, decision, decisions, stats>>

DetectError ==
    /\ pc = "detect"
    /\ DetectFails(request)
    /\ pc' = "failed"
    /\ UNCHANGED <<request, compressors, blocks, out, i, decision, decisions, stats, offers>>

-----------------------------------------------------------------------------
(* Apply.                                                                    *)

Live(block) == block.selected /\ block.stability = "live"

AtBlock == pc = "apply" /\ i \in DOMAIN blocks

\* The decision is filed and the next block begins.
NextBlock(d) ==
    /\ decisions' = Append(decisions, d)
    /\ decision' = Fresh
    /\ i' = i + 1
    /\ UNCHANGED <<request, compressors, pc, blocks>>

\* Mutant: a block that is skipped is not counted.
CountNothing == UNCHANGED stats

CountSkipped == stats' = [stats EXCEPT !.skipped = @ + 1]

SkipProtected ==
    /\ AtBlock
    /\ ~Live(blocks[i])
    /\ CountSkipped
    /\ NextBlock([Fresh EXCEPT !.reason = "not_selected"])
    /\ UNCHANGED <<out, offers>>

\* The next compressor is asked.
Ask(offer) ==
    /\ AtBlock
    /\ Live(blocks[i])
    /\ Len(offers[i]) < compressors
    /\ offers' = [offers EXCEPT ![i] = Append(@, offer)]

\* What was said of the block so far is kept where it is not overwritten.
Rejected(d) ==
    /\ decision' = d
    /\ UNCHANGED <<request, compressors, pc, blocks, out, i, decisions, stats>>

\* The compressor fails, or the counter does.
CompressorError(kind) ==
    /\ Ask([kind |-> kind, text |-> <<>>])
    /\ Rejected([decision EXCEPT !.reason = "compressor_error", !.err = TRUE])

InvalidUTF8 ==
    /\ Ask([kind |-> "invalid_utf8", text |-> <<>>])
    /\ Rejected([decision EXCEPT !.reason = "invalid_utf8", !.delta = 0])

Savings(text) == Tokens(blocks[i].text) - Tokens(text)

NoSavings(text) ==
    /\ Savings(text) <= 0
    /\ Ask([kind |-> "proposal", text |-> text])
    /\ Rejected([decision EXCEPT !.reason = "no_savings", !.delta = Savings(text)])

\* Mutant: a proposal that changes the count is applied, longer ones too.
ApplyProposalLonger(text) ==
    /\ Savings(text) # 0
    /\ Ask([kind |-> "proposal", text |-> text])
    /\ out' = [out EXCEPT ![i].text = text]
    /\ stats' = [stats EXCEPT !.applied = @ + 1, !.delta = @ + Savings(text)]
    /\ NextBlock([decision EXCEPT !.applied = TRUE, !.reason = "applied",
                                  !.delta = Savings(text)])

ApplyProposal(text) ==
    /\ Savings(text) > 0
    /\ Ask([kind |-> "proposal", text |-> text])
    /\ out' = [out EXCEPT ![i].text = text]
    /\ stats' = [stats EXCEPT !.applied = @ + 1, !.delta = @ + Savings(text)]
    /\ NextBlock([decision EXCEPT !.applied = TRUE, !.reason = "applied",
                                  !.delta = Savings(text)])

\* Mutant: a pipeline without compressors gives no reason.
GiveUpSilently ==
    /\ AtBlock
    /\ Live(blocks[i])
    /\ Len(offers[i]) = compressors
    /\ CountSkipped
    /\ NextBlock(decision)
    /\ UNCHANGED <<out, offers>>

\* Every compressor was asked, or there is none.
GiveUp ==
    /\ AtBlock
    /\ Live(blocks[i])
    /\ Len(offers[i]) = compressors
    /\ CountSkipped
    /\ NextBlock(IF decision.reason = "" \* "compressor is required"
                 THEN [decision EXCEPT !.reason = "compressor_error", !.err = TRUE]
                 ELSE decision)
    /\ UNCHANGED <<out, offers>>

Finish ==
    /\ pc = "apply"
    /\ i \notin DOMAIN blocks
    /\ pc' = "done"
    /\ UNCHANGED <<request, compressors, blocks, out, i, decision, decisions, stats, offers>>

Next ==
    \/ Detect
    \/ DetectError
    \/ SkipProtected
    \/ \E kind \in {"error", "uncountable"} : CompressorError(kind)
    \/ InvalidUTF8
    \/ /\ AtBlock
       /\ \E text \in Proposals \cup {NativeCompress(blocks[i])} :
            NoSavings(text) \/ ApplyProposal(text)
    \/ GiveUp
    \/ Finish

Spec == Init /\ [][Next]_vars

-----------------------------------------------------------------------------
(* Properties.                                                               *)

\* The part of the request block b was cut from is a tool's output, read off the
\* request itself.
FromTool(b) ==
    LET message == request.messages[b.path.message]
    IN /\ b.path.message # 0
       /\ \/ message.role = "tool"
          \/ /\ request.provider = "anthropic"
             /\ message.content.shape = "parts"
             /\ message.content.parts[b.path.part].type = "tool_result"

\* The cache's hot zones are safe from end to end: only a tool's output is ever
\* changed, and no other text is so much as shown to a compressor (classifySource,
\* detectAnthropic and the guard of Apply).
HotZonesSafe ==
    \A k \in DOMAIN blocks :
        out[k] # blocks[k] \/ offers[k] # <<>> => FromTool(blocks[k])

\* The first proposal that saves tokens is the one applied, and none is asked for
\* after it; without one the text stays as it was, whatever failed on the way
\* (pipeline.go, Apply and evaluateProposal).
FirstSavingWins ==
    \A k \in DOMAIN blocks :
        LET saving == {n \in DOMAIN offers[k] :
                        /\ offers[k][n].kind = "proposal"
                        /\ Tokens(offers[k][n].text) < Tokens(blocks[k].text)}
            text == IF saving = {} THEN blocks[k].text ELSE offers[k][Len(offers[k])].text
        IN /\ saving \subseteq {Len(offers[k])}
           /\ out[k] = [blocks[k] EXCEPT !.text = text]

\* The statistics add up to what was done: every block is counted once, applied or
\* skipped as its decision says, and TokenDelta is what the whole request lost.
StatsAccount ==
    LET before == [k \in DOMAIN blocks |-> Tokens(blocks[k].text)]
        after == [k \in DOMAIN blocks |-> Tokens(out[k].text)]
        applied == {k \in DOMAIN decisions : decisions[k].applied}
    IN /\ stats.delta = SumFunction(before) - SumFunction(after)
       /\ stats.applied = Cardinality(applied)
       /\ stats.applied + stats.skipped = i - 1
       /\ \A k \in DOMAIN decisions : decisions[k].applied <=> out[k].text # blocks[k].text

\* Every text of the request, at its message and part.  In a part of an OpenAI message
\* nothing is nested.
PartText(part) ==
    IF request.provider = "openai" THEN part.text ELSE AnthropicPartText(part)

TextsAt(content) ==
    IF content.shape = "string" THEN {<<0, content.text>>}
    ELSE IF content.shape = "other" THEN {}
    ELSE {<<j, PartText(content.parts[j])>> : j \in DOMAIN content.parts}

Occurrences ==
    UNION {{[message |-> m, part |-> at[1], text |-> at[2]] :
                at \in TextsAt(request.messages[m].content)} : m \in DOMAIN request.messages}

\* Detection misses no text and repeats none: a text of the messages has as many
\* blocks as it has occurrences (livezone.go).
AllTextSeen ==
    LET seen == {k \in DOMAIN blocks : blocks[k].path.message # 0}
        there == {o \in Occurrences : o.text # <<>>}
    IN pc \in {"apply", "done"} =>
        \A text \in {blocks[k].text : k \in seen} \cup {o.text : o \in there} :
            Cardinality({k \in seen : blocks[k].text = text})
                = Cardinality({o \in there : o.text = text})

\* The JSON path of a live block of an Anthropic request leads to its text: the
\* numbered part of the message is the one it was cut from, although parts without
\* text have no block (livezone.go, detectAnthropic).
PathLeadsToText ==
    \A k \in DOMAIN blocks :
        LET path == blocks[k].path
        IN Live(blocks[k]) /\ request.provider = "anthropic" =>
            AnthropicPartText(AnthropicContentParts(request.messages[path.message].content)[path.part])
                = blocks[k].text

\* Detection finds every text once and says where it stands (livezone.go).
DetectionExact == AllTextSeen /\ PathLeadsToText

\* The block whose turn it is, before a compressor has seen it.
Offered(type) ==
    AtBlock /\ Live(blocks[i]) /\ offers[i] = <<>> /\ blocks[i].contentType = type

\* A native compressor loses nothing but white space of logs, code and prose: what it
\* folded can be put back from what it says of it, for every block offered to it
\* (native_text_log.go, collapseAdjacent; native_structured.go, compressCode).
RepetitionsAnnounced ==
    LET text == blocks[i].text
        folded == NativeCompress(blocks[i])
        words(paragraphs) == [j \in DOMAIN paragraphs |-> Fields(paragraphs[j])]
        alone == [n \in DOMAIN Repeated |-> <<Repeated[n]>>]
    IN /\ Offered("log") => Trimmed(PutBack(folded, Repeated)) = Trimmed(text)
       /\ Offered("code") => Fields(PutBack(folded, Repeated)) = Fields(text)
       /\ Offered("text") =>
            words(PutBack(Paragraphs(folded), alone)) = words(Paragraphs(text))

\* A diff keeps every header and changed line in order, and where two or more lines
\* of context stood it says how many (native_structured.go, compressDiff).
DiffContextCounted ==
    LET text == blocks[i].text
        signals == Only(text, Signals)
        behind(q) == IF ContextBehind(text, q) > 1 THEN <<Omitted[ContextBehind(text, q)]>>
                     ELSE <<>>
    IN Offered("diff") =>
        NativeCompress(blocks[i])
            = behind(0) \o FlattenSeq([q \in DOMAIN signals |-> <<signals[q]>> \o behind(q)])

\* The native compressors say what they leave out, and how much of it
\* (native_text_log.go, native_structured.go).
OmissionsAnnounced == RepetitionsAnnounced /\ DiffContextCounted
=============================================================================
