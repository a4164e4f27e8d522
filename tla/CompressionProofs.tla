-------------------------- MODULE CompressionProofs -------------------------
(***************************************************************************)
(* Proofs about the compression pipeline, for every set of decoded requests *)
(* and every compressor: what detection cuts out of a request, and what     *)
(* Apply may do with it.  Then about the plugins, which run as one of its   *)
(* compressors, for every set of packages and every plugin.                 *)
(***************************************************************************)
EXTENDS Compression, Plugin, LoopProofs

-----------------------------------------------------------------------------
(* Detection.                                                                *)

PathSet == [message : Nat, part : Nat, field : {"content", "text"}]

Block == [id : Nat, path : PathSet, role : Role, source : Source, stability : Stability,
          contentType : ContentType, text : Text, selected : BOOLEAN]

LEMMA Classified ==
    ASSUME NEW text
    PROVE  ClassifyContent(text) \in ContentType
<1> DEFINE types == <<"json", "diff", "code", "log", "text">>
           tests == <<LooksLikeJSON(text), LooksLikeDiff(text), LooksLikeCode(text),
                      LooksLikeLog(text), TRUE>>
           T == {n \in DOMAIN tests : tests[n]}
<1>1. ClassifyContent(text) = types[Min(T)]
  BY DEF ClassifyContent
<1>2. T \subseteq 1 .. 5 /\ 5 \in T
  <2>1. DOMAIN tests = 1 .. 5
    OBVIOUS
  <2>2. tests[5] = TRUE
    OBVIOUS
  <2>3. 5 \in 1 .. 5
    OBVIOUS
  <2> HIDE DEF tests
  <2> QED BY <2>1, <2>2, <2>3, Zenon
<1>3. \A n \in 1 .. 5 : types[n] \in ContentType
  BY DEF ContentType
<1> HIDE DEF types, T, tests
<1>4. \E m \in T : \A k \in T : m <= k
  BY <1>2, LeastNumber
<1>5. Min(T) \in T
  BY <1>4 DEF Min
<1> QED BY <1>1, <1>2, <1>3, <1>5

LEMMA SourceClassified ==
    ASSUME NEW role
    PROVE  /\ ClassifySource(role).source \in Source
           /\ ClassifySource(role).live \in BOOLEAN
           /\ ClassifySource(role).live => role = "tool"
BY DEF ClassifySource, Source

LEMMA NewBlockType ==
    ASSUME NEW path \in PathSet, NEW role \in Role, NEW text \in Text
    PROVE  /\ NewBlock(path, role, text) \in Block
           /\ NewBlock(path, role, text).path = path
           /\ NewBlock(path, role, text).text = text
           /\ NewBlock(path, role, text).selected => role = "tool"
<1> DEFINE live == ClassifySource(role).live
           source == ClassifySource(role).source
           type == ClassifyContent(text)
           stability == IF live THEN "live" ELSE "stable"
<1>1. source \in Source /\ live \in BOOLEAN /\ (live => role = "tool") /\ type \in ContentType
  BY SourceClassified, Classified
<1>2. stability \in Stability
  BY DEF Stability
<1>3. NewBlock(path, role, text)
        = [id |-> 0, path |-> path, role |-> role, source |-> source,
           stability |-> stability, contentType |-> type, text |-> text, selected |-> live]
  BY DEF NewBlock
<1> HIDE DEF live, source, type, stability
<1> QED BY <1>1, <1>2, <1>3 DEF Block

LEMMA ListOf ==
    ASSUME NEW n \in Nat, NEW T, NEW f \in [1 .. n -> T]
    PROVE  f \in Seq(T)
OBVIOUS

LEMMA ListMore ==
    ASSUME NEW T, NEW S \in SUBSET T, NEW s \in Seq(S)
    PROVE  s \in Seq(T)
OBVIOUS

LEMMA OnlyFrom ==
    ASSUME NEW S, NEW s \in Seq(S), NEW wanted
    PROVE  /\ Only(s, wanted) \in Seq(S)
           /\ \A k \in DOMAIN Only(s, wanted) :
                \E j \in DOMAIN s : Only(s, wanted)[k] = s[j] /\ s[j] \in wanted
<1>1. Only(s, wanted) \in Seq(S)
  BY OnlyPlaces
<1>2. PICK e : Places(e, Only(s, wanted), s, wanted, Len(s))
  BY OnlyPlaces
<1>3. ASSUME NEW k \in DOMAIN Only(s, wanted)
      PROVE  \E j \in DOMAIN s : Only(s, wanted)[k] = s[j] /\ s[j] \in wanted
  <2>1. e[k] \in 1 .. Len(s) /\ Only(s, wanted)[k] = s[e[k]] /\ s[e[k]] \in wanted
    BY <1>2 DEF Places
  <2>2. e[k] \in DOMAIN s
    BY <2>1
  <2> QED BY <2>1, <2>2
<1> QED BY <1>1, <1>3

LEMMA NonEmptyTextsType ==
    ASSUME NEW texts \in Seq(Text)
    PROVE  NonEmptyTexts(texts) \in Seq(Text)
BY OnlyFrom DEF NonEmptyTexts

LEMMA ContentTextType ==
    ASSUME NEW content \in AnyContent
    PROVE  OpenAIContentText(content) \in Seq(Text)
<1>1. CASE content.shape = "string"
  <2>1. content.text \in Text
    BY <1>1 DEF AnyContent
  <2> QED BY <1>1, <2>1 DEF OpenAIContentText
<1>2. CASE content.shape = "parts"
  <2> DEFINE parts == content.parts
             texts == [j \in DOMAIN parts |-> parts[j].text]
  <2>1. parts \in Seq(AnyPart)
    BY <1>2 DEF AnyContent
  <2> HIDE DEF parts
  <2>2. ASSUME NEW j \in DOMAIN parts PROVE texts[j] \in Text
    <3>1. parts[j] \in AnyPart
      BY <2>1
    <3> QED BY <3>1 DEF AnyPart
  <2>3. texts \in Seq(Text)
    <3>1. Len(parts) \in Nat /\ texts \in [1 .. Len(parts) -> Text]
      BY <2>1, <2>2
    <3> HIDE DEF texts
    <3> QED BY <3>1, ListOf, Zenon
  <2> HIDE DEF texts
  <2>4. OpenAIContentText(content) = NonEmptyTexts(texts)
    BY <1>2 DEF OpenAIContentText, parts, texts
  <2> QED BY <2>3, <2>4, NonEmptyTextsType
<1>3. CASE content.shape = "other"
  BY <1>3 DEF OpenAIContentText
<1> QED BY <1>1, <1>2, <1>3 DEF AnyContent

LEMMA PartTextType ==
    ASSUME NEW part \in AnyPart
    PROVE  AnthropicPartText(part) \in Text
<1>1. part.text \in Text /\ part.nested \in Seq(Text)
  BY DEF AnyPart
<1>2. NonEmptyTexts(part.nested) \in Seq(Seq(Line))
  BY <1>1, NonEmptyTextsType DEF Text
<1>3. FlattenSeq(NonEmptyTexts(part.nested)) \in Seq(Line)
  BY <1>2, FlattenPlaces
<1> QED BY <1>1, <1>3 DEF AnthropicPartText, Text

\* The text at a path of request r is a tool's output, and is this text.
ToolOutput(r, path) ==
    LET message == r.messages[path.message]
    IN /\ path.message # 0
       /\ \/ message.role = "tool"
          \/ /\ r.provider = "anthropic"
             /\ message.content.shape = "parts"
             /\ message.content.parts[path.part].type = "tool_result"

LeadsTo(r, path, text) ==
    r.provider = "anthropic" =>
        AnthropicPartText(AnthropicContentParts(r.messages[path.message].content)[path.part])
            = text

Cut(r) == {b \in Block : b.selected => ToolOutput(r, b.path) /\ LeadsTo(r, b.path, b.text)}

\* What is cut out of a message stands in a message.
MessageCut(r) == {b \in Cut(r) : b.path.message # 0}

LEMMA WithTextType ==
    ASSUME NEW S, NEW s \in Seq(S)
    PROVE  WithText(s) \in Seq(S)
BY OnlyFrom DEF WithText

\* An OpenAI message is cut as its role says.
LEMMA OpenAICut ==
    ASSUME NEW r \in AnyRequest, r.provider = "openai", NEW m \in DOMAIN r.messages
    PROVE  OpenAIMessageBlocks(m, r.messages[m]) \in Seq(MessageCut(r))
<1> DEFINE message == r.messages[m]
           texts == OpenAIContentText(message.content)
           path(j) == IF Len(texts) > 1 THEN Path(m, j, "text") ELSE Path(m, 0, "content")
           block(j) == NewBlock(path(j), message.role, texts[j])
           s == [j \in DOMAIN texts |-> block(j)]
<1>1. r.messages \in Seq(AnyMessage)
  BY DEF AnyRequest
<1>2. message \in AnyMessage /\ m \in Nat /\ m # 0
  BY <1>1
<1>3. message.role \in Role /\ message.content \in AnyContent
  BY <1>2 DEF AnyMessage
<1>4. texts \in Seq(Text)
  BY <1>3, ContentTextType
<1>5. OpenAIMessageBlocks(m, message) = WithText(s)
  BY DEF OpenAIMessageBlocks
<1> HIDE DEF texts
<1>6. ASSUME NEW j \in DOMAIN texts PROVE block(j) \in MessageCut(r)
  <2>1. j \in Nat /\ texts[j] \in Text
    BY <1>4
  <2>2. path(j) \in PathSet /\ path(j).message = m
    BY <1>2, <2>1 DEF Path, PathSet
  <2> HIDE DEF path, message
  <2>3. /\ block(j) \in Block /\ block(j).path = path(j)
        /\ block(j).selected => message.role = "tool"
    BY <1>3, <2>1, <2>2, NewBlockType
  <2> HIDE DEF block
  <2>4. message.role = "tool" => ToolOutput(r, path(j))
    BY <1>2, <2>2 DEF ToolOutput, message
  <2>5. LeadsTo(r, path(j), block(j).text)
    BY DEF LeadsTo
  <2> QED BY <1>2, <2>2, <2>3, <2>4, <2>5 DEF Cut, MessageCut
<1> HIDE DEF block
<1>7. s \in [1 .. Len(texts) -> MessageCut(r)] /\ Len(texts) \in Nat
  BY <1>4, <1>6
<1> HIDE DEF s
<1>8. s \in Seq(MessageCut(r))
  BY <1>7, ListOf
<1> QED BY <1>5, <1>8, WithTextType DEF message

\* A part of an Anthropic message is cut as its type or the message's role says.
LEMMA AnthropicCut ==
    ASSUME NEW r \in AnyRequest, r.provider = "anthropic", NEW m \in DOMAIN r.messages,
           r.messages[m].content.shape # "other"
    PROVE  AnthropicMessageBlocks(m, r.messages[m]) \in Seq(MessageCut(r))
<1> DEFINE message == r.messages[m]
           parts == AnthropicContentParts(message.content)
           block(j) == AnthropicPartBlock(m, j, message, parts[j])
           s == [j \in DOMAIN parts |-> block(j)]
<1>1. r.messages \in Seq(AnyMessage)
  BY DEF AnyRequest
<1>2. message \in AnyMessage /\ m \in Nat /\ m # 0
  BY <1>1
<1>3. message.role \in Role /\ message.content \in AnyContent
  BY <1>2 DEF AnyMessage
<1>4. parts \in Seq(AnyPart)
  <2>1. CASE message.content.shape = "string"
    <3>1. message.content.text \in Text
      BY <1>3, <2>1 DEF AnyContent
    <3>2. [type |-> "text", text |-> message.content.text, nested |-> <<>>] \in AnyPart
      <4>1. "text" \in PartType /\ <<>> \in Seq(Text)
        BY DEF PartType
      <4> QED BY <3>1, <4>1 DEF AnyPart
    <3> QED BY <2>1, <3>2 DEF AnthropicContentParts
  <2>2. CASE message.content.shape = "parts"
    BY <1>3, <2>2 DEF AnyContent, AnthropicContentParts
  <2> QED BY <1>3, <2>1, <2>2 DEF AnyContent
<1>5. AnthropicMessageBlocks(m, message) = WithText(s)
  BY DEF AnthropicMessageBlocks
\* A string has one part, and that is no tool result.
<1>6. ASSUME NEW j \in DOMAIN parts, parts[j].type = "tool_result"
      PROVE  message.content.shape = "parts" /\ message.content.parts[j].type = "tool_result"
  <2>1. message.content.shape # "string"
    <3> SUFFICES ASSUME message.content.shape = "string" PROVE FALSE
      OBVIOUS
    <3>1. parts = <<[type |-> "text", text |-> message.content.text, nested |-> <<>>]>>
      BY DEF AnthropicContentParts
    <3>2. j = 1 /\ parts[1].type = "text"
      BY <3>1
    <3> QED BY <1>6, <3>2
  <2>2. parts = message.content.parts
    BY <2>1 DEF AnthropicContentParts
  <2>3. message.content.shape = "parts"
    BY <1>3, <2>1 DEF AnyContent
  <2> QED BY <1>6, <2>2, <2>3
<1> HIDE DEF parts
<1>7. ASSUME NEW j \in DOMAIN parts PROVE block(j) \in MessageCut(r)
  <2> DEFINE text == AnthropicPartText(parts[j])
             field == IF parts[j].type = "tool_result" THEN "content" ELSE "text"
             path == Path(m, j, field)
             new == NewBlock(path, message.role, text)
  <2>1. j \in Nat /\ parts[j] \in AnyPart
    BY <1>4
  <2>2. text \in Text
    BY <2>1, PartTextType
  <2>3. path \in PathSet /\ path.message = m /\ path.part = j
    BY <1>2, <2>1 DEF Path, PathSet
  <2>4. LeadsTo(r, path, text)
    BY <2>3 DEF LeadsTo, parts, message
  <2>5. block(j) = IF parts[j].type = "tool_result"
                   THEN [new EXCEPT !.source = "tool_result", !.stability = "live",
                                    !.selected = TRUE]
                   ELSE new
    BY DEF AnthropicPartBlock
  <2> HIDE DEF path, message, text, block
  <2>6. /\ new \in Block /\ new.path = path /\ new.text = text
        /\ new.selected => message.role = "tool"
    BY <1>3, <2>2, <2>3, NewBlockType
  <2> HIDE DEF new
  <2>7. CASE parts[j].type # "tool_result"
    <3>1. message.role = "tool" => ToolOutput(r, path)
      BY <1>2, <2>3 DEF ToolOutput, message
    <3> QED BY <1>2, <2>3, <2>4, <2>5, <2>6, <2>7, <3>1 DEF Cut, MessageCut
  <2>8. CASE parts[j].type = "tool_result"
    <3>1. ToolOutput(r, path)
      BY <1>2, <1>6, <2>3, <2>8 DEF ToolOutput, message
    <3>2. block(j) \in Block /\ block(j).path = path /\ block(j).text = text
      BY <2>5, <2>6, <2>8 DEF Block, Source, Stability
    <3> QED BY <1>2, <2>3, <2>4, <3>1, <3>2 DEF Cut, MessageCut
  <2> QED BY <2>7, <2>8
<1> HIDE DEF block
<1>8. s \in [1 .. Len(parts) -> MessageCut(r)] /\ Len(parts) \in Nat
  BY <1>4, <1>7
<1> HIDE DEF s
<1>9. s \in Seq(MessageCut(r))
  BY <1>8, ListOf
<1> QED BY <1>5, <1>9, WithTextType DEF message

LEMMA AssignCut ==
    ASSUME NEW r, NEW s \in Seq(Cut(r))
    PROVE  AssignBlockIDs(s) \in Seq(Cut(r))
<1>1. ASSUME NEW j \in DOMAIN s PROVE [s[j] EXCEPT !.id = j] \in Cut(r)
  <2>1. s[j] \in Cut(r) /\ j \in Nat
    OBVIOUS
  <2> DEFINE b == s[j]
             c == [b EXCEPT !.id = j]
  <2> HIDE DEF b
  <2>2. b \in Block /\ (b.selected => ToolOutput(r, b.path) /\ LeadsTo(r, b.path, b.text))
    BY <2>1 DEF Cut, b
  <2>3. c \in Block /\ c.path = b.path /\ c.text = b.text /\ c.selected = b.selected
    BY <2>1, <2>2 DEF Block
  <2> HIDE DEF c
  <2>4. c \in Cut(r)
    BY <2>2, <2>3 DEF Cut
  <2> QED BY <2>4 DEF b, c
<1>2. AssignBlockIDs(s) \in [1 .. Len(s) -> Cut(r)] /\ Len(s) \in Nat
  BY <1>1 DEF AssignBlockIDs
<1> QED BY <1>2, ListOf

\* The system prompt is not live.
LEMMA SystemCut ==
    ASSUME NEW r, NEW text \in Text
    PROVE  SystemBlock(text) \in Cut(r)
<1> DEFINE path == Path(0, 0, "content")
<1>1. path \in PathSet
  BY DEF Path, PathSet
<1>2. /\ "system" \in Role /\ "system" \in Source /\ "stable" \in Stability
      /\ "text" \in ContentType
  BY DEF Role, Source, Stability, ContentType
<1>3. SystemBlock(text)
        = [id |-> 1, path |-> path, role |-> "system", source |-> "system",
           stability |-> "stable", contentType |-> "text", text |-> text, selected |-> FALSE]
  BY DEF SystemBlock
<1> HIDE DEF path
<1>4. SystemBlock(text) \in Block /\ ~SystemBlock(text).selected
  BY <1>1, <1>2, <1>3 DEF Block
<1> QED BY <1>4 DEF Cut

\* What detection cuts out of a request and marks live is a tool's output, and its path
\* leads to it.
LEMMA Detected ==
    ASSUME NEW r \in AnyRequest, ~DetectFails(r)
    PROVE  DetectLiveZones(r) \in Seq(Cut(r))
<1>1. r.messages \in Seq(AnyMessage)
  BY DEF AnyRequest
<1>2. CASE r.provider = "openai"
  <2> DEFINE ss == [m \in DOMAIN r.messages |-> OpenAIMessageBlocks(m, r.messages[m])]
  <2>1. ss \in [1 .. Len(r.messages) -> Seq(MessageCut(r))] /\ Len(r.messages) \in Nat
    BY <1>1, <1>2, OpenAICut
  <2>2. DetectLiveZones(r) = AssignBlockIDs(FlattenSeq(ss))
    BY <1>2 DEF DetectLiveZones, DetectOpenAI
  <2> HIDE DEF ss
  <2>3. ss \in Seq(Seq(MessageCut(r)))
    BY <2>1, ListOf
  <2>4. FlattenSeq(ss) \in Seq(MessageCut(r))
    BY <2>3, FlattenPlaces
  <2>5. MessageCut(r) \in SUBSET Cut(r)
    BY DEF MessageCut
  <2>6. FlattenSeq(ss) \in Seq(Cut(r))
    BY <2>4, <2>5, ListMore
  <2> QED BY <2>2, <2>6, AssignCut
<1>3. CASE r.provider = "anthropic"
  <2> DEFINE ss == [m \in DOMAIN r.messages |-> AnthropicMessageBlocks(m, r.messages[m])]
             texts == NonEmptyTexts(AnthropicSystemTexts(r.system))
             sys == [k \in DOMAIN texts |-> SystemBlock(texts[k])]
  <2>1. \A m \in DOMAIN r.messages : r.messages[m].content.shape # "other"
    BY <1>3 DEF DetectFails
  <2>2. ss \in [1 .. Len(r.messages) -> Seq(MessageCut(r))] /\ Len(r.messages) \in Nat
    BY <1>1, <1>3, <2>1, AnthropicCut
  <2>3. DetectLiveZones(r) = AssignBlockIDs(sys \o FlattenSeq(ss))
    BY <1>3 DEF DetectLiveZones, DetectAnthropic
  <2> HIDE DEF ss
  <2>4. ss \in Seq(Seq(MessageCut(r)))
    BY <2>2, ListOf
  <2>5. FlattenSeq(ss) \in Seq(MessageCut(r))
    BY <2>4, FlattenPlaces
  <2>6. r.system \in AnyContent
    BY <1>3 DEF AnyRequest
  <2>7. texts \in Seq(Text)
    BY <2>6, ContentTextType, NonEmptyTextsType DEF AnthropicSystemTexts
  <2> HIDE DEF texts
  <2>8. \A text \in Text : SystemBlock(text) \in Cut(r)
    BY SystemCut
  <2>9. sys \in [1 .. Len(texts) -> Cut(r)] /\ Len(texts) \in Nat
    BY <2>7, <2>8
  <2> HIDE DEF sys
  <2>10. sys \in Seq(Cut(r))
    BY <2>9, ListOf
  <2>11. MessageCut(r) \in SUBSET Cut(r)
    BY DEF MessageCut
  <2>12. FlattenSeq(ss) \in Seq(Cut(r))
    BY <2>5, <2>11, ListMore
  <2>13. sys \o FlattenSeq(ss) \in Seq(Cut(r))
    BY <2>10, <2>12
  <2> QED BY <2>3, <2>13, AssignCut
<1> QED BY <1>2, <1>3 DEF DetectFails

-----------------------------------------------------------------------------
(* Detection misses no text and repeats none.                                *)

\* h pairs off the numbered texts tx with the occurrences O.
PairedBy(h, tx, O) ==
    /\ h \in [DOMAIN tx -> O]
    /\ \A k \in DOMAIN tx : h[k].text = tx[k]
    /\ \A j, k \in DOMAIN tx : h[j] = h[k] => j = k
    /\ \A o \in O : \E k \in DOMAIN tx : h[k] = o

Paired(tx, O) == \E h : PairedBy(h, tx, O)

TextsOf(s) == [k \in DOMAIN s |-> s[k].text]

Spoken(O) == {o \in O : o.text # <<>>}

\* Texts that are paired off with occurrences are as many of each.
LEMMA PairedCount ==
    ASSUME NEW tx, NEW O, Paired(tx, O), IsFiniteSet(DOMAIN tx), NEW text
    PROVE  Cardinality({k \in DOMAIN tx : tx[k] = text}) = Cardinality({o \in O : o.text = text})
<1>1. PICK h : PairedBy(h, tx, O)
  BY DEF Paired
<1> DEFINE D == {k \in DOMAIN tx : tx[k] = text}
           Q == {o \in O : o.text = text}
           g == [k \in D |-> h[k]]
<1>2. D \in SUBSET DOMAIN tx /\ IsFiniteSet(D)
  <2>1. D \in SUBSET DOMAIN tx
    OBVIOUS
  <2> QED BY <2>1, FS_Subset
<1>3. g \in [D -> Q]
  BY <1>1 DEF PairedBy
<1>4. \A j, k \in D : g[j] = g[k] => j = k
  BY <1>1 DEF PairedBy
<1>5. \A o \in Q : \E k \in D : g[k] = o
  BY <1>1 DEF PairedBy
<1> HIDE DEF g, D, Q
<1>6. g \in Bijection(D, Q)
  BY <1>3, <1>4, <1>5 DEF Bijection, Injection, Surjection, IsInjective
<1>7. ExistsBijection(D, Q)
  BY <1>6 DEF ExistsBijection
<1>8. Cardinality(D) = Cardinality(Q)
  BY <1>2, <1>7, FS_Bijection
<1> QED BY <1>8 DEF D, Q

\* Dropping the empty texts on the way leaves the others paired off.
LEMMA PairedOnly ==
    ASSUME NEW S, NEW s \in Seq(S), NEW wanted, NEW tx, DOMAIN tx = DOMAIN s,
           \A k \in DOMAIN s : s[k] \in wanted <=> tx[k] # <<>>,
           NEW O, Paired(tx, O), NEW tp, DOMAIN tp = DOMAIN Only(s, wanted),
           \A j \in DOMAIN tp : \A k \in DOMAIN s : Only(s, wanted)[j] = s[k] => tp[j] = tx[k]
    PROVE  Paired(tp, Spoken(O))
<1> DEFINE p == Only(s, wanted)
<1>1. p \in Seq(S)
  BY OnlyPlaces
<1>2. PICK e : Places(e, p, s, wanted, Len(s))
  BY OnlyPlaces
<1>3. DOMAIN s = 1 .. Len(s) /\ DOMAIN tp = DOMAIN p /\ DOMAIN p \subseteq Int
  BY <1>1
<1> HIDE DEF p
<1>4. /\ \A j \in DOMAIN tp : e[j] \in DOMAIN tx /\ tp[j] = tx[e[j]] /\ tx[e[j]] # <<>>
      /\ \A j, k \in DOMAIN tp : j < k => e[j] < e[k]
      /\ \A k \in DOMAIN tx : tx[k] # <<>> => \E j \in DOMAIN tp : e[j] = k
  <2>1. /\ \A j \in DOMAIN p : e[j] \in 1 .. Len(s) /\ p[j] = s[e[j]] /\ s[e[j]] \in wanted
        /\ \A j, k \in DOMAIN p : j < k => e[j] < e[k]
        /\ \A k \in 1 .. Len(s) : s[k] \in wanted => \E j \in DOMAIN p : e[j] = k
    BY <1>2 DEF Places
  <2>2. \A j \in DOMAIN p : tp[j] = tx[e[j]]
    BY <1>3, <2>1 DEF p
  <2> QED BY <1>3, <2>1, <2>2
<1>5. \A j, k \in DOMAIN tp : e[j] = e[k] => j = k
  <2> SUFFICES ASSUME NEW j \in DOMAIN tp, NEW k \in DOMAIN tp, e[j] = e[k] PROVE j = k
    OBVIOUS
  <2>1. j \in Int /\ k \in Int /\ e[j] \in Int /\ e[k] \in Int
    BY <1>3, <1>4
  <2>2. ~(j < k) /\ ~(k < j)
    BY <1>4, <2>1
  <2> QED BY <2>1, <2>2
<1>6. PICK h : PairedBy(h, tx, O)
  BY DEF Paired
<1> DEFINE g == [j \in DOMAIN tp |-> h[e[j]]]
<1>7. PairedBy(g, tp, Spoken(O))
  <2>1. \A j \in DOMAIN tp : g[j] \in Spoken(O) /\ g[j].text = tp[j]
    BY <1>4, <1>6 DEF PairedBy, Spoken
  <2>2. \A j, k \in DOMAIN tp : g[j] = g[k] => j = k
    BY <1>4, <1>5, <1>6 DEF PairedBy
  <2>3. ASSUME NEW o \in Spoken(O) PROVE \E j \in DOMAIN tp : g[j] = o
    <3>1. o \in O /\ o.text # <<>>
      BY DEF Spoken
    <3>2. PICK k \in DOMAIN tx : h[k] = o /\ tx[k] # <<>>
      BY <1>6, <3>1 DEF PairedBy
    <3>3. PICK j \in DOMAIN tp : e[j] = k
      BY <1>4, <3>2
    <3> QED BY <3>2, <3>3
  <2>4. g \in [DOMAIN tp -> Spoken(O)]
    BY <2>1
  <2> HIDE DEF g
  <2> QED BY <2>1, <2>2, <2>3, <2>4 DEF PairedBy
<1> QED BY <1>7 DEF Paired

\* One behind the other.
LEMMA PairedConcat ==
    ASSUME NEW S, NEW s \in Seq(S), NEW t \in Seq(S), NEW O, NEW Q, O \cap Q = {},
           Paired(TextsOf(s), O), Paired(TextsOf(t), Q)
    PROVE  Paired(TextsOf(s \o t), O \cup Q)
<1> DEFINE st == s \o t
           n == Len(s)
           m == Len(t)
<1>0. /\ n \in Nat /\ m \in Nat /\ DOMAIN s = 1 .. n /\ DOMAIN t = 1 .. m
      /\ DOMAIN st = 1 .. (n + m)
      /\ \A k \in 1 .. n : st[k] = s[k]
      /\ \A k \in (n + 1) .. (n + m) : st[k] = t[k - n]
  OBVIOUS
<1>1. PICK f : PairedBy(f, TextsOf(s), O)
  BY DEF Paired
<1>2. PICK g : PairedBy(g, TextsOf(t), Q)
  BY DEF Paired
<1> HIDE DEF st, n, m
<1> DEFINE h == [k \in DOMAIN st |-> IF k <= n THEN f[k] ELSE g[k - n]]
<1>3. /\ \A k \in 1 .. n : f[k] \in O /\ f[k].text = s[k].text
      /\ \A j, k \in 1 .. n : f[j] = f[k] => j = k
      /\ \A o \in O : \E k \in 1 .. n : f[k] = o
  BY <1>0, <1>1 DEF PairedBy, TextsOf
<1>4. /\ \A k \in 1 .. m : g[k] \in Q /\ g[k].text = t[k].text
      /\ \A j, k \in 1 .. m : g[j] = g[k] => j = k
      /\ \A o \in Q : \E k \in 1 .. m : g[k] = o
  BY <1>0, <1>2 DEF PairedBy, TextsOf
<1>5. \A k \in DOMAIN st : k \in 1 .. n \/ (k \in (n + 1) .. (n + m) /\ k - n \in 1 .. m)
  BY <1>0
<1>6. /\ \A k \in 1 .. n : k \in DOMAIN st /\ h[k] = f[k]
      /\ \A k \in (n + 1) .. (n + m) : k \in DOMAIN st /\ h[k] = g[k - n]
  BY <1>0
<1> HIDE DEF h
<1>7. ASSUME NEW k \in DOMAIN st PROVE h[k] \in O \cup Q /\ h[k].text = st[k].text
  <2>1. CASE k \in 1 .. n
    <3>1. h[k] = f[k] /\ st[k] = s[k]
      BY <1>0, <1>6, <2>1
    <3> QED BY <1>3, <2>1, <3>1
  <2>2. CASE k \in (n + 1) .. (n + m) /\ k - n \in 1 .. m
    <3>1. h[k] = g[k - n] /\ st[k] = t[k - n]
      BY <1>0, <1>6, <2>2
    <3> QED BY <1>4, <2>2, <3>1
  <2> QED BY <1>5, <2>1, <2>2
<1>8. ASSUME NEW j \in DOMAIN st, NEW k \in DOMAIN st, h[j] = h[k] PROVE j = k
  <2>1. CASE j \in 1 .. n /\ k \in 1 .. n
    BY <1>3, <1>6, <1>8, <2>1
  <2>2. CASE j \in (n + 1) .. (n + m) /\ k \in (n + 1) .. (n + m)
    <3>1. j - n \in 1 .. m /\ k - n \in 1 .. m
      BY <1>0, <2>2
    <3>2. j - n = k - n
      BY <1>4, <1>6, <1>8, <2>2, <3>1
    <3> QED BY <1>0, <2>2, <3>2
  <2>3. CASE j \in 1 .. n /\ k \in (n + 1) .. (n + m)
    BY <1>3, <1>4, <1>5, <1>6, <1>8, <2>3
  <2>4. CASE k \in 1 .. n /\ j \in (n + 1) .. (n + m)
    BY <1>3, <1>4, <1>5, <1>6, <1>8, <2>4
  <2> QED BY <1>5, <2>1, <2>2, <2>3, <2>4
<1>9. ASSUME NEW o \in O \cup Q PROVE \E k \in DOMAIN st : h[k] = o
  <2>1. CASE o \in O
    BY <1>3, <1>6, <2>1
  <2>2. CASE o \in Q
    <3>1. PICK k \in 1 .. m : g[k] = o
      BY <1>4, <2>2
    <3>2. k + n \in (n + 1) .. (n + m) /\ (k + n) - n = k
      BY <1>0
    <3>3. k + n \in DOMAIN st /\ h[k + n] = o
      BY <1>6, <3>1, <3>2
    <3> QED BY <3>3
  <2> QED BY <2>1, <2>2
<1>10. DOMAIN TextsOf(st) = DOMAIN st /\ \A k \in DOMAIN st : TextsOf(st)[k] = st[k].text
  BY DEF TextsOf
<1>11. h \in [DOMAIN st -> O \cup Q]
  BY <1>7 DEF h
<1>12. PairedBy(h, TextsOf(st), O \cup Q)
  BY <1>7, <1>8, <1>9, <1>10, <1>11 DEF PairedBy
<1> QED BY <1>12 DEF Paired, st

Upto(os, n) == UNION {os[m] : m \in 1 .. n}

\* One message after the other, if each is paired off with what stands in it.
LEMMA PairedFlatten ==
    ASSUME NEW S, NEW ss \in Seq(Seq(S)), NEW os,
           \A m \in DOMAIN ss : Paired(TextsOf(ss[m]), os[m]),
           \A m, n \in DOMAIN ss : m # n => os[m] \cap os[n] = {}
    PROVE  Paired(TextsOf(FlattenSeq(ss)), Upto(os, Len(ss)))
<1>0. Len(ss) \in Nat /\ DOMAIN ss = 1 .. Len(ss) /\ \A m \in DOMAIN ss : ss[m] \in Seq(S)
  OBVIOUS
<1>1. CASE Len(ss) = 0
  <2>1. FlattenSeq(ss) = <<>>
    BY <1>1 DEF FlattenSeq
  <2>2. Upto(os, Len(ss)) = {}
    BY <1>1 DEF Upto
  <2>3. PairedBy(<<>>, TextsOf(<<>>), {})
    BY DEF PairedBy, TextsOf
  <2> QED BY <2>1, <2>2, <2>3 DEF Paired
<1>2. CASE Len(ss) # 0
  <2>1. \E f : Flat(f, ss, Len(ss))
    BY <1>0, FlatExists
  <2>2. PICK f : Flat(f, ss, Len(ss)) /\ FlattenSeq(ss) = f[Len(ss)]
    BY <1>2, <2>1 DEF FlattenSeq, Flat, FlatStep
  <2> DEFINE Good(n) == f[n] \in Seq(S) /\ Paired(TextsOf(f[n]), Upto(os, n))
             P == {n \in Nat : n + 1 <= Len(ss) => Good(n + 1)}
  <2>3. 0 \in P
    <3>1. 1 \in 1 .. Len(ss) /\ 0 + 1 = 1
      BY <1>0, <1>2
    <3>2. f[1] = ss[1]
      BY <2>2, <3>1 DEF Flat, FlatStep
    <3>3. Upto(os, 1) = os[1]
      BY DEF Upto
    <3>4. Good(1)
      BY <1>0, <3>1, <3>2, <3>3
    <3> HIDE DEF Good
    <3> QED BY <3>1, <3>4
  <2>4. ASSUME NEW n \in P PROVE n + 1 \in P
    <3> DEFINE m == n + 1
    <3> SUFFICES ASSUME m + 1 <= Len(ss) PROVE Good(m + 1)
      OBVIOUS
    <3>1. m \in Nat /\ m + 1 \in 1 .. Len(ss) /\ m + 1 # 1 /\ (m + 1) - 1 = m /\ m <= Len(ss)
      BY <1>0
    <3>2. Good(m)
      BY <3>1
    <3>3. f[m + 1] = f[m] \o ss[m + 1]
      <4>1. f[m + 1] = FlatStep(f, ss, m + 1)
        BY <2>2, <3>1 DEF Flat
      <4> QED BY <3>1, <4>1 DEF FlatStep
    <3> HIDE DEF m
    <3> DEFINE p == f[m]
               q == ss[m + 1]
    <3>4. p \in Seq(S) /\ q \in Seq(S) /\ m + 1 \in DOMAIN ss
      BY <1>0, <3>1, <3>2
    <3>5. Upto(os, m + 1) = Upto(os, m) \cup os[m + 1]
      <4>1. 1 .. (m + 1) = (1 .. m) \cup {m + 1}
        BY <3>1
      <4> HIDE DEF m
      <4> QED BY <4>1 DEF Upto
    <3>6. Upto(os, m) \cap os[m + 1] = {}
      <4>1. \A k \in 1 .. m : k \in DOMAIN ss /\ k # m + 1
        BY <1>0, <3>1
      <4>2. \A k \in 1 .. m : os[k] \cap os[m + 1] = {}
        BY <3>4, <4>1
      <4> QED BY <4>2 DEF Upto
    <3>7. Paired(TextsOf(p), Upto(os, m)) /\ Paired(TextsOf(q), os[m + 1])
      BY <3>2, <3>4
    <3> HIDE DEF p, q
    <3>8. p \o q \in Seq(S)
      BY <3>4
    <3>9. Paired(TextsOf(p \o q), Upto(os, m) \cup os[m + 1])
      BY <3>4, <3>6, <3>7, PairedConcat
    <3>10. f[m + 1] = p \o q
      BY <3>3 DEF p, q
    <3> QED BY <3>5, <3>8, <3>9, <3>10
  <2> HIDE DEF P, Good
  <2>5. P = Nat
    BY <2>3, <2>4, Induction DEF P
  <2>6. Len(ss) - 1 \in P /\ (Len(ss) - 1) + 1 = Len(ss)
    BY <1>0, <1>2, <2>5
  <2>7. Good(Len(ss))
    BY <1>0, <2>6 DEF P
  <2> QED BY <2>2, <2>7 DEF Good
<1> QED BY <1>1, <1>2

\* What stands at which place of message m of request r, the empty texts too.
WordsOf(r, part) == IF r.provider = "openai" THEN part.text ELSE AnthropicPartText(part)

Placed(r, content) ==
    IF content.shape = "string" THEN {<<0, content.text>>}
    ELSE IF content.shape = "other" THEN {}
    ELSE {<<j, WordsOf(r, content.parts[j])>> : j \in DOMAIN content.parts}

Standing(r, m) ==
    {[message |-> m, part |-> at[1], text |-> at[2]] : at \in Placed(r, r.messages[m].content)}

\* The texts of the parts, in their order, are paired off with their places.
LEMMA PairedParts ==
    ASSUME NEW r, NEW m, r.messages[m].content.shape = "parts", NEW tx,
           DOMAIN tx = DOMAIN r.messages[m].content.parts,
           \A j \in DOMAIN tx : tx[j] = WordsOf(r, r.messages[m].content.parts[j])
    PROVE  Paired(tx, Standing(r, m))
<1> DEFINE content == r.messages[m].content
           at(j) == [message |-> m, part |-> j, text |-> tx[j]]
           h == [j \in DOMAIN tx |-> at(j)]
<1>1. Placed(r, content) = {<<j, tx[j]>> : j \in DOMAIN tx}
  <2>1. Placed(r, content) = {<<j, WordsOf(r, content.parts[j])>> : j \in DOMAIN content.parts}
    BY DEF Placed
  <2> QED BY <2>1
<1>2. Standing(r, m) = {at(j) : j \in DOMAIN tx}
  <2>1. \A p : p \in Placed(r, content) <=> \E j \in DOMAIN tx : p = <<j, tx[j]>>
    BY <1>1
  <2>2. ASSUME NEW o \in Standing(r, m) PROVE \E j \in DOMAIN tx : o = at(j)
    <3>1. PICK p \in Placed(r, content) : o = [message |-> m, part |-> p[1], text |-> p[2]]
      BY DEF Standing
    <3>2. PICK j \in DOMAIN tx : p = <<j, tx[j]>>
      BY <2>1
    <3>3. p[1] = j /\ p[2] = tx[j]
      BY <3>2
    <3>4. o = at(j)
      BY <3>1, <3>3
    <3> QED BY <3>4
  <2>3. ASSUME NEW j \in DOMAIN tx PROVE at(j) \in Standing(r, m)
    <3> DEFINE p == <<j, tx[j]>>
    <3>1. p \in Placed(r, content) /\ p[1] = j /\ p[2] = tx[j]
      BY <2>1
    <3> HIDE DEF p
    <3>2. at(j) = [message |-> m, part |-> p[1], text |-> p[2]]
      BY <3>1
    <3> QED BY <3>1, <3>2 DEF Standing
  <2> HIDE DEF at
  <2> QED BY <2>2, <2>3
<1>3. \A j \in DOMAIN tx : at(j).text = tx[j] /\ at(j).part = j
  OBVIOUS
<1> HIDE DEF at
<1>4. PairedBy(h, tx, Standing(r, m))
  BY <1>2, <1>3 DEF PairedBy
<1> QED BY <1>4 DEF Paired

LEMMA PairedString ==
    ASSUME NEW r, NEW m, r.messages[m].content.shape = "string", NEW tx, DOMAIN tx = {1},
           tx[1] = r.messages[m].content.text
    PROVE  Paired(tx, Standing(r, m))
<1> DEFINE at == [message |-> m, part |-> 0, text |-> tx[1]]
           h == [j \in {1} |-> at]
<1>1. Placed(r, r.messages[m].content) = {<<0, tx[1]>>}
  BY DEF Placed
<1>2. Standing(r, m) = {at}
  BY <1>1 DEF Standing
<1>3. at.text = tx[1]
  OBVIOUS
<1> HIDE DEF at
<1>4. PairedBy(h, tx, Standing(r, m))
  BY <1>2, <1>3 DEF PairedBy
<1> QED BY <1>4 DEF Paired

LEMMA PairedNothing ==
    ASSUME NEW r, NEW m, r.messages[m].content.shape = "other"
    PROVE  Standing(r, m) = {} /\ Paired(<<>>, Standing(r, m))
<1>1. Standing(r, m) = {}
  BY DEF Standing, Placed
<1>2. PairedBy(<<>>, <<>>, {})
  BY DEF PairedBy
<1> QED BY <1>1, <1>2 DEF Paired

\* The blocks of a message whose texts are paired off, without the empty ones.
LEMMA PairedWithText ==
    ASSUME NEW S, NEW s \in Seq(S), NEW O, Paired(TextsOf(s), O)
    PROVE  Paired(TextsOf(WithText(s)), Spoken(O))
<1> DEFINE wanted == {b \in ToSet(s) : NonEmpty(b.text)}
           tx == TextsOf(s)
           tp == TextsOf(Only(s, wanted))
<1>1. DOMAIN tx = DOMAIN s /\ \A k \in DOMAIN s : tx[k] = s[k].text
  BY DEF TextsOf
<1>2. \A k \in DOMAIN s : s[k] \in wanted <=> tx[k] # <<>>
  BY <1>1 DEF NonEmpty, ToSet
<1>3. DOMAIN tp = DOMAIN Only(s, wanted)
  BY DEF TextsOf
<1>4. \A j \in DOMAIN tp : \A k \in DOMAIN s : Only(s, wanted)[j] = s[k] => tp[j] = tx[k]
  BY <1>1 DEF TextsOf
<1> HIDE DEF wanted, tx, tp
<1>5. Paired(tx, O)
  BY DEF tx
<1>6. Paired(tp, Spoken(O))
  BY <1>1, <1>2, <1>3, <1>4, <1>5, PairedOnly
<1> QED BY <1>6 DEF tp, wanted, WithText

LEMMA PairedNonEmptyTexts ==
    ASSUME NEW S, NEW texts \in Seq(S), NEW O, Paired(texts, O)
    PROVE  Paired(NonEmptyTexts(texts), Spoken(O))
<1> DEFINE wanted == {text \in ToSet(texts) : NonEmpty(text)}
           p == Only(texts, wanted)
<1>1. \A k \in DOMAIN texts : texts[k] \in wanted <=> texts[k] # <<>>
  BY DEF NonEmpty, ToSet
<1> HIDE DEF wanted
<1>2. \A j \in DOMAIN p : \A k \in DOMAIN texts :
        Only(texts, wanted)[j] = texts[k] => p[j] = texts[k]
  OBVIOUS
<1> HIDE DEF p
<1>3. DOMAIN p = DOMAIN Only(texts, wanted)
  BY DEF p
<1>4. Paired(p, Spoken(O))
  BY <1>1, <1>2, <1>3, PairedOnly
<1> QED BY <1>4 DEF p, wanted, NonEmptyTexts

LEMMA SpokenTwice ==
    ASSUME NEW O
    PROVE  Spoken(Spoken(O)) = Spoken(O)
BY DEF Spoken

\* A sequence given by its items.
LEMMA AnyList ==
    ASSUME NEW n \in Nat, NEW s, s = [j \in 1 .. n |-> s[j]]
    PROVE  \E S : s \in Seq(S)
<1> DEFINE S == {s[j] : j \in 1 .. n}
<1>1. s \in [1 .. n -> S]
  <2>1. [j \in 1 .. n |-> s[j]] \in [1 .. n -> S]
    OBVIOUS
  <2> QED BY <2>1, Zenon
<1> HIDE DEF S
<1>2. s \in Seq(S)
  BY <1>1, ListOf
<1> QED BY <1>2

\* An OpenAI message: its string, or the texts of its parts.
LEMMA OpenAIPaired ==
    ASSUME NEW r \in AnyRequest, r.provider = "openai", NEW m \in DOMAIN r.messages
    PROVE  Paired(TextsOf(OpenAIMessageBlocks(m, r.messages[m])), Spoken(Standing(r, m)))
<1> DEFINE message == r.messages[m]
           content == message.content
           texts == OpenAIContentText(content)
           O == Standing(r, m)
           path(j) == IF Len(texts) > 1 THEN Path(m, j, "text") ELSE Path(m, 0, "content")
           block(j) == NewBlock(path(j), message.role, texts[j])
           s == [j \in DOMAIN texts |-> block(j)]
<1>1. content \in AnyContent
  <2>1. r.messages \in Seq(AnyMessage)
    BY DEF AnyRequest
  <2>2. message \in AnyMessage
    BY <2>1
  <2> QED BY <2>2 DEF AnyMessage
<1>2. texts \in Seq(Text)
  BY <1>1, ContentTextType
<1>3. Paired(texts, O) \/ Paired(texts, Spoken(O))
  <2>1. CASE content.shape = "string"
    <3>1. texts = <<content.text>>
      BY <2>1 DEF OpenAIContentText
    <3>2. DOMAIN texts = {1} /\ texts[1] = content.text
      BY <3>1
    <3> HIDE DEF texts
    <3> QED BY <2>1, <3>2, PairedString
  <2>2. CASE content.shape = "parts"
    <3> DEFINE parts == content.parts
               tx == [j \in DOMAIN parts |-> parts[j].text]
    <3>1. texts = NonEmptyTexts(tx)
      BY <2>2 DEF OpenAIContentText
    <3>2. parts \in Seq(AnyPart)
      BY <1>1, <2>2 DEF AnyContent
    <3>3. DOMAIN tx = DOMAIN parts /\ \A j \in DOMAIN parts : tx[j] = WordsOf(r, parts[j])
      BY DEF WordsOf
    <3>4. \E S : tx \in Seq(S)
      <4>1. Len(parts) \in Nat /\ DOMAIN parts = 1 .. Len(parts)
        BY <3>2
      <4>2. tx = [j \in 1 .. Len(parts) |-> tx[j]]
        BY <4>1
      <4> HIDE DEF tx
      <4> QED BY <4>1, <4>2, AnyList
    <3> HIDE DEF tx, texts
    <3>5. Paired(tx, O)
      BY <2>2, <3>3, PairedParts
    <3> QED BY <3>1, <3>4, <3>5, PairedNonEmptyTexts
  <2>3. CASE content.shape = "other"
    <3>1. texts = <<>>
      BY <2>3 DEF OpenAIContentText
    <3> QED BY <2>3, <3>1, PairedNothing
  <2> QED BY <1>1, <2>1, <2>2, <2>3 DEF AnyContent
<1>4. OpenAIMessageBlocks(m, message) = WithText(s)
  BY DEF OpenAIMessageBlocks
<1> HIDE DEF texts, O
<1>5. \A j \in DOMAIN texts : s[j].text = texts[j]
  BY DEF NewBlock
<1>6. DOMAIN s = DOMAIN texts
  OBVIOUS
<1>7. \E S : s \in Seq(S)
  <2>1. Len(texts) \in Nat /\ DOMAIN texts = 1 .. Len(texts)
    BY <1>2
  <2>2. s = [j \in 1 .. Len(texts) |-> s[j]]
    BY <2>1
  <2> HIDE DEF s
  <2> QED BY <2>1, <2>2, AnyList
<1> HIDE DEF s
<1>8. TextsOf(s) = texts
  <2>1. texts = [j \in DOMAIN texts |-> texts[j]]
    BY <1>2
  <2>2. TextsOf(s) = [j \in DOMAIN texts |-> texts[j]]
    BY <1>5, <1>6 DEF TextsOf
  <2> QED BY <2>1, <2>2
<1>9. Paired(TextsOf(WithText(s)), Spoken(O)) \/ Paired(TextsOf(WithText(s)), Spoken(Spoken(O)))
  BY <1>3, <1>7, <1>8, PairedWithText
<1>10. Paired(TextsOf(WithText(s)), Spoken(O))
  BY <1>9, SpokenTwice
<1> QED BY <1>4, <1>10 DEF O, message

\* An Anthropic message: its string, or the texts of its parts and what is nested in them.
LEMMA AnthropicPaired ==
    ASSUME NEW r \in AnyRequest, r.provider = "anthropic", NEW m \in DOMAIN r.messages,
           r.messages[m].content.shape # "other"
    PROVE  Paired(TextsOf(AnthropicMessageBlocks(m, r.messages[m])), Spoken(Standing(r, m)))
<1> DEFINE message == r.messages[m]
           content == message.content
           parts == AnthropicContentParts(content)
           block(j) == AnthropicPartBlock(m, j, message, parts[j])
           s == [j \in DOMAIN parts |-> block(j)]
           tx == TextsOf(s)
           O == Standing(r, m)
<1>1. content \in AnyContent
  <2>1. r.messages \in Seq(AnyMessage)
    BY DEF AnyRequest
  <2>2. message \in AnyMessage
    BY <2>1
  <2> QED BY <2>2 DEF AnyMessage
<1>2. \A j \in DOMAIN parts : block(j).text = AnthropicPartText(parts[j])
  BY DEF AnthropicPartBlock, NewBlock
<1>3. AnthropicMessageBlocks(m, message) = WithText(s)
  BY DEF AnthropicMessageBlocks
<1>4. DOMAIN tx = DOMAIN parts /\ \A j \in DOMAIN parts : tx[j] = AnthropicPartText(parts[j])
  BY <1>2 DEF TextsOf
<1> HIDE DEF block
<1>5. Paired(tx, O) /\ \E n \in Nat : DOMAIN parts = 1 .. n
  <2>1. CASE content.shape = "string"
    <3> DEFINE part == [type |-> "text", text |-> content.text, nested |-> <<>>]
    <3>1. parts = <<part>>
      BY <2>1 DEF AnthropicContentParts
    <3>2. AnthropicPartText(part) = content.text
      <4>1. NonEmptyTexts(<<>>) = <<>>
        BY <<>> \in Seq(Text), DOMAIN <<>> = {}, OnlyNone DEF NonEmptyTexts
      <4>2. FlattenSeq(<<>>) = <<>>
        BY DEF FlattenSeq
      <4>3. part.text = content.text /\ part.nested = <<>>
        OBVIOUS
      <4> HIDE DEF part
      <4> QED BY <4>1, <4>2, <4>3 DEF AnthropicPartText, NonEmpty
    <3> HIDE DEF part
    <3>3. DOMAIN parts = 1 .. 1 /\ DOMAIN parts = {1} /\ parts[1] = part
      BY <3>1
    <3> HIDE DEF parts
    <3>4. tx[1] = content.text
      BY <1>4, <3>2, <3>3
    <3> HIDE DEF tx
    <3>5. Paired(tx, O)
      BY <1>4, <2>1, <3>3, <3>4, PairedString
    <3> QED BY <3>3, <3>5
  <2>2. CASE content.shape = "parts"
    <3>1. parts = content.parts /\ content.parts \in Seq(AnyPart)
      BY <1>1, <2>2 DEF AnthropicContentParts, AnyContent
    <3>2. \E n \in Nat : DOMAIN parts = 1 .. n
      BY <3>1
    <3> HIDE DEF parts, tx
    <3>3. \A j \in DOMAIN tx : tx[j] = WordsOf(r, content.parts[j])
      BY <1>4, <3>1 DEF WordsOf
    <3>4. Paired(tx, O)
      BY <1>4, <2>2, <3>1, <3>3, PairedParts
    <3> QED BY <3>2, <3>4
  <2> QED BY <1>1, <2>1, <2>2 DEF AnyContent
<1>6. \E S : s \in Seq(S)
  <2>1. PICK n \in Nat : DOMAIN parts = 1 .. n
    BY <1>5
  <2> HIDE DEF parts
  <2>2. s = [j \in 1 .. n |-> s[j]]
    BY <2>1
  <2> HIDE DEF s
  <2> QED BY <2>2, AnyList
<1> HIDE DEF s
<1>7. Paired(TextsOf(WithText(s)), Spoken(O))
  BY <1>5, <1>6, PairedWithText
<1> QED BY <1>3, <1>7

\* The texts of the blocks that stand in a message.
SeenTexts(s) == [k \in {n \in DOMAIN s : s[n].path.message # 0} |-> s[k].text]

\* The blocks of the system prompt in front, and the numbering, change nothing.
LEMMA PairedSeen ==
    ASSUME NEW B, NEW sys \in Seq(B), NEW t \in Seq(B), NEW O, Paired(TextsOf(t), O),
           \A k \in DOMAIN sys : sys[k].path.message = 0,
           \A k \in DOMAIN t : t[k].path.message # 0,
           NEW z, DOMAIN z = DOMAIN (sys \o t),
           \A k \in DOMAIN z : z[k].path = (sys \o t)[k].path /\ z[k].text = (sys \o t)[k].text
    PROVE  Paired(SeenTexts(z), O)
<1> DEFINE st == sys \o t
           n == Len(sys)
           m == Len(t)
           seen == {k \in DOMAIN z : z[k].path.message # 0}
<1>0. /\ n \in Nat /\ m \in Nat /\ DOMAIN sys = 1 .. n /\ DOMAIN t = 1 .. m
      /\ DOMAIN st = 1 .. (n + m)
      /\ \A k \in 1 .. n : st[k] = sys[k]
      /\ \A k \in (n + 1) .. (n + m) : st[k] = t[k - n]
  OBVIOUS
<1>1. PICK f : PairedBy(f, TextsOf(t), O)
  BY DEF Paired
<1> HIDE DEF st, n, m
<1>2. \A k \in 1 .. (n + m) : k \in 1 .. n \/ (k \in (n + 1) .. (n + m) /\ k - n \in 1 .. m)
  BY <1>0
<1>3. \A k \in (n + 1) .. (n + m) : k \in 1 .. (n + m) /\ k \notin 1 .. n /\ k - n \in 1 .. m
  BY <1>0
<1>4. /\ DOMAIN z = 1 .. (n + m)
      /\ \A k \in DOMAIN z : z[k].path = st[k].path /\ z[k].text = st[k].text
  BY <1>0 DEF st
<1>5. \A k \in 1 .. n : k \in 1 .. (n + m) /\ z[k].path.message = 0
  <2>1. \A k \in 1 .. n : k \in 1 .. (n + m)
    BY <1>0
  <2> QED BY <1>0, <1>4, <2>1
<1>6. \A k \in (n + 1) .. (n + m) : z[k].path.message # 0 /\ z[k].text = t[k - n].text
  <2> SUFFICES ASSUME NEW k \in (n + 1) .. (n + m)
               PROVE  z[k].path.message # 0 /\ z[k].text = t[k - n].text
    OBVIOUS
  <2>1. k \in DOMAIN z /\ k - n \in DOMAIN t /\ st[k] = t[k - n]
    BY <1>0, <1>3, <1>4
  <2>2. t[k - n].path.message # 0
    BY <2>1
  <2> QED BY <1>4, <2>1, <2>2
<1>7. \A k : k \in seen <=> k \in (n + 1) .. (n + m)
  BY <1>2, <1>3, <1>4, <1>5, <1>6
<1>8. seen = (n + 1) .. (n + m)
  BY <1>7
<1> HIDE DEF seen
<1> DEFINE h == [k \in seen |-> f[k - n]]
<1>9. /\ \A k \in 1 .. m : f[k] \in O /\ f[k].text = t[k].text
      /\ \A j, k \in 1 .. m : f[j] = f[k] => j = k
      /\ \A o \in O : \E k \in 1 .. m : f[k] = o
  BY <1>0, <1>1 DEF PairedBy, TextsOf
<1>10. \A k \in seen : h[k] = f[k - n] /\ k - n \in 1 .. m
  BY <1>3, <1>8
<1>11. h \in [seen -> O]
  BY <1>9, <1>10
<1> HIDE DEF h
<1>12. \A k \in seen : h[k].text = z[k].text
  BY <1>6, <1>8, <1>9, <1>10
<1>13. ASSUME NEW j \in seen, NEW k \in seen, h[j] = h[k] PROVE j = k
  <2>1. j - n = k - n
    BY <1>9, <1>10, <1>13
  <2>2. j \in Int /\ k \in Int
    BY <1>8, <1>0
  <2> QED BY <1>0, <2>1, <2>2
<1>14. ASSUME NEW o \in O PROVE \E k \in seen : h[k] = o
  <2>1. PICK k \in 1 .. m : f[k] = o
    BY <1>9
  <2>2. k + n \in (n + 1) .. (n + m) /\ (k + n) - n = k
    BY <1>0
  <2>3. h[k + n] = o
    BY <1>8, <1>10, <2>1, <2>2
  <2> QED BY <1>8, <2>2, <2>3
<1>15. DOMAIN SeenTexts(z) = seen /\ \A k \in seen : SeenTexts(z)[k] = z[k].text
  BY DEF SeenTexts, seen
<1>16. PairedBy(h, SeenTexts(z), O)
  BY <1>11, <1>12, <1>13, <1>14, <1>15 DEF PairedBy
<1> QED BY <1>16 DEF Paired

LEMMA AssignKeeps ==
    ASSUME NEW r, NEW s \in Seq(Cut(r))
    PROVE  /\ DOMAIN AssignBlockIDs(s) = DOMAIN s
           /\ \A k \in DOMAIN s : /\ AssignBlockIDs(s)[k].path = s[k].path
                                  /\ AssignBlockIDs(s)[k].text = s[k].text
<1>1. ASSUME NEW k \in DOMAIN s
      PROVE  [s[k] EXCEPT !.id = k].path = s[k].path /\ [s[k] EXCEPT !.id = k].text = s[k].text
  <2>1. s[k] \in Block
    BY DEF Cut
  <2> QED BY <2>1 DEF Block
<1> QED BY <1>1 DEF AssignBlockIDs

\* What is spoken in the messages, one after the other.
AllSpoken(r) == Spoken(UNION {Standing(r, m) : m \in DOMAIN r.messages})

LEMMA SpokenByMessage ==
    ASSUME NEW r, NEW n \in Nat, DOMAIN r.messages = 1 .. n, NEW os,
           \A m \in 1 .. n : os[m] = Spoken(Standing(r, m))
    PROVE  /\ Upto(os, n) = AllSpoken(r)
           /\ \A k, m \in 1 .. n : k # m => os[k] \cap os[m] = {}
<1>1. \A m \in 1 .. n : \A o \in os[m] : o.message = m
  BY DEF Spoken, Standing
<1>2. \A k, m \in 1 .. n : k # m => os[k] \cap os[m] = {}
  BY <1>1
<1>3. Upto(os, n) = AllSpoken(r)
  BY DEF Upto, AllSpoken, Spoken
<1> QED BY <1>2, <1>3

\* Every text of the messages has its block, and every block of a message its text.
LEMMA DetectedPaired ==
    ASSUME NEW r \in AnyRequest, ~DetectFails(r)
    PROVE  Paired(SeenTexts(DetectLiveZones(r)), AllSpoken(r))
<1>1. r.messages \in Seq(AnyMessage)
  BY DEF AnyRequest
<1> DEFINE n == Len(r.messages)
           os == [m \in 1 .. n |-> Spoken(Standing(r, m))]
<1>2. n \in Nat /\ DOMAIN r.messages = 1 .. n
  BY <1>1
<1>3. \A m \in 1 .. n : os[m] = Spoken(Standing(r, m))
  OBVIOUS
<1> HIDE DEF n, os
<1>4. /\ Upto(os, n) = AllSpoken(r)
      /\ \A k, m \in 1 .. n : k # m => os[k] \cap os[m] = {}
  BY <1>2, <1>3, SpokenByMessage
<1>5. MessageCut(r) \in SUBSET Cut(r)
  BY DEF MessageCut
<1>6. ASSUME NEW ss \in Seq(Seq(MessageCut(r))), Len(ss) = n,
             \A m \in 1 .. n : Paired(TextsOf(ss[m]), Spoken(Standing(r, m))),
             NEW sys \in Seq(Cut(r)), \A k \in DOMAIN sys : sys[k].path.message = 0
      PROVE  Paired(SeenTexts(AssignBlockIDs(sys \o FlattenSeq(ss))), AllSpoken(r))
  <2> DEFINE t == FlattenSeq(ss)
  <2>1. DOMAIN ss = 1 .. n
    BY <1>6
  <2>2. Paired(TextsOf(t), Upto(os, n))
    BY <1>3, <1>4, <1>6, <2>1, PairedFlatten
  <2>3. t \in Seq(MessageCut(r))
    BY <1>6, FlattenPlaces
  <2> HIDE DEF t
  <2>4. t \in Seq(Cut(r))
    BY <1>5, <2>3, ListMore
  <2>5. \A k \in DOMAIN t : t[k].path.message # 0
    <3>1. \A k \in DOMAIN t : t[k] \in MessageCut(r)
      BY <2>3
    <3> QED BY <3>1 DEF MessageCut
  <2> DEFINE u == sys \o t
             z == AssignBlockIDs(u)
  <2>6. u \in Seq(Cut(r))
    BY <1>6, <2>4
  <2> HIDE DEF u
  <2>7. DOMAIN z = DOMAIN u /\ \A k \in DOMAIN z : z[k].path = u[k].path /\ z[k].text = u[k].text
    BY <2>6, AssignKeeps
  <2> HIDE DEF z
  <2>8. Paired(TextsOf(t), AllSpoken(r))
    BY <1>4, <2>2
  <2>9. /\ DOMAIN z = DOMAIN (sys \o t)
        /\ \A k \in DOMAIN z : z[k].path = (sys \o t)[k].path /\ z[k].text = (sys \o t)[k].text
    BY <2>7 DEF u
  <2>10. sys \in Seq(Cut(r)) /\ \A k \in DOMAIN sys : sys[k].path.message = 0
    BY <1>6
  <2>11. Paired(SeenTexts(z), AllSpoken(r))
    BY <2>4, <2>5, <2>8, <2>9, <2>10, PairedSeen
  <2> QED BY <2>11 DEF z, u, t
<1>7. CASE r.provider = "openai"
  <2> DEFINE ss == [m \in DOMAIN r.messages |-> OpenAIMessageBlocks(m, r.messages[m])]
  <2>1. ss \in [1 .. n -> Seq(MessageCut(r))]
    BY <1>2, <1>7, OpenAICut
  <2>2. DetectLiveZones(r) = AssignBlockIDs(FlattenSeq(ss))
    BY <1>7 DEF DetectLiveZones, DetectOpenAI
  <2>3. \A m \in 1 .. n : Paired(TextsOf(ss[m]), Spoken(Standing(r, m)))
    BY <1>2, <1>7, OpenAIPaired
  <2> HIDE DEF ss
  <2>4. ss \in Seq(Seq(MessageCut(r)))
    BY <1>2, <2>1, ListOf
  <2>5. Len(ss) = n
    BY <1>2, <2>1
  <2>6. FlattenSeq(ss) \in Seq(MessageCut(r))
    BY <2>4, FlattenPlaces
  <2>7. <<>> \o FlattenSeq(ss) = FlattenSeq(ss)
    BY <2>6
  <2>8. <<>> \in Seq(Cut(r)) /\ \A k \in DOMAIN <<>> : <<>>[k].path.message = 0
    OBVIOUS
  <2>9. Paired(SeenTexts(AssignBlockIDs(<<>> \o FlattenSeq(ss))), AllSpoken(r))
    BY <1>6, <2>3, <2>4, <2>5, <2>8
  <2> QED BY <2>2, <2>7, <2>9
<1>8. CASE r.provider = "anthropic"
  <2> DEFINE ss == [m \in DOMAIN r.messages |-> AnthropicMessageBlocks(m, r.messages[m])]
             texts == NonEmptyTexts(AnthropicSystemTexts(r.system))
             sys == [k \in DOMAIN texts |-> SystemBlock(texts[k])]
  <2>1. \A m \in DOMAIN r.messages : r.messages[m].content.shape # "other"
    BY <1>8 DEF DetectFails
  <2>2. ss \in [1 .. n -> Seq(MessageCut(r))]
    BY <1>2, <1>8, <2>1, AnthropicCut
  <2>3. DetectLiveZones(r) = AssignBlockIDs(sys \o FlattenSeq(ss))
    BY <1>8 DEF DetectLiveZones, DetectAnthropic
  <2>4. \A m \in 1 .. n : Paired(TextsOf(ss[m]), Spoken(Standing(r, m)))
    BY <1>2, <1>8, <2>1, AnthropicPaired
  <2> HIDE DEF ss
  <2>5. ss \in Seq(Seq(MessageCut(r)))
    BY <1>2, <2>2, ListOf
  <2>6. Len(ss) = n
    BY <1>2, <2>2
  <2>7. texts \in Seq(Text)
    <3>1. r.system \in AnyContent
      BY <1>8 DEF AnyRequest
    <3> QED BY <3>1, ContentTextType, NonEmptyTextsType DEF AnthropicSystemTexts
  <2> HIDE DEF texts
  <2>8. \A k \in DOMAIN sys : sys[k].path.message = 0
    BY DEF SystemBlock, Path
  <2>9. ASSUME NEW k \in DOMAIN texts PROVE SystemBlock(texts[k]) \in Cut(r)
    BY <2>7, SystemCut
  <2>10. sys \in [1 .. Len(texts) -> Cut(r)] /\ Len(texts) \in Nat
    BY <2>7, <2>9
  <2> HIDE DEF sys
  <2>11. sys \in Seq(Cut(r))
    BY <2>10, ListOf
  <2>12. Paired(SeenTexts(AssignBlockIDs(sys \o FlattenSeq(ss))), AllSpoken(r))
    BY <1>6, <2>4, <2>5, <2>6, <2>8, <2>11
  <2> QED BY <2>3, <2>12
<1> QED BY <1>7, <1>8 DEF DetectFails

-----------------------------------------------------------------------------
(* The invariant.                                                            *)

\* The tokens of a sequence of blocks.
Total(s) == SumFunction([k \in DOMAIN s |-> Tokens(s[k].text)])

LEMMA TotalInt ==
    ASSUME NEW s, IsFiniteSet(DOMAIN s), \A x \in DOMAIN s : Tokens(s[x].text) \in Int
    PROVE  Total(s) \in Int
<1> DEFINE f == [k \in DOMAIN s |-> Tokens(s[k].text)]
<1>1. f \in [DOMAIN s -> Int]
  OBVIOUS
<1> HIDE DEF f
<1>2. SumFunction(f) \in Int
  BY <1>1, SumIsInt
<1> QED BY <1>2 DEF f, Total

LEMMA TotalChange ==
    ASSUME NEW s, IsFiniteSet(DOMAIN s), NEW t, DOMAIN t = DOMAIN s, NEW k \in DOMAIN s,
           \A x \in DOMAIN s : Tokens(s[x].text) \in Int,
           \A x \in DOMAIN s : Tokens(t[x].text) \in Int,
           \A x \in DOMAIN s \ {k} : s[x] = t[x]
    PROVE  /\ Total(s) \in Int /\ Total(t) \in Int
           /\ Total(s) - Total(t) = Tokens(s[k].text) - Tokens(t[k].text)
<1> DEFINE S == DOMAIN s
           f == [x \in DOMAIN s |-> Tokens(s[x].text)]
           g == [x \in DOMAIN t |-> Tokens(t[x].text)]
<1>1. f \in [S -> Int] /\ g \in [S -> Int]
  OBVIOUS
<1>2. \A x \in S \ {k} : f[x] = g[x]
  OBVIOUS
<1>3. f[k] = Tokens(s[k].text) /\ g[k] = Tokens(t[k].text)
  OBVIOUS
<1>4. Total(s) = SumFunction(f) /\ Total(t) = SumFunction(g)
  BY DEF Total
<1>5. IsFiniteSet(S) /\ k \in S
  OBVIOUS
<1> HIDE DEF f, g, S
<1>6. /\ SumFunction(f) \in Int /\ SumFunction(g) \in Int
      /\ SumFunction(f) - SumFunction(g) = f[k] - g[k]
  BY <1>1, <1>2, <1>5, SumChange
<1> QED BY <1>3, <1>4, <1>6

Offer == [kind : Failure, text : {<<>>}] \cup [kind : {"proposal"}, text : Texts]

Pending == [applied : {FALSE}, reason : Reason \cup {""}, delta : Int, err : BOOLEAN]

Decision == [applied : BOOLEAN, reason : Reason, delta : Int, err : BOOLEAN]

Saves(block, offer) == offer.kind = "proposal" /\ Tokens(offer.text) < Tokens(block.text)

\* A block that stays as it is was offered nothing that saves; one that is replaced was
\* replaced by the last offer, the only one that saves.
Unchanged(block, result, asked) ==
    /\ result = block
    /\ \A n \in DOMAIN asked : ~Saves(block, asked[n])

Replaced(block, result, asked) ==
    /\ asked # <<>>
    /\ Saves(block, asked[Len(asked)])
    /\ \A n \in DOMAIN asked : n # Len(asked) => ~Saves(block, asked[n])
    /\ result = [block EXCEPT !.text = asked[Len(asked)].text]

InvDetected ==
    /\ request \in Requests
    /\ compressors \in 0 .. MaxCompressors
    /\ pc \in {"detect", "apply", "done", "failed"}
    /\ pc \in {"detect", "failed"} => blocks = <<>> /\ out = <<>>
    /\ pc \in {"apply", "done"} => ~DetectFails(request) /\ blocks = DetectLiveZones(request)

InvTypes ==
    /\ DOMAIN out = DOMAIN blocks
    /\ i \in 1 .. Len(blocks) + 1
    /\ decision \in Pending
    /\ decisions \in Seq(Decision)
    /\ Len(decisions) = i - 1
    /\ stats \in [applied : Nat, skipped : Nat, delta : Int]
    /\ offers \in [DOMAIN blocks -> Seq(Offer)]

InvOffers ==
    \A k \in DOMAIN blocks :
        /\ k > i => offers[k] = <<>>
        /\ Len(offers[k]) <= compressors
        /\ offers[k] # <<>> => Live(blocks[k])

\* What is not decided yet is unchanged.
Chosen(k) == k < i /\ decisions[k].applied

InvSettled ==
    \A k \in DOMAIN blocks :
        /\ Chosen(k) => Replaced(blocks[k], out[k], offers[k])
        /\ ~Chosen(k) => Unchanged(blocks[k], out[k], offers[k])

InvAccount ==
    /\ stats.delta = Total(blocks) - Total(out)
    /\ stats.applied = Cardinality({k \in DOMAIN decisions : decisions[k].applied})
    /\ stats.applied + stats.skipped = i - 1

IInv == InvDetected /\ InvTypes /\ InvOffers /\ InvSettled /\ InvAccount

\* What the request says of its blocks.
LEMMA BlocksType ==
    ASSUME InvDetected
    PROVE  /\ blocks \in Seq(Cut(request))
           /\ \A k \in DOMAIN blocks : /\ blocks[k] \in Block
                                       /\ blocks[k].text \in Texts
                                       /\ NativeCompress(blocks[k]) \in Texts
<1>1. CASE pc \in {"detect", "failed"}
  <2>1. blocks = <<>>
    BY <1>1 DEF InvDetected
  <2>2. <<>> \in Seq(Cut(request)) /\ DOMAIN <<>> = {}
    OBVIOUS
  <2> QED BY <2>1, <2>2, Zenon
<1>2. CASE pc \in {"apply", "done"}
  <2>1. request \in Requests /\ ~DetectFails(request) /\ blocks = DetectLiveZones(request)
    BY <1>2 DEF InvDetected
  <2>2. request \in AnyRequest
    BY <2>1, CompressionAssumption
  <2>3. blocks \in Seq(Cut(request))
    BY <2>1, <2>2, Detected
  <2>4. \A k \in DOMAIN blocks : {blocks[k].text, NativeCompress(blocks[k])} \subseteq Texts
    BY <2>1, RequestsAssumption
  <2>5. \A k \in DOMAIN blocks : blocks[k] \in Cut(request)
    BY <2>3
  <2> QED BY <2>3, <2>4, <2>5 DEF Cut
<1> QED BY <1>1, <1>2 DEF InvDetected

\* The texts that come out have token counts.
LEMMA TokensKnown ==
    ASSUME IInv
    PROVE  /\ IsFiniteSet(DOMAIN blocks)
           /\ \A k \in DOMAIN blocks : /\ Tokens(blocks[k].text) \in Int
                                       /\ Tokens(out[k].text) \in Int
<1>1. \A k \in DOMAIN blocks : blocks[k] \in Block /\ blocks[k].text \in Texts
  BY BlocksType DEF IInv
<1>2. IsFiniteSet(DOMAIN blocks)
  <2>1. Len(blocks) \in Nat /\ DOMAIN blocks = 1 .. Len(blocks)
    BY BlocksType DEF IInv
  <2> QED BY <2>1, FS_Interval
<1>3. ASSUME NEW k \in DOMAIN blocks PROVE out[k].text \in Texts
  <2>1. CASE Unchanged(blocks[k], out[k], offers[k])
    BY <1>1, <2>1 DEF Unchanged
  <2>2. CASE Replaced(blocks[k], out[k], offers[k])
    <3> DEFINE f == offers[k]
    <3>1. f \in Seq(Offer) /\ f # <<>>
      BY <2>2 DEF IInv, InvTypes, Replaced
    <3> HIDE DEF f
    <3>2. f[Len(f)] \in Offer
      BY <3>1
    <3>3. f[Len(f)].kind = "proposal"
      BY <2>2 DEF Replaced, Saves, f
    <3>4. f[Len(f)].text \in Texts
      BY <3>2, <3>3 DEF Offer, Failure
    <3>5. blocks[k] \in Block /\ out[k] = [blocks[k] EXCEPT !.text = f[Len(f)].text]
      BY <1>1, <2>2 DEF Replaced, f
    <3> QED BY <3>4, <3>5 DEF Block
  <2> QED BY <2>1, <2>2 DEF IInv, InvSettled
<1> QED BY <1>1, <1>2, <1>3, CompressionAssumption

-----------------------------------------------------------------------------
(* Its preservation.                                                         *)

LEMMA FreshType == Fresh \in Pending
<1>1. FALSE \in {FALSE} /\ FALSE \in BOOLEAN /\ "" \in Reason \cup {""}
  BY Zenon
<1>2. 0 \in Int
  OBVIOUS
<1> QED BY <1>1, <1>2, Zenon DEF Fresh, Pending

\* A rejection says why, and what would have been saved.
LEMMA RejectionType ==
    ASSUME NEW d \in Pending, NEW reason \in Reason, NEW delta \in Int
    PROVE  [d EXCEPT !.reason = reason, !.delta = delta] \in Pending
BY DEF Pending

LEMMA InitInv == Init => IInv
<1> SUFFICES ASSUME Init PROVE IInv
  OBVIOUS
<1>1. /\ request \in Requests /\ compressors \in 0 .. MaxCompressors /\ pc = "detect"
      /\ blocks = <<>> /\ out = <<>> /\ offers = <<>> /\ i = 1 /\ decision = Fresh
      /\ decisions = <<>> /\ stats = [applied |-> 0, skipped |-> 0, delta |-> 0]
  BY DEF Init
<1>2. InvDetected
  BY <1>1 DEF InvDetected
<1>3. DOMAIN blocks = {} /\ DOMAIN out = {} /\ DOMAIN offers = {} /\ DOMAIN decisions = {}
  BY <1>1
<1>4. InvTypes
  <2>1. decision \in Pending
    BY <1>1, FreshType
  <2>2. stats \in [applied : Nat, skipped : Nat, delta : Int]
    BY <1>1
  <2>3. offers \in [DOMAIN blocks -> Seq(Offer)]
    BY <1>1, <1>3
  <2>4. /\ i \in 1 .. Len(blocks) + 1 /\ decisions \in Seq(Decision)
        /\ Len(decisions) = i - 1
    BY <1>1
  <2> QED BY <1>3, <2>1, <2>2, <2>3, <2>4 DEF InvTypes
<1>5. InvOffers /\ InvSettled
  BY <1>3 DEF InvOffers, InvSettled
<1>6. InvAccount
  <2>1. Total(blocks) \in Int /\ Total(blocks) = Total(out)
    <3>1. IsFiniteSet(DOMAIN blocks) /\ \A x \in DOMAIN blocks : Tokens(blocks[x].text) \in Int
      BY <1>3, FS_EmptySet
    <3> QED BY <1>1, <3>1, TotalInt, Zenon
  <2>2. {k \in DOMAIN decisions : decisions[k].applied} = {}
    BY <1>3
  <2>3. stats.applied = 0 /\ stats.skipped = 0 /\ stats.delta = 0
    BY <1>1
  <2> QED BY <1>1, <2>1, <2>2, <2>3, FS_EmptySet DEF InvAccount
<1> QED BY <1>2, <1>4, <1>5, <1>6 DEF IInv

LEMMA DetectInv ==
    ASSUME IInv, Detect
    PROVE  IInv'
<1>1. /\ pc = "detect" /\ ~DetectFails(request) /\ pc' = "apply"
      /\ blocks' = DetectLiveZones(request) /\ out' = blocks'
      /\ offers' = [k \in DOMAIN blocks' |-> <<>>]
      /\ request' = request /\ compressors' = compressors /\ i' = i /\ decision' = decision
      /\ decisions' = decisions /\ stats' = stats
  BY DEF Detect
<1>2. blocks = <<>> /\ i = 1 /\ Len(decisions) = 0
  BY <1>1 DEF IInv, InvDetected, InvTypes
<1>3. InvDetected'
  BY <1>1 DEF IInv, InvDetected
<1>4. /\ blocks' \in Seq(Cut(request'))
      /\ \A k \in DOMAIN blocks' : blocks'[k].text \in Texts
  <2>1. ASSUME InvDetected' PROVE /\ blocks' \in Seq(Cut(request'))
                                  /\ \A k \in DOMAIN blocks' : blocks'[k].text \in Texts
    <3>1. request' \in Requests /\ request' \in AnyRequest
      BY <1>3, CompressionAssumption DEF InvDetected
    <3>2. blocks' \in Seq(Cut(request'))
      BY <1>1, <3>1, Detected
    <3>3. \A k \in DOMAIN blocks' : {blocks'[k].text, NativeCompress(blocks'[k])} \subseteq Texts
      BY <1>1, <3>1, RequestsAssumption
    <3> QED BY <3>2, <3>3
  <2> QED BY <1>3, <2>1
<1>5. Len(blocks') \in Nat /\ DOMAIN blocks' = 1 .. Len(blocks')
  BY <1>4
<1>6. InvTypes'
  <2>1. offers' \in [DOMAIN blocks' -> Seq(Offer)]
    BY <1>1
  <2>2. i' \in 1 .. Len(blocks') + 1
    BY <1>1, <1>2, <1>5
  <2> QED BY <1>1, <2>1, <2>2 DEF IInv, InvTypes
<1>7. \A k \in DOMAIN blocks' : offers'[k] = <<>>
  BY <1>1
<1>8. InvOffers'
  BY <1>1, <1>7 DEF IInv, InvDetected, InvOffers
<1>9. ASSUME NEW k \in DOMAIN blocks'
      PROVE  ~Chosen(k)' /\ Unchanged(blocks[k], out[k], offers[k])'
  <2>1. k \in Nat /\ ~(k < 1)
    BY <1>5
  <2> QED BY <1>1, <1>2, <1>7, <2>1 DEF Chosen, Unchanged
<1>10. InvSettled'
  BY <1>9 DEF InvSettled
<1>11. InvAccount'
  <2>1. \A k \in DOMAIN blocks' : Tokens(blocks'[k].text) \in Int
    BY <1>4, CompressionAssumption
  <2>2. Total(blocks') \in Int
    <3>1. IsFiniteSet(DOMAIN blocks')
      BY <1>5, FS_Interval
    <3> QED BY <2>1, <3>1, TotalInt, Zenon
  <2>3. stats.delta = 0
    <3>1. blocks = out
      BY <1>1 DEF IInv, InvDetected
    <3>2. Total(blocks) \in Int
      BY TokensKnown, TotalInt, Zenon
    <3> QED BY <3>1, <3>2 DEF IInv, InvAccount
  <2> QED BY <1>1, <2>2, <2>3 DEF IInv, InvAccount
<1> QED BY <1>3, <1>6, <1>8, <1>10, <1>11 DEF IInv

\* Steps that leave the blocks and what is decided of them alone.
LEMMA QuietInv ==
    ASSUME IInv, pc' \in {"detect", "apply", "done", "failed"},
           pc' \in {"detect", "failed"} => pc \in {"detect", "failed"},
           pc' \in {"apply", "done"} => pc \in {"apply", "done"},
           UNCHANGED <<request, compressors, blocks, out, i, decision, decisions, stats, offers>>
    PROVE  IInv'
<1>1. InvDetected'
  BY DEF IInv, InvDetected
<1>2. InvTypes' /\ InvOffers'
  BY DEF IInv, InvTypes, InvOffers
<1>3. InvSettled'
  BY DEF IInv, InvSettled, Chosen
<1>4. InvAccount'
  BY DEF IInv, InvAccount
<1> QED BY <1>1, <1>2, <1>3, <1>4 DEF IInv

\* Where Apply stands.
LEMMA AtBlockFacts ==
    ASSUME IInv, AtBlock
    PROVE  /\ Len(blocks) \in Nat /\ DOMAIN blocks = 1 .. Len(blocks)
           /\ i \in DOMAIN blocks /\ i \in Nat /\ i >= 1 /\ i <= Len(blocks)
           /\ decisions \in Seq(Decision) /\ DOMAIN decisions = 1 .. (i - 1)
           /\ blocks[i] \in Block /\ Tokens(blocks[i].text) \in Int
           /\ out[i] = blocks[i]
           /\ \A n \in DOMAIN offers[i] : ~Saves(blocks[i], offers[i][n])
<1>1. Len(blocks) \in Nat /\ DOMAIN blocks = 1 .. Len(blocks) /\ i \in DOMAIN blocks
  BY BlocksType DEF IInv, AtBlock
<1>2. decisions \in Seq(Decision) /\ Len(decisions) = i - 1
  BY DEF IInv, InvTypes
<1>3. DOMAIN decisions = 1 .. (i - 1)
  BY <1>2
<1>4. blocks[i] \in Block /\ Tokens(blocks[i].text) \in Int
  BY <1>1, BlocksType, TokensKnown DEF IInv
<1>5. i \in Nat /\ i >= 1 /\ i <= Len(blocks)
  BY <1>1
<1>6. Unchanged(blocks[i], out[i], offers[i])
  BY <1>1, <1>5 DEF IInv, InvSettled, Chosen
<1> QED BY <1>1, <1>2, <1>3, <1>4, <1>5, <1>6 DEF Unchanged

\* The decision that is filed becomes the last one.
LEMMA FiledDecision ==
    ASSUME IInv, AtBlock, NEW d \in Decision, NextBlock(d)
    PROVE  /\ decisions' \in Seq(Decision) /\ i' = i + 1 /\ Len(decisions') = i
           /\ DOMAIN decisions' = 1 .. i /\ decisions'[i] = d
           /\ \A k \in 1 .. (i - 1) : decisions'[k] = decisions[k]
           /\ i' \in 1 .. Len(blocks) + 1 /\ decision' \in Pending
           /\ \A k \in DOMAIN blocks : k # i => (Chosen(k)' <=> Chosen(k))
<1>1. /\ Len(blocks) \in Nat /\ DOMAIN blocks = 1 .. Len(blocks)
      /\ i \in Nat /\ i >= 1 /\ i <= Len(blocks)
      /\ decisions \in Seq(Decision) /\ DOMAIN decisions = 1 .. (i - 1)
  BY AtBlockFacts
<1>2. decisions' = Append(decisions, d) /\ i' = i + 1 /\ decision' = Fresh
  BY DEF NextBlock
<1>3. Len(decisions) = i - 1
  BY DEF IInv, InvTypes
<1>4. /\ decisions' \in Seq(Decision) /\ Len(decisions') = i
      /\ DOMAIN decisions' = 1 .. i /\ decisions'[i] = d
      /\ \A k \in 1 .. (i - 1) : decisions'[k] = decisions[k]
  BY <1>1, <1>2, <1>3
<1>5. ASSUME NEW k \in DOMAIN blocks, k # i PROVE Chosen(k)' <=> Chosen(k)
  <2>1. k < i + 1 <=> k < i
    BY <1>1, <1>5
  <2>2. k < i => k \in 1 .. (i - 1)
    BY <1>1
  <2> QED BY <1>2, <1>4, <2>1, <2>2 DEF Chosen
<1>6. i' \in 1 .. Len(blocks) + 1
  BY <1>1, <1>2
<1> QED BY <1>2, <1>4, <1>5, <1>6, FreshType

\* A block that is left as it is.
LEMMA LeftInv ==
    ASSUME IInv, AtBlock, CountSkipped, NEW d \in Decision, d.applied = FALSE, NextBlock(d),
           UNCHANGED <<out, offers>>
    PROVE  IInv'
<1>1. /\ i \in Nat /\ i >= 1 /\ i <= Len(blocks) /\ DOMAIN decisions = 1 .. (i - 1)
      /\ Len(blocks) \in Nat /\ DOMAIN blocks = 1 .. Len(blocks)
  BY AtBlockFacts
<1>2. /\ decisions' \in Seq(Decision) /\ i' = i + 1 /\ Len(decisions') = i
      /\ DOMAIN decisions' = 1 .. i /\ decisions'[i] = d
      /\ \A k \in 1 .. (i - 1) : decisions'[k] = decisions[k]
      /\ i' \in 1 .. Len(blocks) + 1 /\ decision' \in Pending
  BY FiledDecision
<1>3. \A k \in DOMAIN blocks : k # i => (Chosen(k)' <=> Chosen(k))
  BY FiledDecision
<1>4. /\ request' = request /\ compressors' = compressors /\ pc' = pc /\ blocks' = blocks
      /\ out' = out /\ offers' = offers
  BY DEF NextBlock
<1>5. InvDetected'
  BY <1>4 DEF IInv, InvDetected
<1>6. /\ stats \in [applied : Nat, skipped : Nat, delta : Int]
      /\ stats' = [stats EXCEPT !.skipped = @ + 1]
  BY DEF CountSkipped, IInv, InvTypes
<1>7. /\ stats' \in [applied : Nat, skipped : Nat, delta : Int]
      /\ stats'.applied = stats.applied /\ stats'.delta = stats.delta
      /\ stats'.skipped = stats.skipped + 1
  BY <1>6
<1>8. InvTypes'
  BY <1>2, <1>4, <1>7 DEF IInv, InvTypes
<1>9. InvOffers'
  BY <1>1, <1>2, <1>4 DEF IInv, InvOffers
<1>10. ASSUME NEW k \in DOMAIN blocks PROVE Chosen(k)' <=> Chosen(k)
  <2>1. CASE k # i
    BY <1>3, <2>1
  <2>2. CASE k = i
    BY <1>1, <1>2, <2>2 DEF Chosen
  <2> QED BY <2>1, <2>2
<1>11. InvSettled'
  BY <1>4, <1>10 DEF IInv, InvSettled
<1>12. InvAccount'
  <2>1. {k \in DOMAIN decisions' : decisions'[k].applied}
          = {k \in DOMAIN decisions : decisions[k].applied}
    <3>1. \A k \in 1 .. i : k = i \/ k \in 1 .. (i - 1)
      BY <1>1
    <3>2. 1 .. (i - 1) \subseteq 1 .. i /\ i \notin 1 .. (i - 1)
      BY <1>1
    <3> QED BY <1>1, <1>2, <3>1, <3>2
  <2>2. stats'.applied + stats'.skipped = i' - 1
    BY <1>1, <1>2, <1>6, <1>7 DEF IInv, InvAccount
  <2> QED BY <1>4, <1>7, <2>1, <2>2 DEF IInv, InvAccount
<1> QED BY <1>5, <1>8, <1>9, <1>11, <1>12 DEF IInv

\* An answer is filed behind the others for the block.
LEMMA AskedFacts ==
    ASSUME IInv, NEW offer \in Offer, Ask(offer)
    PROVE  /\ AtBlock /\ Live(blocks[i])
           /\ offers' \in [DOMAIN blocks -> Seq(Offer)]
           /\ \A k \in DOMAIN blocks : k # i => offers'[k] = offers[k]
           /\ Len(offers'[i]) = Len(offers[i]) + 1 /\ Len(offers[i]) \in Nat
           /\ Len(offers'[i]) <= compressors
           /\ DOMAIN offers'[i] = 1 .. Len(offers'[i])
           /\ offers'[i][Len(offers'[i])] = offer
           /\ \A n \in DOMAIN offers'[i] : n # Len(offers'[i]) =>
                n \in DOMAIN offers[i] /\ offers'[i][n] = offers[i][n]
<1>1. AtBlock /\ Live(blocks[i]) /\ Len(offers[i]) < compressors
  BY DEF Ask
<1>2. /\ i \in DOMAIN blocks /\ offers \in [DOMAIN blocks -> Seq(Offer)]
      /\ offers' = [offers EXCEPT ![i] = Append(offers[i], offer)]
  BY <1>1 DEF Ask, AtBlock, IInv, InvTypes
<1> DEFINE f == offers[i]
           g == Append(f, offer)
<1>3. f \in Seq(Offer) /\ offers'[i] = g /\ \A k \in DOMAIN blocks : k # i => offers'[k] = offers[k]
  BY <1>2
<1>4. Len(f) < compressors
  BY <1>1
<1>5. compressors \in Nat
  BY CompressionAssumption DEF IInv, InvDetected
<1> HIDE DEF f
<1>6. g \in Seq(Offer) /\ Len(g) = Len(f) + 1 /\ Len(f) \in Nat /\ DOMAIN g = 1 .. Len(g)
      /\ g[Len(g)] = offer
      /\ \A n \in DOMAIN g : n # Len(g) => n \in DOMAIN f /\ g[n] = f[n]
  BY <1>3
<1> HIDE DEF g
<1>7. Len(g) <= compressors
  BY <1>4, <1>5, <1>6
<1>8. offers' \in [DOMAIN blocks -> Seq(Offer)]
  BY <1>2, <1>3, <1>6 DEF f, g
<1> QED BY <1>1, <1>3, <1>6, <1>7, <1>8 DEF f

LEMMA AskedOffers ==
    ASSUME IInv, NEW offer \in Offer, Ask(offer), i' \in {i, i + 1},
           UNCHANGED <<compressors, blocks>>
    PROVE  InvOffers'
<1>1. /\ AtBlock /\ Live(blocks[i]) /\ Len(offers'[i]) <= compressors
      /\ \A k \in DOMAIN blocks : k # i => offers'[k] = offers[k]
  BY AskedFacts
<1>2. i \in Nat /\ DOMAIN blocks \subseteq Nat
  BY <1>1, AtBlockFacts
<1> SUFFICES ASSUME NEW k \in DOMAIN blocks
             PROVE  /\ k > i' => offers'[k] = <<>>
                    /\ Len(offers'[k]) <= compressors
                    /\ offers'[k] # <<>> => Live(blocks[k])
  BY DEF InvOffers
<1>3. CASE k = i
  BY <1>1, <1>2, <1>3
<1>4. CASE k # i
  <2>1. k > i' => k > i
    BY <1>2
  <2> QED BY <1>1, <1>4, <2>1 DEF IInv, InvOffers
<1> QED BY <1>3, <1>4

\* An answer that saves nothing, or a failure.
LEMMA RejectedInv ==
    ASSUME IInv, NEW offer \in Offer, Ask(offer), ~Saves(blocks[i], offer),
           NEW d \in Pending, Rejected(d)
    PROVE  IInv'
<1>1. /\ AtBlock /\ offers' \in [DOMAIN blocks -> Seq(Offer)]
      /\ \A k \in DOMAIN blocks : k # i => offers'[k] = offers[k]
      /\ offers'[i][Len(offers'[i])] = offer
      /\ \A n \in DOMAIN offers'[i] : n # Len(offers'[i]) =>
                n \in DOMAIN offers[i] /\ offers'[i][n] = offers[i][n]
  BY AskedFacts
<1>2. /\ decision' = d /\ request' = request /\ compressors' = compressors /\ pc' = pc
      /\ blocks' = blocks /\ out' = out /\ i' = i /\ decisions' = decisions /\ stats' = stats
  BY DEF Rejected
<1>3. InvDetected' /\ InvTypes'
  BY <1>1, <1>2 DEF IInv, InvDetected, InvTypes
<1>4. InvOffers'
  BY <1>2, AskedOffers
<1>5. ASSUME NEW k \in DOMAIN blocks
      PROVE  /\ Chosen(k)' => Replaced(blocks[k], out[k], offers'[k])
             /\ ~Chosen(k)' => Unchanged(blocks[k], out[k], offers'[k])
  <2>0. Chosen(k)' <=> Chosen(k)
    BY <1>2 DEF Chosen
  <2>1. CASE k # i
    BY <1>1, <2>0, <2>1 DEF IInv, InvSettled
  <2>2. CASE k = i
    <3>1. ~Chosen(k)
      BY <1>1, <2>2, AtBlockFacts DEF Chosen
    <3>2. out[i] = blocks[i] /\ \A n \in DOMAIN offers[i] : ~Saves(blocks[i], offers[i][n])
      BY <1>1, AtBlockFacts
    <3>3. \A n \in DOMAIN offers'[i] : ~Saves(blocks[i], offers'[i][n])
      BY <1>1, <3>2
    <3> QED BY <2>0, <2>2, <3>1, <3>2, <3>3 DEF Unchanged
  <2> QED BY <2>1, <2>2
<1>6. InvSettled'
  BY <1>2, <1>5 DEF InvSettled
<1>7. InvAccount'
  BY <1>2 DEF IInv, InvAccount
<1> QED BY <1>3, <1>4, <1>6, <1>7 DEF IInv

Counted(s, saved) == [s EXCEPT !.applied = @ + 1, !.delta = @ + saved]

Tally(s, t, saved) ==
    /\ t \in [applied : Nat, skipped : Nat, delta : Int]
    /\ t.applied = s.applied + 1 /\ t.delta = s.delta + saved /\ t.skipped = s.skipped
    /\ \A n \in Nat : s.applied + s.skipped = n - 1 => t.applied + t.skipped = (n + 1) - 1

LEMMA StatsApplied ==
    ASSUME NEW s \in [applied : Nat, skipped : Nat, delta : Int], NEW saved \in Int,
           NEW t, t = Counted(s, saved)
    PROVE  Tally(s, t, saved)
<1> DEFINE a == s.applied + 1
           b == s.delta + saved
<1>1. s.applied \in Nat /\ s.skipped \in Nat /\ s.delta \in Int
  OBVIOUS
<1>2. a \in Nat /\ b \in Int
  BY <1>1
<1>3. t = [s EXCEPT !.applied = a, !.delta = b]
  BY DEF Counted
<1> HIDE DEF a, b
<1>4. t \in [applied : Nat, skipped : Nat, delta : Int]
  BY <1>2, <1>3
<1>5. t.applied = a /\ t.delta = b /\ t.skipped = s.skipped
  BY <1>3
<1>6. \A n \in Nat : s.applied + s.skipped = n - 1 => a + s.skipped = (n + 1) - 1
  BY <1>1 DEF a
<1> QED BY <1>4, <1>5, <1>6 DEF a, b, Tally

\* A proposal that saves is applied.
LEMMA AppliedInv ==
    ASSUME IInv, NEW text \in Texts, ApplyProposal(text)
    PROVE  IInv'
<1> DEFINE offer == [kind |-> "proposal", text |-> text]
           d == [decision EXCEPT !.applied = TRUE, !.reason = "applied", !.delta = Savings(text)]
           after == [blocks[i] EXCEPT !.text = text]
<1>1. /\ Savings(text) > 0 /\ Ask(offer) /\ out' = [out EXCEPT ![i].text = text]
      /\ stats' = [stats EXCEPT !.applied = @ + 1, !.delta = @ + Savings(text)]
      /\ NextBlock(d)
  BY DEF ApplyProposal
<1>2. offer \in Offer /\ offer.kind = "proposal" /\ offer.text = text
  BY DEF Offer
<1> HIDE DEF offer
<1>3. /\ AtBlock /\ offers' \in [DOMAIN blocks -> Seq(Offer)]
      /\ \A k \in DOMAIN blocks : k # i => offers'[k] = offers[k]
      /\ Len(offers'[i]) = Len(offers[i]) + 1 /\ Len(offers[i]) \in Nat
      /\ offers'[i][Len(offers'[i])] = offer
      /\ \A n \in DOMAIN offers'[i] : n # Len(offers'[i]) =>
                n \in DOMAIN offers[i] /\ offers'[i][n] = offers[i][n]
  BY <1>1, <1>2, AskedFacts
<1>4. /\ i \in DOMAIN blocks /\ i \in Nat /\ i >= 1 /\ i <= Len(blocks) /\ DOMAIN decisions = 1 .. (i - 1)
      /\ Len(blocks) \in Nat /\ DOMAIN blocks = 1 .. Len(blocks)
      /\ blocks[i] \in Block /\ Tokens(blocks[i].text) \in Int /\ out[i] = blocks[i]
      /\ \A n \in DOMAIN offers[i] : ~Saves(blocks[i], offers[i][n])
  BY <1>3, AtBlockFacts
<1>5. /\ Tokens(text) \in Int /\ Savings(text) = Tokens(blocks[i].text) - Tokens(text)
      /\ Savings(text) \in Int /\ Tokens(text) < Tokens(blocks[i].text)
  BY <1>1, <1>4, CompressionAssumption DEF Savings
<1>6. d \in Decision /\ d.applied = TRUE
  <2>1. decision \in Pending /\ "applied" \in Reason
    BY DEF IInv, InvTypes, Reason
  <2> QED BY <1>5, <2>1 DEF Pending, Decision
<1> HIDE DEF d
<1>7. /\ decisions' \in Seq(Decision) /\ i' = i + 1 /\ Len(decisions') = i
      /\ DOMAIN decisions' = 1 .. i /\ decisions'[i] = d
      /\ \A k \in 1 .. (i - 1) : decisions'[k] = decisions[k]
      /\ i' \in 1 .. Len(blocks) + 1 /\ decision' \in Pending
  BY <1>1, <1>3, <1>6, FiledDecision
<1>8. \A k \in DOMAIN blocks : k # i => (Chosen(k)' <=> Chosen(k))
  BY <1>1, <1>3, <1>6, FiledDecision
<1>9. request' = request /\ compressors' = compressors /\ pc' = pc /\ blocks' = blocks
  BY <1>1 DEF NextBlock
<1>10. DOMAIN out = DOMAIN blocks
  BY DEF IInv, InvTypes
<1>11. /\ DOMAIN out' = DOMAIN blocks /\ out'[i] = after
       /\ \A k \in DOMAIN blocks : k # i => out'[k] = out[k]
  BY <1>1, <1>4, <1>10
<1>12. InvDetected'
  BY <1>3, <1>9 DEF IInv, InvDetected, AtBlock
<1>13. /\ stats \in [applied : Nat, skipped : Nat, delta : Int]
       /\ stats' \in [applied : Nat, skipped : Nat, delta : Int]
       /\ stats'.applied = stats.applied + 1 /\ stats'.delta = stats.delta + Savings(text)
       /\ stats'.skipped = stats.skipped
       /\ \A n \in Nat : stats.applied + stats.skipped = n - 1
                            => stats'.applied + stats'.skipped = (n + 1) - 1
  <2>1. stats \in [applied : Nat, skipped : Nat, delta : Int]
    BY DEF IInv, InvTypes
  <2> DEFINE saved == Savings(text)
  <2>2. saved \in Int /\ stats' = Counted(stats, saved)
    BY <1>1, <1>5 DEF Counted
  <2> HIDE DEF saved
  <2>3. Tally(stats, stats', saved)
    BY <2>1, <2>2, StatsApplied
  <2> QED BY <2>1, <2>3, Zenon DEF saved, Tally
<1>14. InvTypes'
  BY <1>3, <1>7, <1>9, <1>11, <1>13 DEF InvTypes
<1>15. InvOffers'
  BY <1>1, <1>2, <1>7, <1>9, AskedOffers
<1>16. after.text = text
  BY <1>4 DEF Block
<1>17. ASSUME NEW k \in DOMAIN blocks
       PROVE  /\ Chosen(k)' => Replaced(blocks[k], out'[k], offers'[k])
              /\ ~Chosen(k)' => Unchanged(blocks[k], out'[k], offers'[k])
  <2>1. CASE k # i
    BY <1>3, <1>8, <1>11, <2>1 DEF IInv, InvSettled
  <2>2. CASE k = i
    <3>1. Chosen(k)'
      BY <1>4, <1>6, <1>7, <2>2 DEF Chosen
    <3>2. offers'[i] # <<>>
      <4>1. Len(offers'[i]) # 0
        BY <1>3
      <4> QED BY <4>1
    <3>3. Saves(blocks[i], offers'[i][Len(offers'[i])])
      BY <1>2, <1>3, <1>5 DEF Saves
    <3>4. \A n \in DOMAIN offers'[i] : n # Len(offers'[i]) => ~Saves(blocks[i], offers'[i][n])
      BY <1>3, <1>4
    <3>5. out'[i] = [blocks[i] EXCEPT !.text = offers'[i][Len(offers'[i])].text]
      BY <1>2, <1>3, <1>11
    <3> QED BY <2>2, <3>1, <3>2, <3>3, <3>4, <3>5 DEF Replaced
  <2> QED BY <2>1, <2>2
<1>18. InvSettled'
  BY <1>9, <1>17 DEF InvSettled
<1>19. InvAccount'
  <2> DEFINE A == {k \in DOMAIN decisions : decisions[k].applied}
             B == {k \in DOMAIN decisions' : decisions'[k].applied}
  <2>1. B = A \cup {i} /\ i \notin A /\ A \subseteq 1 .. (i - 1)
    <3>1. \A k \in 1 .. i : k = i \/ k \in 1 .. (i - 1)
      BY <1>4
    <3>2. 1 .. (i - 1) \subseteq 1 .. i /\ i \notin 1 .. (i - 1) /\ i \in 1 .. i
      BY <1>4
    <3> QED BY <1>4, <1>6, <1>7, <3>1, <3>2
  <2> HIDE DEF A, B
  <2>2. IsFiniteSet(A)
    <3>1. IsFiniteSet(1 .. (i - 1))
      BY <1>4, FS_Interval
    <3> QED BY <2>1, <3>1, FS_Subset
  <2>3. Cardinality(B) = Cardinality(A) + 1
    BY <2>1, <2>2, FS_AddElement
  <2>4. stats'.applied = Cardinality(B)
    BY <1>13, <2>3 DEF IInv, InvAccount, A
  <2>5. stats'.applied + stats'.skipped = i' - 1
    <3>1. stats.applied + stats.skipped = i - 1
      BY DEF IInv, InvAccount
    <3> QED BY <1>4, <1>7, <1>13, <3>1, Zenon
  <2>6. /\ IsFiniteSet(DOMAIN blocks)
        /\ \A k \in DOMAIN blocks : Tokens(blocks[k].text) \in Int
        /\ \A k \in DOMAIN blocks : Tokens(out[k].text) \in Int
    BY TokensKnown
  <2>7. \A k \in DOMAIN blocks : Tokens(out'[k].text) \in Int
    <3> SUFFICES ASSUME NEW k \in DOMAIN blocks PROVE Tokens(out'[k].text) \in Int
      OBVIOUS
    <3>1. CASE k = i
      BY <1>5, <1>11, <1>16, <3>1
    <3>2. CASE k # i
      BY <1>11, <2>6, <3>2
    <3> QED BY <3>1, <3>2
  <2>8. \A k \in DOMAIN blocks \ {i} : out[k] = out'[k]
    BY <1>11
  <2>9. /\ Total(out) \in Int /\ Total(out') \in Int
        /\ Total(out) - Total(out') = Tokens(out[i].text) - Tokens(out'[i].text)
    <3>1. /\ DOMAIN out' = DOMAIN out /\ i \in DOMAIN out /\ IsFiniteSet(DOMAIN out)
          /\ \A k \in DOMAIN out : Tokens(out[k].text) \in Int
          /\ \A k \in DOMAIN out : Tokens(out'[k].text) \in Int
          /\ \A k \in DOMAIN out \ {i} : out[k] = out'[k]
      BY <1>4, <1>10, <1>11, <2>6, <2>7, <2>8
    <3> QED BY <3>1, TotalChange, Zenon
  <2>10. Tokens(out[i].text) = Tokens(blocks[i].text) /\ Tokens(out'[i].text) = Tokens(text)
    BY <1>4, <1>11, <1>16
  <2>11. Total(blocks) \in Int
    BY <2>6, TotalInt, Zenon
  <2>12. stats.delta = Total(blocks) - Total(out)
    BY DEF IInv, InvAccount
  <2>13. stats'.delta = Total(blocks) - Total(out')
    BY <1>5, <1>13, <2>9, <2>10, <2>11, <2>12
  <2> QED BY <1>9, <2>4, <2>5, <2>13 DEF InvAccount, B
<1> QED BY <1>12, <1>14, <1>15, <1>18, <1>19 DEF IInv

\* Every step preserves the invariant.
LEMMA StepInv == IInv /\ [Next]_vars => IInv'
<1> SUFFICES ASSUME IInv, [Next]_vars PROVE IInv'
  OBVIOUS
<1>1. CASE Detect
  BY <1>1, DetectInv
<1>2. CASE DetectError
  BY <1>2, QuietInv DEF DetectError
<1>3. CASE SkipProtected
  <2> DEFINE d == [Fresh EXCEPT !.reason = "not_selected"]
  <2>1. Fresh \in Pending /\ "not_selected" \in Reason
    BY FreshType DEF Reason
  <2>2. d \in Decision /\ d.applied = FALSE
    BY <2>1 DEF Pending, Decision
  <2>3. AtBlock /\ CountSkipped /\ NextBlock(d) /\ UNCHANGED <<out, offers>>
    BY <1>3 DEF SkipProtected
  <2> HIDE DEF d
  <2> QED BY <2>2, <2>3, LeftInv
<1>4. ASSUME NEW kind \in {"error", "uncountable"}, CompressorError(kind) PROVE IInv'
  <2> DEFINE offer == [kind |-> kind, text |-> <<>>]
             d == [decision EXCEPT !.reason = "compressor_error", !.err = TRUE]
  <2>1. decision \in Pending /\ "compressor_error" \in Reason
    BY DEF IInv, InvTypes, Reason
  <2>2. d \in Pending
    BY <2>1 DEF Pending
  <2>3. offer \in Offer /\ offer.kind # "proposal"
    BY DEF Offer, Failure
  <2>4. Ask(offer) /\ Rejected(d)
    BY <1>4 DEF CompressorError
  <2> HIDE DEF d, offer
  <2>5. ~Saves(blocks[i], offer)
    BY <2>3 DEF Saves
  <2> QED BY <2>2, <2>3, <2>4, <2>5, RejectedInv
<1>5. CASE InvalidUTF8
  <2> DEFINE offer == [kind |-> "invalid_utf8", text |-> <<>>]
             d == [decision EXCEPT !.reason = "invalid_utf8", !.delta = 0]
  <2>1. decision \in Pending /\ "invalid_utf8" \in Reason
    BY DEF IInv, InvTypes, Reason
  <2>2. d \in Pending
    <3>1. 0 \in Int
      OBVIOUS
    <3> QED BY <2>1, <3>1, RejectionType, Zenon
  <2>3. offer \in Offer /\ offer.kind # "proposal"
    BY DEF Offer, Failure
  <2>4. Ask(offer) /\ Rejected(d)
    BY <1>5 DEF InvalidUTF8
  <2> HIDE DEF d, offer
  <2>5. ~Saves(blocks[i], offer)
    BY <2>3 DEF Saves
  <2> QED BY <2>2, <2>3, <2>4, <2>5, RejectedInv
<1>6. ASSUME AtBlock, NEW text \in Proposals \cup {NativeCompress(blocks[i])},
             NoSavings(text) \/ ApplyProposal(text)
      PROVE  IInv'
  <2>1. text \in Texts
    <3>1. NativeCompress(blocks[i]) \in Texts
      BY <1>6, BlocksType DEF IInv, AtBlock
    <3>2. Proposals \subseteq Texts
      BY CompressionAssumption
    <3> QED BY <3>1, <3>2
  <2>2. CASE ApplyProposal(text)
    BY <2>1, <2>2, AppliedInv
  <2>3. CASE NoSavings(text)
    <3> DEFINE offer == [kind |-> "proposal", text |-> text]
               saved == Savings(text)
               d == [decision EXCEPT !.reason = "no_savings", !.delta = saved]
    <3>1. decision \in Pending /\ "no_savings" \in Reason
      BY DEF IInv, InvTypes, Reason
    <3>2. Tokens(blocks[i].text) \in Int /\ Tokens(text) \in Int
      BY <1>6, <2>1, AtBlockFacts, CompressionAssumption
    <3>3. saved \in Int /\ saved = Tokens(blocks[i].text) - Tokens(text) /\ saved <= 0
      BY <2>3, <3>2 DEF NoSavings, Savings
    <3>4. Ask(offer) /\ Rejected(d)
      BY <2>3 DEF NoSavings
    <3>5. offer \in Offer /\ offer.text = text
      BY <2>1 DEF Offer
    <3> HIDE DEF saved, offer
    <3>6. d \in Pending
      BY <3>1, <3>3, RejectionType, Zenon
    <3> HIDE DEF d
    <3>7. ~Saves(blocks[i], offer)
      BY <3>2, <3>3, <3>5 DEF Saves
    <3> QED BY <3>4, <3>5, <3>6, <3>7, RejectedInv
  <2> QED BY <1>6, <2>2, <2>3
<1>7. CASE GiveUp
  <2> DEFINE d == IF decision.reason = ""
                  THEN [decision EXCEPT !.reason = "compressor_error", !.err = TRUE]
                  ELSE decision
  <2>1. decision \in Pending /\ "compressor_error" \in Reason
    BY DEF IInv, InvTypes, Reason
  <2>2. d \in Decision /\ d.applied = FALSE
    <3>1. CASE decision.reason = ""
      BY <2>1, <3>1 DEF Pending, Decision
    <3>2. CASE decision.reason # ""
      BY <2>1, <3>2 DEF Pending, Decision
    <3> QED BY <3>1, <3>2
  <2>3. AtBlock /\ CountSkipped /\ NextBlock(d) /\ UNCHANGED <<out, offers>>
    BY <1>7 DEF GiveUp
  <2> HIDE DEF d
  <2> QED BY <2>2, <2>3, LeftInv
<1>8. CASE Finish
  BY <1>8, QuietInv DEF Finish
<1>9. CASE UNCHANGED vars
  <2>1. UNCHANGED <<request, compressors, pc, blocks, out, i, decision, decisions, stats, offers>>
    BY <1>9 DEF vars
  <2>2. pc \in {"detect", "apply", "done", "failed"}
    BY DEF IInv, InvDetected
  <2> QED BY <2>1, <2>2, QuietInv
<1> QED BY <1>1, <1>2, <1>3, <1>4, <1>5, <1>6, <1>7, <1>8, <1>9 DEF Next

LEMMA CompressionInv == Spec => []IInv
<1>1. IInv /\ [Next]_vars => IInv'
  BY StepInv
<1> QED BY InitInv, <1>1, PTL DEF Spec

-----------------------------------------------------------------------------
(* What it means.                                                            *)

\* Apply keeps its results, decisions and statistics well formed (pipeline.go).
THEOREM CompressionTyped == Spec => []TypeOK
<1>1. IInv => TypeOK
  <2> SUFFICES ASSUME IInv PROVE TypeOK
    OBVIOUS
  <2>1. request.provider \in {"openai", "anthropic"}
    <3>1. request \in AnyRequest
      BY CompressionAssumption DEF IInv, InvDetected
    <3> QED BY <3>1 DEF AnyRequest
  <2>2. ASSUME NEW k \in DOMAIN offers, NEW n \in DOMAIN offers[k]
        PROVE  offers[k][n].kind \in Answer
    <3>1. offers[k] \in Seq(Offer)
      BY DEF IInv, InvTypes
    <3> DEFINE f == offers[k]
    <3> HIDE DEF f
    <3>2. f[n] \in Offer
      BY <3>1 DEF f
    <3>3. f[n].kind \in Answer
      BY <3>2 DEF Offer, Answer, Failure
    <3> QED BY <3>3 DEF f
  <2>3. DOMAIN offers = DOMAIN blocks
    BY DEF IInv, InvTypes
  <2>4. \A k \in DOMAIN offers : Len(offers[k]) <= compressors
    BY <2>3 DEF IInv, InvOffers
  <2>5. /\ DOMAIN out = DOMAIN blocks /\ i \in 1 .. Len(blocks) + 1
        /\ decision \in [applied : {FALSE}, reason : Reason \cup {""}, delta : Int, err : BOOLEAN]
        /\ decisions \in Seq([applied : BOOLEAN, reason : Reason, delta : Int, err : BOOLEAN])
        /\ stats \in [applied : Nat, skipped : Nat, delta : Int]
    BY Zenon DEF IInv, InvTypes, Pending, Decision
  <2>6. /\ compressors \in 0 .. MaxCompressors
        /\ pc \in {"detect", "apply", "done", "failed"}
    BY DEF IInv, InvDetected
  <2> QED BY <2>1, <2>2, <2>3, <2>4, <2>5, <2>6, Zenon DEF TypeOK
<1> QED BY CompressionInv, <1>1, PTL

\* For every request and every compressor: only a tool's output is shown to a
\* compressor or changed (classifySource, detectAnthropic, Apply).
THEOREM CompressionHotZonesSafe == Spec => []HotZonesSafe
<1>1. IInv => HotZonesSafe
  <2> SUFFICES ASSUME IInv, NEW k \in DOMAIN blocks, out[k] # blocks[k] \/ offers[k] # <<>>
               PROVE  FromTool(blocks[k])
    BY DEF HotZonesSafe
  <2>1. offers[k] # <<>>
    BY DEF IInv, InvSettled, Unchanged, Replaced
  <2>2. Live(blocks[k])
    BY <2>1 DEF IInv, InvOffers
  <2>3. blocks[k] \in Cut(request)
    BY BlocksType DEF IInv
  <2>4. ToolOutput(request, blocks[k].path)
    BY <2>2, <2>3 DEF Cut, Live
  <2> QED BY <2>4 DEF ToolOutput, FromTool
<1> QED BY CompressionInv, <1>1, PTL

\* The path of a live block of an Anthropic request leads back to its text, for every
\* request (detectAnthropic).
LEMMA CompressionPathLeads == Spec => []PathLeadsToText
<1>1. IInv => PathLeadsToText
  <2> SUFFICES ASSUME IInv, NEW k \in DOMAIN blocks, Live(blocks[k]),
                      request.provider = "anthropic"
               PROVE  LeadsTo(request, blocks[k].path, blocks[k].text)
    BY DEF PathLeadsToText, LeadsTo
  <2>1. blocks[k] \in Cut(request)
    BY BlocksType DEF IInv
  <2> QED BY <2>1 DEF Cut, Live
<1> QED BY CompressionInv, <1>1, PTL

\* Detection misses no text of any request and repeats none, and the path of a live block
\* of an Anthropic request leads back to its text (livezone.go, DetectLiveZones).
THEOREM CompressionDetectionExact == Spec => []DetectionExact
<1>1. IInv => AllTextSeen
  <2> SUFFICES ASSUME IInv, pc \in {"apply", "done"}, NEW text
               PROVE  Cardinality({k \in {n \in DOMAIN blocks : blocks[n].path.message # 0} :
                                        blocks[k].text = text})
                        = Cardinality({o \in {p \in Occurrences : p.text # <<>>} : o.text = text})
    BY DEF AllTextSeen
  <2> DEFINE seen == {n \in DOMAIN blocks : blocks[n].path.message # 0}
             tx == SeenTexts(blocks)
  <2>1. request \in Requests /\ ~DetectFails(request) /\ blocks = DetectLiveZones(request)
    BY DEF IInv, InvDetected
  <2>2. request \in AnyRequest
    BY <2>1, CompressionAssumption
  <2>3. Paired(tx, AllSpoken(request))
    BY <2>1, <2>2, DetectedPaired
  <2>4. DOMAIN tx = seen /\ \A k \in seen : tx[k] = blocks[k].text
    BY DEF SeenTexts
  <2>5. IsFiniteSet(DOMAIN tx)
    <3>1. IsFiniteSet(DOMAIN blocks)
      BY TokensKnown
    <3>2. seen \in SUBSET DOMAIN blocks
      OBVIOUS
    <3> QED BY <2>4, <3>1, <3>2, FS_Subset
  <2>6. Occurrences = UNION {Standing(request, m) : m \in DOMAIN request.messages}
    BY DEF Occurrences, Standing, Placed, TextsAt, WordsOf, PartText
  <2>7. AllSpoken(request) = {p \in Occurrences : p.text # <<>>}
    BY <2>6 DEF AllSpoken, Spoken
  <2> HIDE DEF tx, seen
  <2>8. Cardinality({k \in DOMAIN tx : tx[k] = text})
          = Cardinality({o \in AllSpoken(request) : o.text = text})
    BY <2>3, <2>5, PairedCount
  <2>9. {k \in DOMAIN tx : tx[k] = text} = {k \in seen : blocks[k].text = text}
    BY <2>4
  <2> QED BY <2>7, <2>8, <2>9 DEF seen
<1>2. Spec => []PathLeadsToText
  BY CompressionPathLeads
<1> QED BY <1>1, <1>2, CompressionInv, PTL DEF DetectionExact

\* The first proposal that saves tokens is applied, and none is asked for after it; a
\* block without one keeps its text (Apply, evaluateProposal).
THEOREM CompressionFirstSavingWins == Spec => []FirstSavingWins
<1>1. IInv => FirstSavingWins
  <2> SUFFICES ASSUME IInv, NEW k \in DOMAIN blocks
               PROVE  LET saving == {n \in DOMAIN offers[k] :
                                        /\ offers[k][n].kind = "proposal"
                                        /\ Tokens(offers[k][n].text) < Tokens(blocks[k].text)}
                          text == IF saving = {} THEN blocks[k].text
                                  ELSE offers[k][Len(offers[k])].text
                      IN /\ saving \subseteq {Len(offers[k])}
                         /\ out[k] = [blocks[k] EXCEPT !.text = text]
    BY DEF FirstSavingWins
  <2> DEFINE f == offers[k]
             saving == {n \in DOMAIN f : Saves(blocks[k], f[n])}
             text == IF saving = {} THEN blocks[k].text ELSE f[Len(f)].text
  <2>1. f \in Seq(Offer) /\ blocks[k] \in Block
    BY BlocksType DEF IInv, InvTypes
  <2>2. saving \subseteq {Len(f)} /\ out[k] = [blocks[k] EXCEPT !.text = text]
    <3>1. CASE Unchanged(blocks[k], out[k], f)
      <4>1. saving = {} /\ text = blocks[k].text /\ out[k] = blocks[k]
        BY <3>1 DEF Unchanged
      <4>2. blocks[k] = [blocks[k] EXCEPT !.text = blocks[k].text]
        BY <2>1 DEF Block
      <4> QED BY <4>1, <4>2
    <3>2. CASE Replaced(blocks[k], out[k], f)
      <4> HIDE DEF f
      <4>1. Len(f) \in DOMAIN f
        BY <2>1, <3>2 DEF Replaced
      <4>2. saving = {Len(f)}
        BY <3>2, <4>1 DEF Replaced
      <4>3. text = f[Len(f)].text
        BY <4>2
      <4> QED BY <3>2, <4>2, <4>3 DEF Replaced
    <3> QED BY <3>1, <3>2 DEF IInv, InvSettled
  <2> QED BY <2>2 DEF Saves
<1> QED BY CompressionInv, <1>1, PTL

\* TokenDelta is what the whole request lost, and every block is counted once, as its
\* decision says (Apply).
THEOREM CompressionStatsAccount == Spec => []StatsAccount
<1>1. IInv => StatsAccount
  <2> SUFFICES ASSUME IInv PROVE StatsAccount
    OBVIOUS
  <2> DEFINE after == [k \in DOMAIN blocks |-> Tokens(out[k].text)]
  <2>1. Total(out) = SumFunction(after)
    BY DEF Total, IInv, InvTypes
  <2>2. stats.delta = SumFunction([k \in DOMAIN blocks |-> Tokens(blocks[k].text)]) - SumFunction(after)
    BY <2>1 DEF IInv, InvAccount, Total
  <2>3. ASSUME NEW k \in DOMAIN decisions
        PROVE  decisions[k].applied <=> out[k].text # blocks[k].text
    <3>1. Len(blocks) \in Nat /\ DOMAIN blocks = 1 .. Len(blocks)
      BY BlocksType DEF IInv
    <3>2. DOMAIN decisions = 1 .. (i - 1) /\ i \in 1 .. Len(blocks) + 1 /\ decisions[k] \in Decision
      BY DEF IInv, InvTypes
    <3>3. k \in DOMAIN blocks /\ k < i
      BY <3>1, <3>2
    <3>4. decisions[k].applied \in BOOLEAN
      BY <3>2 DEF Decision
    <3>5. CASE Chosen(k)
      <4>1. Replaced(blocks[k], out[k], offers[k])
        BY <3>3, <3>5 DEF IInv, InvSettled
      <4>2. blocks[k] \in Block /\ Tokens(blocks[k].text) \in Int
        BY <3>3, BlocksType, TokensKnown DEF IInv
      <4>3. out[k].text = offers[k][Len(offers[k])].text
        BY <4>1, <4>2 DEF Replaced, Block
      <4>4. Tokens(out[k].text) < Tokens(blocks[k].text)
        BY <4>1, <4>3 DEF Replaced, Saves
      <4>5. out[k].text # blocks[k].text
        BY <4>2, <4>4
      <4> QED BY <3>5, <4>5 DEF Chosen
    <3>6. CASE ~Chosen(k)
      <4>1. out[k] = blocks[k]
        BY <3>3, <3>6 DEF IInv, InvSettled, Unchanged
      <4> QED BY <3>3, <3>6, <4>1 DEF Chosen
    <3> QED BY <3>5, <3>6
  <2> QED BY <2>2, <2>3 DEF StatsAccount, IInv, InvAccount
<1> QED BY CompressionInv, <1>1, PTL

-----------------------------------------------------------------------------
(* Putting back what a marker stands for.                                    *)

Markings(marker) == {marker[n] : n \in DOMAIN marker}

CountOf(item, marker) == CHOOSE n \in DOMAIN marker : marker[n] = item

\* One marker for each number.
Marking(marker, S) ==
    /\ Len(marker) \in Nat /\ DOMAIN marker = 1 .. Len(marker)
    /\ \A n \in DOMAIN marker : marker[n] \in S
    /\ \A m, n \in DOMAIN marker : marker[m] = marker[n] => m = n

Piece(items, marker, n) ==
    IF items[n] \in Markings(marker) THEN [k \in 1 .. CountOf(items[n], marker) |-> items[n - 1]]
    ELSE <<items[n]>>

Pieces(items, marker) == [n \in DOMAIN items |-> Piece(items, marker, n)]

\* No marker begins the items.
Led(items, marker) == \A n \in DOMAIN items : items[n] \in Markings(marker) => n > 1

LEMMA CountOfMarker ==
    ASSUME NEW S, NEW marker, Marking(marker, S), NEW item \in Markings(marker)
    PROVE  /\ CountOf(item, marker) \in 1 .. Len(marker)
           /\ marker[CountOf(item, marker)] = item
           /\ \A c \in DOMAIN marker : marker[c] = item => CountOf(item, marker) = c
<1>1. \E n \in DOMAIN marker : marker[n] = item
  BY DEF Markings
<1>2. CountOf(item, marker) \in DOMAIN marker /\ marker[CountOf(item, marker)] = item
  BY <1>1 DEF CountOf
<1> QED BY <1>2 DEF Marking

LEMMA PutBackPieces ==
    ASSUME NEW items, NEW marker
    PROVE  PutBack(items, marker) = FlattenSeq(Pieces(items, marker))
<1>1. \A item : (\E n \in DOMAIN marker : marker[n] = item) <=> item \in Markings(marker)
  BY DEF Markings
<1>2. Pieces(items, marker)
        = [n \in DOMAIN items |->
            IF \E m \in DOMAIN marker : marker[m] = items[n]
            THEN [k \in 1 .. (CHOOSE m \in DOMAIN marker : marker[m] = items[n]) |-> items[n - 1]]
            ELSE <<items[n]>>]
  BY <1>1 DEF Pieces, Piece, CountOf
<1> QED BY <1>2 DEF PutBack

LEMMA PieceType ==
    ASSUME NEW S, NEW marker, Marking(marker, S), NEW items \in Seq(S), Led(items, marker),
           NEW n \in DOMAIN items
    PROVE  Piece(items, marker, n) \in Seq(S)
<1>1. CASE items[n] \in Markings(marker)
  <2>1. CountOf(items[n], marker) \in Nat
    <3>1. CountOf(items[n], marker) \in 1 .. Len(marker)
      BY <1>1, CountOfMarker
    <3> QED BY <3>1 DEF Marking
  <2>2. n > 1 /\ n - 1 \in DOMAIN items
    BY <1>1 DEF Led
  <2>3. items[n - 1] \in S
    BY <2>2
  <2>4. [k \in 1 .. CountOf(items[n], marker) |-> items[n - 1]] \in Seq(S)
    BY <2>1, <2>3
  <2> QED BY <1>1, <2>4 DEF Piece
<1>2. CASE items[n] \notin Markings(marker)
  BY <1>2 DEF Piece
<1> QED BY <1>1, <1>2

LEMMA PutBackType ==
    ASSUME NEW S, NEW marker, Marking(marker, S), NEW items \in Seq(S), Led(items, marker)
    PROVE  Pieces(items, marker) \in Seq(Seq(S)) /\ PutBack(items, marker) \in Seq(S)
<1>1. \A n \in 1 .. Len(items) : Piece(items, marker, n) \in Seq(S)
  BY PieceType
<1>2. Pieces(items, marker) \in Seq(Seq(S))
  BY <1>1 DEF Pieces
<1> QED BY <1>2, PutBackPieces, FlattenPlaces

\* One item more: it stands for itself, or for copies of the item before it.
LEMMA PutBackTurn ==
    ASSUME NEW S, NEW marker, Marking(marker, S), NEW items \in Seq(S), Led(items, marker),
           NEW x \in S, Led(Append(items, x), marker)
    PROVE  PutBack(Append(items, x), marker)
                = PutBack(items, marker) \o Piece(Append(items, x), marker, Len(items) + 1)
<1> DEFINE more == Append(items, x)
           last == Piece(more, marker, Len(items) + 1)
<1>1. /\ more \in Seq(S) /\ Len(more) = Len(items) + 1 /\ Len(items) \in Nat
      /\ Len(more) \in DOMAIN more
      /\ \A n \in 1 .. Len(items) : more[n] = items[n]
  OBVIOUS
<1>2. last \in Seq(S)
  BY <1>1, PieceType
<1>2b. Pieces(more, marker) \in Seq(Seq(S)) /\ DOMAIN Pieces(more, marker) = DOMAIN more
  <2>1. Led(more, marker) /\ more \in Seq(S)
    BY <1>1
  <2> HIDE DEF more
  <2>2. Pieces(more, marker) \in Seq(Seq(S))
    BY <2>1, PutBackType
  <2> QED BY <2>2 DEF Pieces
<1>3. Pieces(items, marker) \in Seq(Seq(S)) /\ Len(Pieces(items, marker)) = Len(items)
  BY PutBackType DEF Pieces
<1>4. ASSUME NEW n \in 1 .. Len(items)
      PROVE  Piece(more, marker, n) = Piece(items, marker, n)
  <2>1. CASE n > 1
    <3>1. n - 1 \in 1 .. Len(items)
      BY <2>1
    <3>2. more[n] = items[n] /\ more[n - 1] = items[n - 1]
      BY <1>1, <3>1
    <3> QED BY <3>2 DEF Piece
  <2>2. CASE n = 1
    <3>1. more[n] = items[n] /\ n \in DOMAIN items /\ ~(n > 1)
      BY <1>1, <2>2
    <3>2. items[n] \notin Markings(marker)
      BY <3>1 DEF Led
    <3> QED BY <3>1, <3>2 DEF Piece
  <2> QED BY <2>1, <2>2
<1>5. Pieces(more, marker) = Append(Pieces(items, marker), last)
  <2>1. /\ Len(Pieces(more, marker)) = Len(items) + 1 /\ Pieces(more, marker) \in Seq(Seq(S))
        /\ \A n \in 1 .. Len(items) + 1 : Pieces(more, marker)[n] = Piece(more, marker, n)
    BY <1>1, PutBackType, <1>2b DEF Pieces
  <2>2. \A n \in 1 .. Len(items) : Pieces(items, marker)[n] = Piece(items, marker, n)
    BY DEF Pieces
  <2> HIDE DEF more, last
  <2>3. /\ Len(Append(Pieces(items, marker), last)) = Len(items) + 1
        /\ Append(Pieces(items, marker), last) \in Seq(Seq(S))
        /\ \A n \in 1 .. Len(items) : Append(Pieces(items, marker), last)[n] = Pieces(items, marker)[n]
        /\ Append(Pieces(items, marker), last)[Len(items) + 1] = last
    BY <1>1, <1>2, <1>3
  <2>4. Pieces(more, marker)[Len(items) + 1] = last
    BY <1>1, <2>1 DEF last
  <2>5. \A n \in 1 .. Len(items) + 1 :
            Pieces(more, marker)[n] = Append(Pieces(items, marker), last)[n]
    BY <1>1, <1>4, <2>1, <2>2, <2>3, <2>4
  <2> QED BY <1>1, <2>1, <2>3, <2>5
<1>6. FlattenSeq(Append(Pieces(items, marker), last)) = FlattenSeq(Pieces(items, marker)) \o last
  BY <1>2, <1>3, FlattenAppend
<1> QED BY <1>5, <1>6, PutBackPieces

LEMMA PutBackItem ==
    ASSUME NEW S, NEW marker, Marking(marker, S), NEW items \in Seq(S), Led(items, marker),
           NEW x \in S, x \notin Markings(marker)
    PROVE  /\ Append(items, x) \in Seq(S) /\ Led(Append(items, x), marker)
           /\ PutBack(Append(items, x), marker) = Append(PutBack(items, marker), x)
<1>1. /\ Append(items, x) \in Seq(S) /\ Append(items, x)[Len(items) + 1] = x
      /\ DOMAIN Append(items, x) = 1 .. Len(items) + 1 /\ Len(items) \in Nat
      /\ \A n \in 1 .. Len(items) : Append(items, x)[n] = items[n]
  OBVIOUS
<1>2. Led(Append(items, x), marker)
  <2> SUFFICES ASSUME NEW n \in 1 .. Len(items) + 1,
                      Append(items, x)[n] \in Markings(marker)
               PROVE  n > 1
    BY <1>1 DEF Led
  <2>1. n \in 1 .. Len(items)
    BY <1>1
  <2> QED BY <1>1, <2>1 DEF Led
<1>3. Piece(Append(items, x), marker, Len(items) + 1) = <<x>>
  BY <1>1 DEF Piece
<1>4. PutBack(items, marker) \in Seq(S)
  BY PutBackType
<1>5. PutBack(items, marker) \o <<x>> = Append(PutBack(items, marker), x)
  BY <1>4
<1> QED BY <1>1, <1>2, <1>3, <1>5, PutBackTurn

LEMMA PutBackMarker ==
    ASSUME NEW S, NEW marker, Marking(marker, S), NEW items \in Seq(S), Led(items, marker),
           items # <<>>, NEW c \in DOMAIN marker
    PROVE  /\ Append(items, marker[c]) \in Seq(S) /\ Led(Append(items, marker[c]), marker)
           /\ PutBack(Append(items, marker[c]), marker)
                = PutBack(items, marker) \o [k \in 1 .. c |-> items[Len(items)]]
<1> DEFINE x == marker[c]
<1>0. x \in S /\ x \in Markings(marker)
  BY DEF Marking, Markings
<1>c. CountOf(x, marker) = c
  BY <1>0, CountOfMarker
<1> HIDE DEF x
<1>1. /\ Append(items, x) \in Seq(S) /\ Append(items, x)[Len(items) + 1] = x
      /\ DOMAIN Append(items, x) = 1 .. Len(items) + 1 /\ Len(items) \in Nat /\ Len(items) > 0
      /\ \A n \in 1 .. Len(items) : Append(items, x)[n] = items[n]
  BY <1>0
<1>2. Led(Append(items, x), marker)
  <2> SUFFICES ASSUME NEW n \in 1 .. Len(items) + 1,
                      Append(items, x)[n] \in Markings(marker)
               PROVE  n > 1
    BY <1>1 DEF Led
  <2>1. CASE n \in 1 .. Len(items)
    BY <1>1, <2>1 DEF Led
  <2> QED BY <1>1, <2>1
<1>3. Piece(Append(items, x), marker, Len(items) + 1) = [k \in 1 .. c |-> items[Len(items)]]
  <2>1. (Len(items) + 1) - 1 = Len(items) /\ Len(items) \in 1 .. Len(items)
    BY <1>1
  <2>2. Append(items, x)[(Len(items) + 1) - 1] = items[Len(items)]
    BY <1>1, <2>1
  <2> QED BY <1>0, <1>c, <1>1, <2>2 DEF Piece
<1>4. PutBack(Append(items, x), marker)
        = PutBack(items, marker) \o [k \in 1 .. c |-> items[Len(items)]]
  BY <1>0, <1>2, <1>3, PutBackTurn
<1> QED BY <1>1, <1>2, <1>4 DEF x
-----------------------------------------------------------------------------
(* Folding adjacent items.                                                   *)

\* The n items from a on are one run, or its beginning.
Alike(keys, empty, a, n) ==
    n = 1 \/ (keys[a] # empty /\ \A b \in a .. a + n - 1 : keys[b] = keys[a])

LEMMA RunFacts ==
    ASSUME NEW keys, Len(keys) \in Nat, NEW empty, NEW a \in 1 .. Len(keys)
    PROVE  LET n == Run(keys, empty, a)
           IN /\ n \in 1 .. Len(keys) - a + 1
              /\ n > 1 => keys[a] # empty
              /\ \A b \in a .. a + n - 1 : keys[b] = keys[a]
              /\ \A b \in a + 1 .. a + n - 1 : ~Begins(keys, empty, b)
              /\ a + n <= Len(keys) => Begins(keys, empty, a + n)
<1> DEFINE L == Len(keys)
           T == {n \in 1 .. L - a + 1 : Alike(keys, empty, a, n)}
           U == {L - n : n \in T}
           n == Run(keys, empty, a)
<1>0. L \in Nat /\ a \in Nat /\ 1 <= a /\ a <= L
  OBVIOUS
<1>1. n = Max(T)
  BY DEF Run, Alike
<1>2. 1 \in T /\ T \subseteq 1 .. L - a + 1
  BY <1>0 DEF Alike
<1>3. \E m \in T : \A k \in T : m >= k
  <2> HIDE DEF T
  <2>1. U \in SUBSET Nat /\ U # {}
    BY <1>0, <1>2
  <2>2. \E m \in U : \A k \in U : m <= k
    BY <2>1, LeastNumber
  <2>3. PICK t \in T : \A k \in U : L - t <= k
    BY <2>2
  <2>4. ASSUME NEW k \in T PROVE t >= k
    <3>1. L - k \in U /\ k \in Nat /\ t \in Nat
      BY <1>0, <1>2
    <3>2. L - t <= L - k
      BY <2>3, <3>1
    <3> QED BY <1>0, <3>1, <3>2
  <2> QED BY <2>3, <2>4
<1> HIDE DEF U
<1>4. n \in T /\ \A k \in T : n >= k
  BY <1>1, <1>3 DEF Max
<1> HIDE DEF n
<1>5. n \in 1 .. L - a + 1 /\ Alike(keys, empty, a, n)
  BY <1>4
<1>6. \A b \in a .. a + n - 1 : keys[b] = keys[a]
  BY <1>0, <1>5 DEF Alike
<1>7. n > 1 => keys[a] # empty
  BY <1>0, <1>5 DEF Alike
<1>8. ASSUME NEW b \in a + 1 .. a + n - 1 PROVE ~Begins(keys, empty, b)
  <2>1. n > 1 /\ b \in a .. a + n - 1 /\ b - 1 \in a .. a + n - 1 /\ b # 1
    BY <1>0, <1>5
  <2>2. keys[b] = keys[a] /\ keys[b - 1] = keys[a] /\ keys[a] # empty
    BY <1>6, <1>7, <2>1
  <2> QED BY <2>1, <2>2 DEF Begins
<1>9. ASSUME a + n <= L PROVE Begins(keys, empty, a + n)
  <2> SUFFICES ASSUME ~Begins(keys, empty, a + n) PROVE FALSE
    OBVIOUS
  <2>1. keys[a + n] # empty /\ keys[a + n] = keys[(a + n) - 1]
    BY DEF Begins
  <2>2. (a + n) - 1 \in a .. a + n - 1
    BY <1>0, <1>5
  <2>3. keys[a + n] = keys[a] /\ keys[a] # empty
    BY <1>6, <2>1, <2>2
  <2>4. n + 1 \in 1 .. L - a + 1 /\ a + (n + 1) - 1 = a + n
    BY <1>0, <1>5, <1>9
  <2>5. \A b \in a .. a + n : keys[b] = keys[a]
    BY <1>0, <1>5, <1>6, <2>3
  <2>6. n + 1 \in T
    BY <2>3, <2>4, <2>5 DEF Alike
  <2>7. n >= n + 1
    BY <1>4, <2>6
  <2> QED BY <1>5, <2>7
<1> QED BY <1>5, <1>6, <1>7, <1>8, <1>9 DEF n

\* x is one of the first e items; so, and its key is k; so, and its key is not empty.
From(x, items, e) == \E h \in 1 .. e : items[h] = x
FromKey(x, k, items, keys, e) == \E h \in 1 .. e : items[h] = x /\ keys[h] = k
FromKeyed(x, items, keys, empty, e) == \E h \in 1 .. e : items[h] = x /\ keys[h] # empty

\* o is what the first e items were folded to: put back, its items have their keys.
Folded(o, e, items, keys, empty, marker) ==
    /\ Led(o, marker)
    /\ Len(PutBack(o, marker)) = e
    /\ \A n \in 1 .. e : FromKey(PutBack(o, marker)[n], keys[n], items, keys, e)
    /\ \A n \in DOMAIN o : o[n] \in Markings(marker) =>
            n > 1 /\ FromKeyed(o[n - 1], items, keys, empty, e)
    /\ \A n \in DOMAIN o : o[n] \in Markings(marker) \/ From(o[n], items, e)
    /\ \A n \in DOMAIN o : n < Len(o) => o[n] \in Markings(marker) \/ From(o[n], items, e - 1)

LEMMA FromMore ==
    ASSUME NEW items, NEW keys, NEW empty, NEW d \in Nat, NEW e \in Nat, d <= e, NEW x
    PROVE  /\ From(x, items, d) => From(x, items, e)
           /\ \A k : FromKey(x, k, items, keys, d) => FromKey(x, k, items, keys, e)
           /\ FromKeyed(x, items, keys, empty, d) => FromKeyed(x, items, keys, empty, e)
<1>1. \A h \in 1 .. d : h \in 1 .. e
  OBVIOUS
<1> QED BY <1>1 DEF From, FromKey, FromKeyed

LEMMA FoldItem ==
    ASSUME NEW S, NEW items \in Seq(S), NEW keys, NEW empty, NEW marker, Marking(marker, S),
           \A n \in DOMAIN items : items[n] \notin Markings(marker),
           NEW e \in Nat, e + 1 <= Len(items), NEW o \in Seq(S),
           Folded(o, e, items, keys, empty, marker)
    PROVE  /\ Append(o, items[e + 1]) \in Seq(S)
           /\ Folded(Append(o, items[e + 1]), e + 1, items, keys, empty, marker)
<1> DEFINE x == items[e + 1]
           p == Append(o, x)
           q == PutBack(o, marker)
<1>1. e + 1 \in DOMAIN items /\ e + 1 \in 1 .. e + 1 /\ e <= e + 1 /\ e + 1 \in Nat
  OBVIOUS
<1>2. x \in S /\ x \notin Markings(marker)
  BY <1>1
<1>3. /\ From(x, items, e + 1)
      /\ FromKey(x, keys[e + 1], items, keys, e + 1)
  BY <1>1 DEF From, FromKey
<1> HIDE DEF x
<1>4. Led(o, marker) /\ q \in Seq(S) /\ Len(q) = e
  <2>1. Led(o, marker) /\ Len(q) = e
    BY DEF Folded
  <2> QED BY <2>1, PutBackType
<1>5. p \in Seq(S) /\ Led(p, marker) /\ PutBack(p, marker) = Append(q, x)
  BY <1>2, <1>4, PutBackItem
<1>6. /\ Len(p) = Len(o) + 1 /\ p[Len(o) + 1] = x /\ Len(o) \in Nat
      /\ \A n \in 1 .. Len(o) : p[n] = o[n]
  BY <1>2
<1>7. /\ Len(Append(q, x)) = e + 1 /\ Append(q, x)[e + 1] = x
      /\ \A n \in 1 .. e : Append(q, x)[n] = q[n]
  BY <1>2, <1>4
<1> HIDE DEF p, q
<1>8. ASSUME NEW n \in 1 .. e + 1
      PROVE  FromKey(PutBack(p, marker)[n], keys[n], items, keys, e + 1)
  <2>1. CASE n = e + 1
    BY <1>3, <1>5, <1>7, <2>1
  <2>2. CASE n # e + 1
    <3>1. n \in 1 .. e
      BY <2>2
    <3>2. FromKey(q[n], keys[n], items, keys, e)
      BY <3>1 DEF Folded, q
    <3>3. FromKey(q[n], keys[n], items, keys, e + 1)
      BY <1>1, <3>2, FromMore
    <3> QED BY <1>5, <1>7, <3>1, <3>3
  <2> QED BY <2>1, <2>2
<1>9. ASSUME NEW n \in DOMAIN p
      PROVE  /\ p[n] \in Markings(marker) => n > 1 /\ FromKeyed(p[n - 1], items, keys, empty, e + 1)
             /\ p[n] \in Markings(marker) \/ From(p[n], items, e + 1)
             /\ n < Len(p) => p[n] \in Markings(marker) \/ From(p[n], items, (e + 1) - 1)
  <2>0. n \in 1 .. Len(o) + 1 /\ DOMAIN o = 1 .. Len(o)
    BY <1>5, <1>6
  <2>1. CASE n = Len(o) + 1
    <3>1. p[n] = x /\ ~(n < Len(p))
      BY <1>6, <2>1
    <3> QED BY <1>2, <1>3, <3>1
  <2>2. CASE n # Len(o) + 1
    <3>1. n \in DOMAIN o /\ p[n] = o[n]
      BY <1>6, <2>0, <2>2
    <3>2. o[n] \in Markings(marker) \/ From(o[n], items, e)
      BY <3>1 DEF Folded
    <3>3. From(o[n], items, e) => From(o[n], items, e + 1)
      BY <1>1, FromMore
    <3>4. ASSUME o[n] \in Markings(marker)
          PROVE  n > 1 /\ FromKeyed(p[n - 1], items, keys, empty, e + 1)
      <4>1. n > 1 /\ FromKeyed(o[n - 1], items, keys, empty, e)
        BY <3>1, <3>4 DEF Folded
      <4>2. n - 1 \in 1 .. Len(o)
        BY <2>0, <3>1, <4>1
      <4>3. p[n - 1] = o[n - 1]
        BY <1>6, <4>2
      <4>4. FromKeyed(o[n - 1], items, keys, empty, e + 1)
        BY <1>1, <4>1, FromMore
      <4> QED BY <4>1, <4>3, <4>4
    <3>5. (e + 1) - 1 = e
      OBVIOUS
    <3> QED BY <3>1, <3>2, <3>3, <3>4, <3>5
  <2> QED BY <2>1, <2>2
<1>10. Folded(p, e + 1, items, keys, empty, marker)
  BY <1>5, <1>7, <1>8, <1>9 DEF Folded
<1> QED BY <1>5, <1>10 DEF p, x

LEMMA FoldMarker ==
    ASSUME NEW S, NEW items \in Seq(S), NEW keys, NEW empty, NEW marker, Marking(marker, S),
           NEW d \in Nat, d + 1 <= Len(items), items[d + 1] \notin Markings(marker),
           NEW o \in Seq(S), o # <<>>, o[Len(o)] = items[d + 1],
           Folded(o, d + 1, items, keys, empty, marker),
           NEW c \in DOMAIN marker, keys[d + 1] # empty,
           \A n \in d + 1 .. d + 1 + c : keys[n] = keys[d + 1]
    PROVE  /\ Append(o, marker[c]) \in Seq(S)
           /\ Folded(Append(o, marker[c]), d + 1 + c, items, keys, empty, marker)
<1> DEFINE x == items[d + 1]
           y == marker[c]
           e == d + 1
           p == Append(o, y)
           q == PutBack(o, marker)
           r == [k \in 1 .. c |-> x]
<1>1. /\ c \in Nat /\ 1 <= c /\ e \in Nat /\ e + c \in Nat /\ e \in DOMAIN items
      /\ e <= (e + c) - 1 /\ d <= (e + c) - 1 /\ e <= e + c /\ (e + c) - 1 \in Nat
      /\ e \in 1 .. e + c /\ e \in 1 .. e
  BY DEF Marking
<1>2. x \in S /\ y \in S /\ y \in Markings(marker) /\ x \notin Markings(marker)
  BY <1>1 DEF Marking, Markings
<1>3. /\ From(x, items, (e + c) - 1) /\ FromKey(x, keys[e], items, keys, e + c)
      /\ FromKeyed(x, items, keys, empty, e + c)
  <2>1. From(x, items, e) /\ FromKey(x, keys[e], items, keys, e)
        /\ FromKeyed(x, items, keys, empty, e)
    BY <1>1 DEF From, FromKey, FromKeyed
  <2> HIDE DEF x, e
  <2>2. From(x, items, (e + c) - 1)
    BY <1>1, <2>1, FromMore
  <2>3. FromKey(x, keys[e], items, keys, e + c)
    BY <1>1, <2>1, FromMore
  <2>4. FromKeyed(x, items, keys, empty, e + c)
    BY <1>1, <2>1, FromMore
  <2> QED BY <2>2, <2>3, <2>4
<1>4. Led(o, marker) /\ q \in Seq(S) /\ Len(q) = e
  <2>1. Led(o, marker) /\ Len(q) = e
    BY DEF Folded
  <2> QED BY <2>1, PutBackType
<1>5. p \in Seq(S) /\ Led(p, marker) /\ PutBack(p, marker) = q \o r
  <2>1. r = [k \in 1 .. c |-> o[Len(o)]]
    OBVIOUS
  <2>2. /\ Append(o, marker[c]) \in Seq(S) /\ Led(Append(o, marker[c]), marker)
        /\ PutBack(Append(o, marker[c]), marker)
            = PutBack(o, marker) \o [k \in 1 .. c |-> o[Len(o)]]
    <3>1. Led(o, marker)
      BY <1>4
    <3> QED BY <3>1, PutBackMarker
  <2> QED BY <2>1, <2>2
<1>6. /\ Len(p) = Len(o) + 1 /\ p[Len(o) + 1] = y /\ Len(o) \in Nat /\ Len(o) > 0
      /\ \A n \in 1 .. Len(o) : p[n] = o[n]
  BY <1>2
<1>7. /\ Len(q \o r) = e + c
      /\ \A n \in 1 .. e : (q \o r)[n] = q[n]
      /\ \A n \in e + 1 .. e + c : (q \o r)[n] = x
  <2> HIDE DEF e, q, x
  <2>1. r \in Seq(S) /\ Len(r) = c /\ \A k \in 1 .. c : r[k] = x
    <3>1. c \in Nat
      BY <1>1
    <3>2. x \in S
      BY <1>2
    <3>3. r \in [1 .. c -> S] /\ \A k \in 1 .. c : r[k] = x
      BY <3>2
    <3> HIDE DEF r
    <3>4. r \in Seq(S) /\ Len(r) = c
      BY <3>1, <3>3
    <3> QED BY <3>3, <3>4
  <2> HIDE DEF r
  <2>2. Len(q \o r) = e + c /\ \A n \in 1 .. e : (q \o r)[n] = q[n]
    <3>1. q \in Seq(S) /\ r \in Seq(S) /\ Len(q) = e /\ Len(r) = c
      BY <1>4, <2>1
    <3>q. q \in Seq(S)
      BY <3>1
    <3>r. r \in Seq(S)
      BY <3>1
    <3>2. /\ q \o r \in Seq(S) /\ Len(q \o r) = Len(q) + Len(r)
          /\ \A n \in 1 .. Len(q) : (q \o r)[n] = q[n]
          /\ \A n \in 1 .. Len(r) : (q \o r)[Len(q) + n] = r[n]
      BY <3>q, <3>r, ConcatItems
    <3>3. Len(q \o r) = e + c
      BY <3>1, <3>2
    <3>4. ASSUME NEW n \in 1 .. e PROVE (q \o r)[n] = q[n]
      <4>1. n \in 1 .. Len(q)
        BY <3>1
      <4> QED BY <3>2, <4>1
    <3> QED BY <3>3, <3>4
  <2>3. ASSUME NEW n \in e + 1 .. e + c PROVE (q \o r)[n] = x
    <3>1. n - e \in 1 .. c /\ n \in 1 .. e + c /\ n > e
      BY <1>1
    <3>2. (q \o r)[n] = r[n - e]
      <4>1. (q \o r)[Len(q) + (n - e)] = r[n - e]
        <5>1. q \in Seq(S) /\ r \in Seq(S) /\ n - e \in 1 .. Len(r)
          BY <1>4, <2>1, <3>1
        <5> QED BY <5>1, ConcatItems
      <4>2. Len(q) + (n - e) = n
        BY <1>1, <1>4, <3>1
      <4> QED BY <4>1, <4>2
    <3> QED BY <2>1, <3>1, <3>2
  <2> QED BY <2>2, <2>3
<1>8. \A n \in e .. e + c : keys[n] = keys[e]
  OBVIOUS
<1>f. /\ Folded(o, e, items, keys, empty, marker)
      /\ o[Len(o)] = x
  OBVIOUS
<1>g. e - 1 = d
  OBVIOUS
<1> HIDE DEF p, q, r, e, x, y
<1>9. ASSUME NEW n \in 1 .. e + c
      PROVE  FromKey(PutBack(p, marker)[n], keys[n], items, keys, e + c)
  <2>1. CASE n \in 1 .. e
    <3>1. FromKey(q[n], keys[n], items, keys, e)
      BY <1>f, <2>1 DEF Folded, q
    <3>2. FromKey(q[n], keys[n], items, keys, e + c)
      BY <1>1, <3>1, FromMore
    <3> QED BY <1>5, <1>7, <2>1, <3>2
  <2>2. CASE n \notin 1 .. e
    <3>1. n \in e + 1 .. e + c /\ n \in e .. e + c
      BY <1>1, <2>2
    <3>2. PutBack(p, marker)[n] = x /\ keys[n] = keys[e]
      BY <1>5, <1>7, <1>8, <3>1
    <3> QED BY <1>3, <3>2
  <2> QED BY <2>1, <2>2
<1>10. ASSUME NEW n \in DOMAIN p
       PROVE  /\ p[n] \in Markings(marker) => n > 1 /\ FromKeyed(p[n - 1], items, keys, empty, e + c)
              /\ p[n] \in Markings(marker) \/ From(p[n], items, (e + c) - 1)
  <2>0. n \in 1 .. Len(o) + 1 /\ DOMAIN o = 1 .. Len(o)
    BY <1>5, <1>6
  <2>1. CASE n = Len(o) + 1
    <3>1. p[n] = y /\ n > 1 /\ n - 1 = Len(o) /\ n - 1 \in 1 .. Len(o)
      BY <1>6, <2>1
    <3>2. p[n - 1] = x
      BY <1>6, <1>f, <3>1
    <3> QED BY <1>2, <1>3, <3>1, <3>2
  <2>2. CASE n # Len(o) + 1
    <3>1. n \in DOMAIN o /\ p[n] = o[n]
      BY <1>6, <2>0, <2>2
    <3>2. o[n] \in Markings(marker) \/ From(o[n], items, e)
      BY <1>f, <3>1 DEF Folded
    <3>3. From(o[n], items, e) => From(o[n], items, (e + c) - 1)
      BY <1>1, FromMore
    <3>4. ASSUME o[n] \in Markings(marker)
          PROVE  n > 1 /\ FromKeyed(p[n - 1], items, keys, empty, e + c)
      <4>1. n > 1 /\ FromKeyed(o[n - 1], items, keys, empty, e)
        BY <1>f, <3>1, <3>4 DEF Folded
      <4>2. n - 1 \in 1 .. Len(o)
        BY <2>0, <3>1, <4>1
      <4>3. p[n - 1] = o[n - 1]
        BY <1>6, <4>2
      <4>4. FromKeyed(o[n - 1], items, keys, empty, e + c)
        BY <1>1, <4>1, FromMore
      <4> QED BY <4>1, <4>3, <4>4
    <3> QED BY <3>1, <3>2, <3>3, <3>4
  <2> QED BY <2>1, <2>2
<1>11. \A n \in DOMAIN p : From(p[n], items, (e + c) - 1) => From(p[n], items, e + c)
  <2>1. (e + c) - 1 <= e + c
    BY <1>1
  <2> QED BY <1>1, <2>1, FromMore
<1>12. Folded(p, e + c, items, keys, empty, marker)
  BY <1>5, <1>7, <1>9, <1>10, <1>11 DEF Folded
<1> QED BY <1>5, <1>12 DEF p, y, e

\* The loop of collapseAdjacent up to item n: it has gone through e items, and no run
\* begins between the two.
Folding(o, n, e, items, keys, empty, marker) ==
    /\ n <= e /\ e <= Len(items)
    /\ \A b \in n + 1 .. e : ~Begins(keys, empty, b)
    /\ e < Len(items) => Begins(keys, empty, e + 1)
    /\ Folded(o, e, items, keys, empty, marker)

Announced(n, marker) == IF n > 1 THEN <<marker[n - 1]>> ELSE <<>>

KeptOf(items, keys, empty, marker, a) ==
    IF Begins(keys, empty, a) THEN <<items[a]>> \o Announced(Run(keys, empty, a), marker) ELSE <<>>

LEMMA CollapsePieces ==
    ASSUME NEW items, NEW keys, NEW empty, NEW marker
    PROVE  CollapseAdjacent(items, keys, empty, marker)
            = FlattenSeq([a \in DOMAIN items |-> KeptOf(items, keys, empty, marker, a)])
BY DEF CollapseAdjacent, KeptOf, Announced

LEMMA FoldRun ==
    ASSUME NEW S, NEW items \in Seq(S), NEW keys, Len(keys) = Len(items), NEW empty,
           NEW marker, Marking(marker, S), Len(items) <= Len(marker),
           \A n \in DOMAIN items : items[n] \notin Markings(marker),
           NEW n \in Nat, n + 1 <= Len(items), NEW o \in Seq(S),
           NEW e \in Nat, Folding(o, n, e, items, keys, empty, marker)
    PROVE  /\ KeptOf(items, keys, empty, marker, n + 1) \in Seq(S)
           /\ \E d \in Nat : Folding(o \o KeptOf(items, keys, empty, marker, n + 1), n + 1, d,
                                       items, keys, empty, marker)
<1>0. e \in Nat /\ n + 1 \in Nat /\ Len(items) \in Nat
  OBVIOUS
<1>1. CASE e > n
  <2>1. n + 1 \in n + 1 .. e
    BY <1>0, <1>1
  <2>2. KeptOf(items, keys, empty, marker, n + 1) = <<>>
    BY <2>1 DEF KeptOf, Folding
  <2>3. o \o <<>> = o /\ <<>> \in Seq(S)
    OBVIOUS
  <2>4. \A b \in (n + 1) + 1 .. e : b \in n + 1 .. e
    BY <1>0
  <2>5. Folding(o, n + 1, e, items, keys, empty, marker)
    BY <1>0, <1>1, <2>4 DEF Folding
  <2> QED BY <1>0, <2>2, <2>3, <2>5
<1>2. CASE ~(e > n)
  <2> DEFINE x == items[n + 1]
             r == Run(keys, empty, n + 1)
             p == Append(o, x)
  <2>1. e = n /\ Begins(keys, empty, n + 1) /\ Folded(o, n, items, keys, empty, marker)
    BY <1>0, <1>2 DEF Folding
  <2>2. x \in S /\ n + 1 \in DOMAIN items /\ x \notin Markings(marker)
    OBVIOUS
  <2>3. p \in Seq(S) /\ Folded(p, n + 1, items, keys, empty, marker)
    BY <2>1, FoldItem
  <2>4. /\ r \in 1 .. Len(items) - n
        /\ r > 1 => keys[n + 1] # empty
        /\ \A b \in n + 1 .. n + r : keys[b] = keys[n + 1]
        /\ \A b \in n + 2 .. n + r : ~Begins(keys, empty, b)
        /\ n + r < Len(items) => Begins(keys, empty, n + r + 1)
    <3>1. n + 1 \in 1 .. Len(keys) /\ Len(keys) \in Nat
      BY <1>0
    <3>2. /\ r \in 1 .. Len(keys) - (n + 1) + 1
          /\ r > 1 => keys[n + 1] # empty
          /\ \A b \in n + 1 .. n + 1 + r - 1 : keys[b] = keys[n + 1]
          /\ \A b \in n + 1 + 1 .. n + 1 + r - 1 : ~Begins(keys, empty, b)
          /\ n + 1 + r <= Len(keys) => Begins(keys, empty, n + 1 + r)
      BY <3>1, RunFacts
    <3>3. r \in Nat
      BY <1>0, <3>2
    <3> HIDE DEF r
    <3>4. /\ Len(keys) - (n + 1) + 1 = Len(items) - n /\ n + 1 + r - 1 = n + r
          /\ n + 1 + 1 = n + 2 /\ n + 1 + r = n + r + 1
          /\ n + r < Len(items) => n + 1 + r <= Len(keys)
      BY <1>0, <3>3
    <3> QED BY <3>2, <3>4
  <2>5. KeptOf(items, keys, empty, marker, n + 1) = <<x>> \o Announced(r, marker)
    BY <2>1 DEF KeptOf
  <2> HIDE DEF r, x
  <2>6. CASE r = 1
    <3>1. <<x>> \o Announced(r, marker) = <<x>> /\ o \o <<x>> = p /\ <<x>> \in Seq(S)
      BY <2>2, <2>6 DEF Announced
    <3>2. Folding(p, n + 1, n + 1, items, keys, empty, marker)
      BY <1>0, <2>3, <2>4, <2>6 DEF Folding
    <3> HIDE DEF p
    <3> QED BY <1>0, <2>5, <3>1, <3>2
  <2>7. CASE r # 1
    <3> DEFINE c == r - 1
               y == marker[c]
    <3>1. /\ r > 1 /\ r \in Nat /\ c \in Nat /\ c \in DOMAIN marker /\ n + 1 + c = n + r
          /\ n + r \in Nat /\ n + r <= Len(items)
      BY <1>0, <2>4, <2>7 DEF Marking
    <3>2. y \in S
      BY <3>1 DEF Marking
    <3>3. p # <<>> /\ p[Len(p)] = x
      BY <2>2
    <3>4. \A b \in n + 1 .. n + 1 + c : keys[b] = keys[n + 1]
      BY <2>4, <3>1
    <3>5. keys[n + 1] # empty
      BY <2>4, <3>1
    <3> HIDE DEF p, c
    <3>6. Append(p, y) \in Seq(S) /\ Folded(Append(p, y), n + 1 + c, items, keys, empty, marker)
      BY <2>2, <2>3, <3>1, <3>3, <3>4, <3>5, FoldMarker DEF x
    <3>7. Announced(r, marker) = <<y>>
      BY <3>1 DEF Announced, c
    <3>8. <<x>> \o <<y>> \in Seq(S) /\ o \o (<<x>> \o <<y>>) = Append(p, y)
      BY <2>2, <3>2, AppendItems DEF p
    <3>9. \A b \in (n + 1) + 1 .. n + r : ~Begins(keys, empty, b)
      BY <1>0, <2>4
    <3>10. Folding(Append(p, y), n + 1, n + r, items, keys, empty, marker)
      BY <1>0, <2>4, <3>1, <3>6, <3>9 DEF Folding
    <3> HIDE DEF y
    <3> QED BY <2>5, <3>1, <3>7, <3>8, <3>10
  <2> QED BY <2>6, <2>7
<1> QED BY <1>1, <1>2

LEMMA KeptType ==
    ASSUME NEW S, NEW items \in Seq(S), NEW keys, Len(keys) = Len(items), NEW empty,
           NEW marker, Marking(marker, S), Len(items) <= Len(marker), NEW a \in DOMAIN items
    PROVE  KeptOf(items, keys, empty, marker, a) \in Seq(S)
<1> DEFINE r == Run(keys, empty, a)
<1>1. Len(items) \in Nat /\ a \in 1 .. Len(keys) /\ Len(keys) \in Nat /\ items[a] \in S
  OBVIOUS
<1>2. r \in 1 .. Len(keys) - a + 1
  BY <1>1, RunFacts
<1> HIDE DEF r
<1>3. Announced(r, marker) \in Seq(S)
  <2>1. CASE r > 1
    <3>1. r - 1 \in DOMAIN marker
      BY <1>1, <1>2, <2>1 DEF Marking
    <3>2. marker[r - 1] \in S
      BY <3>1 DEF Marking
    <3> QED BY <2>1, <3>2 DEF Announced
  <2>2. CASE ~(r > 1)
    BY <2>2 DEF Announced
  <2> QED BY <2>1, <2>2
<1>4. <<items[a]>> \in Seq(S)
  BY <1>1
<1>5. <<items[a]>> \o Announced(r, marker) \in Seq(S)
  BY <1>3, <1>4, ConcatItems
<1> QED BY <1>5 DEF KeptOf, r

LEMMA FoldNothing ==
    ASSUME NEW items, NEW keys, NEW empty, NEW marker
    PROVE  Folded(<<>>, 0, items, keys, empty, marker)
<1>1. Pieces(<<>>, marker) = <<>>
  BY DEF Pieces
<1>2. PutBack(<<>>, marker) = <<>>
  BY <1>1, PutBackPieces, FlattenNone
<1> QED BY <1>2 DEF Folded, Led

\* What collapseAdjacent makes of a list is the whole of it, folded.
LEMMA Collapsed ==
    ASSUME NEW S, NEW items \in Seq(S), NEW keys, Len(keys) = Len(items), NEW empty,
           NEW marker, Marking(marker, S), Len(items) <= Len(marker),
           \A n \in DOMAIN items : items[n] \notin Markings(marker)
    PROVE  /\ CollapseAdjacent(items, keys, empty, marker) \in Seq(S)
           /\ Folded(CollapseAdjacent(items, keys, empty, marker), Len(items),
                     items, keys, empty, marker)
<1> DEFINE L == Len(items)
           kept == [a \in DOMAIN items |-> KeptOf(items, keys, empty, marker, a)]
           upto(n) == FlattenSeq(Prefix(kept, n))
           Good(n) == \E e \in Nat : Folding(upto(n), n, e, items, keys, empty, marker)
           P == {n \in Nat : n <= L => Good(n)}
<1>0. L \in Nat /\ DOMAIN items = 1 .. L
  OBVIOUS
<1>1. kept \in Seq(Seq(S)) /\ Len(kept) = L
  <2>1. \A a \in 1 .. L : KeptOf(items, keys, empty, marker, a) \in Seq(S)
    BY KeptType
  <2> QED BY <2>1
<1>2. \A n \in Nat : n + 1 <= L => n + 1 \in DOMAIN items /\ kept[n + 1] = KeptOf(items, keys, empty, marker, n + 1)
  OBVIOUS
<1>k. CollapseAdjacent(items, keys, empty, marker) = FlattenSeq(kept)
  BY CollapsePieces
<1> HIDE DEF kept, L
<1>3. /\ upto(0) = <<>> /\ upto(L) = FlattenSeq(kept)
      /\ \A n \in Nat : n <= L => upto(n) \in Seq(S)
      /\ \A n \in Nat : n + 1 <= L => upto(n + 1) = upto(n) \o kept[n + 1]
  BY <1>1, FlattenTurn
<1> HIDE DEF upto
<1>4. 0 \in P
  <2>1. \A b \in 0 + 1 .. 0 : ~Begins(keys, empty, b)
    OBVIOUS
  <2>2. Begins(keys, empty, 0 + 1)
    BY DEF Begins
  <2>3. Folding(upto(0), 0, 0, items, keys, empty, marker)
    BY <1>0, <1>3, <2>1, <2>2, FoldNothing DEF Folding, L
  <2> QED BY <2>3
<1>5. ASSUME NEW n \in P PROVE n + 1 \in P
  <2> SUFFICES ASSUME n + 1 <= L PROVE Good(n + 1)
    OBVIOUS
  <2>1. n \in Nat /\ n <= L /\ n + 1 <= L
    BY <1>0
  <2>2. PICK e \in Nat : Folding(upto(n), n, e, items, keys, empty, marker)
    BY <2>1
  <2>3. upto(n) \in Seq(S)
    BY <1>3, <2>1
  <2>4. \E d \in Nat : Folding(upto(n) \o KeptOf(items, keys, empty, marker, n + 1), n + 1, d,
                               items, keys, empty, marker)
    BY <2>1, <2>2, <2>3, FoldRun DEF L
  <2>5. upto(n + 1) = upto(n) \o KeptOf(items, keys, empty, marker, n + 1)
    BY <1>2, <1>3, <2>1
  <2> QED BY <2>4, <2>5
<1> HIDE DEF P
<1>6. P = Nat
  BY <1>4, <1>5, Induction DEF P
<1>7. Good(L)
  BY <1>0, <1>6 DEF P
<1>8. PICK e \in Nat : Folding(upto(L), L, e, items, keys, empty, marker)
  BY <1>7
<1>9. e = L
  BY <1>0, <1>8 DEF Folding, L
<1>10. Folded(FlattenSeq(kept), L, items, keys, empty, marker)
  BY <1>3, <1>8, <1>9 DEF Folding
<1>11. FlattenSeq(kept) \in Seq(S)
  BY <1>0, <1>3
<1> QED BY <1>k, <1>10, <1>11 DEF L
-----------------------------------------------------------------------------
(* Logs and code: lines.                                                     *)

\* The lines of a text, or of what it is compressed to.
Lines == Line \cup ToSet(Repeated)

LEMMA RepeatedMarking ==
    /\ Marking(Repeated, Lines) /\ Markings(Repeated) = ToSet(Repeated)
    /\ \A x \in Line : x \notin Markings(Repeated)
<1>1. Markings(Repeated) = ToSet(Repeated)
  BY DEF Markings, ToSet
<1>2. \A n \in DOMAIN Repeated : Repeated[n] \in Lines
  BY <1>1 DEF Lines, Markings
<1>3. Marking(Repeated, Lines)
  BY <1>2, MarkersAssumption DEF Marking
<1>4. \A x \in Line : x \notin Markings(Repeated)
  BY MarkersAssumption DEF Markings
<1> QED BY <1>1, <1>3, <1>4

LEMMA TrimmedLine ==
    /\ \A x \in Lines : TrimSpace(x) \in Lines
    /\ \A x \in Markings(Repeated) : TrimSpace(x) = x /\ ~Blank(x)
<1>1. ASSUME NEW x \in Line PROVE TrimSpace(x) \in Line
  BY DEF TrimSpace, Line
<1>2. ASSUME NEW x \in Markings(Repeated) PROVE TrimSpace(x) = x /\ ~Blank(x)
  <2>1. x \notin Line
    BY RepeatedMarking
  <2>2. x # "  ERROR" /\ x # "  words" /\ x # "  " /\ x # ""
    BY <2>1 DEF Line
  <2>3. TrimSpace(x) = x
    BY <2>2 DEF TrimSpace
  <2> QED BY <2>2, <2>3 DEF Blank
<1>3. ASSUME NEW x \in Lines PROVE TrimSpace(x) \in Lines
  <2>1. CASE x \in Line
    BY <1>1, <2>1 DEF Lines
  <2>2. CASE x \notin Line
    <3>1. x \in Markings(Repeated)
      BY <2>2, RepeatedMarking DEF Lines
    <3> QED BY <1>2, <3>1
  <2> QED BY <2>1, <2>2
<1> QED BY <1>2, <1>3

LEMMA TextLines ==
    ASSUME NEW text \in Text
    PROVE  /\ text \in Seq(Lines) /\ Len(Trimmed(text)) = Len(text)
           /\ \A n \in DOMAIN text : text[n] \notin Markings(Repeated)
           /\ DOMAIN text = 1 .. Len(text) /\ Len(text) \in Nat
<1>1. text \in Seq(Line) /\ Line \subseteq Lines
  BY DEF Text, Lines
<1>2. text \in Seq(Lines) /\ Len(Trimmed(text)) = Len(text) /\ \A n \in DOMAIN text : text[n] \in Line
  BY <1>1 DEF Trimmed
<1>3. DOMAIN text = 1 .. Len(text) /\ Len(text) \in Nat
  BY <1>1
<1> QED BY <1>2, <1>3, RepeatedMarking

\* Lines that were folded by what is left of them without white space.
LEMMA LinesPutBack ==
    ASSUME NEW text \in Text, Len(text) <= Len(Repeated), NEW o \in Seq(Lines),
           Folded(o, Len(text), text, Trimmed(text), "", Repeated)
    PROVE  PutBack(o, Repeated) \in Seq(Lines) /\ Trimmed(PutBack(o, Repeated)) = Trimmed(text)
<1> DEFINE q == PutBack(o, Repeated)
<1>1. q \in Seq(Lines) /\ Len(q) = Len(text)
  <2>1. Led(o, Repeated) /\ Len(q) = Len(text)
    BY DEF Folded
  <2> QED BY <2>1, PutBackType, RepeatedMarking
<1>2. ASSUME NEW n \in 1 .. Len(text) PROVE TrimSpace(q[n]) = TrimSpace(text[n])
  <2>1. FromKey(q[n], Trimmed(text)[n], text, Trimmed(text), Len(text))
    BY DEF Folded
  <2>2. PICK h \in 1 .. Len(text) : text[h] = q[n] /\ Trimmed(text)[h] = Trimmed(text)[n]
    BY <2>1 DEF FromKey
  <2>3. DOMAIN text = 1 .. Len(text)
    BY TextLines
  <2> QED BY <2>2, <2>3 DEF Trimmed
<1> HIDE DEF q
<1>3. DOMAIN text = 1 .. Len(text) /\ DOMAIN q = 1 .. Len(text)
  <2>1. DOMAIN text = 1 .. Len(text)
    BY TextLines
  <2>2. DOMAIN q = 1 .. Len(q)
    BY <1>1, SeqDomain, Zenon
  <2> QED BY <1>1, <2>1, <2>2
<1>4. Trimmed(q) = Trimmed(text)
  BY <1>2, <1>3 DEF Trimmed
<1> QED BY <1>1, <1>4 DEF q

LEMMA LogAnnounced ==
    ASSUME NEW text \in Text, Len(text) <= Len(Repeated)
    PROVE  /\ CompressRepeatedLines(text) \in Seq(Lines)
           /\ Folded(CompressRepeatedLines(text), Len(text), text, Trimmed(text), "", Repeated)
           /\ Trimmed(PutBack(CompressRepeatedLines(text), Repeated)) = Trimmed(text)
<1>1. /\ text \in Seq(Lines) /\ Len(Trimmed(text)) = Len(text)
      /\ \A n \in DOMAIN text : text[n] \notin Markings(Repeated)
  BY TextLines
<1>2. /\ CompressRepeatedLines(text) \in Seq(Lines)
      /\ Folded(CompressRepeatedLines(text), Len(text), text, Trimmed(text), "", Repeated)
  BY <1>1, Collapsed, RepeatedMarking DEF CompressRepeatedLines
<1> QED BY <1>2, LinesPutBack

LEMMA TrimmedType ==
    ASSUME NEW t \in Seq(Lines)
    PROVE  /\ Trimmed(t) \in Seq(Lines) /\ Len(Trimmed(t)) = Len(t)
           /\ \A n \in 1 .. Len(t) : Trimmed(t)[n] = TrimSpace(t[n])
<1>1. \A n \in 1 .. Len(t) : TrimSpace(t[n]) \in Lines
  BY TrimmedLine
<1> QED BY <1>1 DEF Trimmed

LEMMA FieldsConcat ==
    ASSUME NEW p \in Seq(Lines), NEW q \in Seq(Lines)
    PROVE  Fields(p \o q) = Fields(p) \o Fields(q)
<1>1. /\ p \o q \in Seq(Lines) /\ Len(p \o q) = Len(p) + Len(q)
      /\ \A n \in 1 .. Len(p) : (p \o q)[n] = p[n]
      /\ \A n \in 1 .. Len(q) : (p \o q)[Len(p) + n] = q[n]
  BY ConcatItems
<1>2. \A t \in Seq(Lines) :
        /\ Trimmed(t) \in Seq(Lines) /\ Len(Trimmed(t)) = Len(t)
        /\ \A n \in 1 .. Len(t) : Trimmed(t)[n] = TrimSpace(t[n])
  BY TrimmedType
<1> DEFINE u == Trimmed(p)
           v == Trimmed(q)
           w == Trimmed(p \o q)
<1>3. u \in Seq(Lines) /\ v \in Seq(Lines) /\ w \in Seq(Lines)
      /\ Len(u) = Len(p) /\ Len(v) = Len(q) /\ Len(w) = Len(p) + Len(q)
  BY <1>1, <1>2
<1>4. /\ Len(u \o v) = Len(u) + Len(v) /\ u \o v \in Seq(Lines)
      /\ \A n \in 1 .. Len(u) : (u \o v)[n] = u[n]
      /\ \A n \in 1 .. Len(v) : (u \o v)[Len(u) + n] = v[n]
  <2> HIDE DEF u, v
  <2>1. u \in Seq(Lines)
    BY <1>3
  <2>2. v \in Seq(Lines)
    BY <1>3
  <2> QED BY <2>1, <2>2, ConcatItems
<1>5. ASSUME NEW n \in 1 .. Len(p) + Len(q) PROVE w[n] = (u \o v)[n]
  <2>0. w[n] = TrimSpace((p \o q)[n])
    BY <1>1, <1>2
  <2>1. CASE n \in 1 .. Len(p)
    <3>1. (p \o q)[n] = p[n] /\ u[n] = TrimSpace(p[n])
      BY <1>1, <1>2, <2>1
    <3> QED BY <1>3, <1>4, <2>0, <2>1, <3>1
  <2>2. CASE n \notin 1 .. Len(p)
    <3>1. n - Len(p) \in 1 .. Len(q) /\ Len(p) + (n - Len(p)) = n
      BY <2>2
    <3>2. (p \o q)[n] = q[n - Len(p)] /\ v[n - Len(p)] = TrimSpace(q[n - Len(p)])
      BY <1>1, <1>2, <3>1
    <3>3. (u \o v)[n] = v[n - Len(p)]
      BY <1>3, <1>4, <3>1
    <3> QED BY <2>0, <3>2, <3>3
  <2> QED BY <2>1, <2>2
<1> HIDE DEF u, v, w
<1>6. w = u \o v
  BY <1>3, <1>4, <1>5
<1> DEFINE wanted == (Line \cup ToSet(Repeated)) \ {""}
<1>7. Fields(p \o q) = Only(w, wanted) /\ Fields(p) = Only(u, wanted) /\ Fields(q) = Only(v, wanted)
  BY DEF Fields, u, v, w
<1> HIDE DEF wanted
<1>8. Only(u \o v, wanted) = Only(u, wanted) \o Only(v, wanted)
  <2>1. u \in Seq(Lines)
    BY <1>3
  <2>2. v \in Seq(Lines)
    BY <1>3
  <2> QED BY <2>1, <2>2, OnlyConcat
<1> QED BY <1>6, <1>7, <1>8

LEMMA FieldsType ==
    ASSUME NEW p \in Seq(Lines)
    PROVE  Fields(p) \in Seq(Lines)
<1>2. Trimmed(p) \in Seq(Lines)
  BY TrimmedType
<1> QED BY <1>2, OnlyPlaces DEF Fields

LEMMA FieldsBlank ==
    ASSUME NEW x \in Lines, Blank(x)
    PROVE  Fields(<<x>>) = <<>>
<1> DEFINE t == Trimmed(<<x>>)
           wanted == (Line \cup ToSet(Repeated)) \ {""}
<1>1. <<x>> \in Seq(Lines) /\ \A n \in DOMAIN <<x>> : <<x>>[n] = x
  OBVIOUS
<1>2. t \in Seq(Lines) /\ \A n \in DOMAIN t : t[n] = ""
  <2> DEFINE one == <<x>>
  <2>1. one \in Seq(Lines) /\ \A n \in 1 .. Len(one) : one[n] = x
    BY <1>1
  <2> HIDE DEF one
  <2>2. /\ Trimmed(one) \in Seq(Lines) /\ Len(Trimmed(one)) = Len(one)
        /\ \A n \in 1 .. Len(one) : Trimmed(one)[n] = TrimSpace(one[n])
    BY <2>1, TrimmedType
  <2>3. DOMAIN Trimmed(one) = 1 .. Len(one)
    BY <2>2, SeqDomain
  <2>4. TrimSpace(x) = ""
    BY DEF Blank
  <2> QED BY <2>1, <2>2, <2>3, <2>4 DEF one
<1>3. Fields(<<x>>) = Only(t, wanted)
  BY DEF Fields
<1> HIDE DEF t
<1>4. \A n \in DOMAIN t : t[n] \notin wanted
  BY <1>2
<1> HIDE DEF wanted
<1> QED BY <1>2, <1>3, <1>4, OnlyNone

\* A marker stands behind a line that is neither blank nor a marker.
Spaced(o) ==
    \A n \in DOMAIN o : o[n] \in Markings(Repeated) =>
        n > 1 /\ o[n - 1] \notin Markings(Repeated) /\ ~Blank(o[n - 1])

KeepsLine(o, n) == n = 1 \/ ~Blank(o[n]) \/ ~Blank(o[n - 1])

KeptLine(o, n) == IF KeepsLine(o, n) THEN <<o[n]>> ELSE <<>>

\* The loop of collapseBlankRuns has made u of the lines w, the last of which is x.
Thinned(u, w) ==
    /\ u \in Seq(Lines) /\ w \in Seq(Lines) /\ Led(u, Repeated) /\ Led(w, Repeated)
    /\ Fields(PutBack(u, Repeated)) = Fields(PutBack(w, Repeated))
    /\ w # <<>> => u # <<>> /\ (~Blank(w[Len(w)]) => u[Len(u)] = w[Len(w)])

LEMMA ThinMarker ==
    ASSUME NEW u, NEW w, Thinned(u, w), NEW x \in Markings(Repeated),
           w # <<>>, ~Blank(w[Len(w)])
    PROVE  Thinned(Append(u, x), Append(w, x))
<1>1. /\ u \in Seq(Lines) /\ w \in Seq(Lines) /\ Led(u, Repeated) /\ Led(w, Repeated)
      /\ Fields(PutBack(u, Repeated)) = Fields(PutBack(w, Repeated))
      /\ u # <<>> /\ u[Len(u)] = w[Len(w)]
  BY DEF Thinned
<1>2. PICK c \in DOMAIN Repeated : Repeated[c] = x
  BY DEF Markings
<1> DEFINE y == u[Len(u)]
           r == [k \in 1 .. c |-> y]
<1>3. Marking(Repeated, Lines)
  BY RepeatedMarking
<1>4. x \in Lines /\ y \in Lines /\ c \in Nat
  BY <1>1, <1>2, <1>3 DEF Marking
<1>5. r \in Seq(Lines)
  BY <1>4
<1>6. /\ Led(Append(u, x), Repeated)
      /\ PutBack(Append(u, x), Repeated) = PutBack(u, Repeated) \o r
  <2>1. /\ Append(u, Repeated[c]) \in Seq(Lines) /\ Led(Append(u, Repeated[c]), Repeated)
        /\ PutBack(Append(u, Repeated[c]), Repeated)
            = PutBack(u, Repeated) \o [k \in 1 .. c |-> u[Len(u)]]
    <3>1. u \in Seq(Lines)
      BY <1>1
    <3>2. Led(u, Repeated) /\ u # <<>>
      BY <1>1
    <3>3. c \in DOMAIN Repeated
      BY <1>2
    <3> QED BY <1>3, <3>1, <3>2, <3>3, PutBackMarker
  <2> QED BY <1>2, <2>1
<1>7. /\ Led(Append(w, x), Repeated)
      /\ PutBack(Append(w, x), Repeated) = PutBack(w, Repeated) \o r
  <2>1. /\ Append(w, Repeated[c]) \in Seq(Lines) /\ Led(Append(w, Repeated[c]), Repeated)
        /\ PutBack(Append(w, Repeated[c]), Repeated)
            = PutBack(w, Repeated) \o [k \in 1 .. c |-> w[Len(w)]]
    <3>1. w \in Seq(Lines)
      BY <1>1
    <3>2. Led(w, Repeated) /\ w # <<>>
      BY <1>1
    <3>3. c \in DOMAIN Repeated
      BY <1>2
    <3> QED BY <1>3, <3>1, <3>2, <3>3, PutBackMarker
  <2>2. r = [k \in 1 .. c |-> w[Len(w)]]
    BY <1>1
  <2> HIDE DEF r
  <2> QED BY <1>2, <2>1, <2>2
<1> HIDE DEF r, y
<1>8. PutBack(u, Repeated) \in Seq(Lines) /\ PutBack(w, Repeated) \in Seq(Lines)
  BY <1>1, <1>3, PutBackType
<1>9. /\ Fields(PutBack(u, Repeated) \o r) = Fields(PutBack(u, Repeated)) \o Fields(r)
      /\ Fields(PutBack(w, Repeated) \o r) = Fields(PutBack(w, Repeated)) \o Fields(r)
  BY <1>5, <1>8, FieldsConcat
<1>10. Fields(PutBack(Append(u, x), Repeated)) = Fields(PutBack(Append(w, x), Repeated))
  BY <1>1, <1>6, <1>7, <1>9
<1>11. /\ Append(u, x) \in Seq(Lines) /\ Append(u, x) # <<>> /\ Append(u, x)[Len(Append(u, x))] = x
       /\ Append(w, x) \in Seq(Lines) /\ Append(w, x) # <<>> /\ Append(w, x)[Len(Append(w, x))] = x
  BY <1>1, <1>4, AppendLast
<1> QED BY <1>6, <1>7, <1>10, <1>11 DEF Thinned

LEMMA ThinLine ==
    ASSUME NEW u, NEW w, Thinned(u, w), NEW x \in Lines, x \notin Markings(Repeated)
    PROVE  /\ Thinned(Append(u, x), Append(w, x))
           /\ Blank(x) /\ w # <<>> => Thinned(u, Append(w, x))
<1>1. /\ u \in Seq(Lines) /\ w \in Seq(Lines) /\ Led(u, Repeated) /\ Led(w, Repeated)
      /\ Fields(PutBack(u, Repeated)) = Fields(PutBack(w, Repeated))
      /\ w # <<>> => u # <<>>
  BY DEF Thinned
<1>3. Marking(Repeated, Lines)
  BY RepeatedMarking
<1>6. /\ Led(Append(u, x), Repeated)
      /\ PutBack(Append(u, x), Repeated) = Append(PutBack(u, Repeated), x)
  BY <1>1, <1>3, PutBackItem
<1>7. /\ Led(Append(w, x), Repeated)
      /\ PutBack(Append(w, x), Repeated) = Append(PutBack(w, Repeated), x)
  BY <1>1, <1>3, PutBackItem
<1>8. PutBack(u, Repeated) \in Seq(Lines) /\ PutBack(w, Repeated) \in Seq(Lines)
  BY <1>1, <1>3, PutBackType
<1> DEFINE one == <<x>>
           p == PutBack(u, Repeated)
           q == PutBack(w, Repeated)
<1>9. one \in Seq(Lines) /\ p \o one = Append(p, x) /\ q \o one = Append(q, x)
  BY <1>8, AppendItems
<1>10. p \in Seq(Lines) /\ q \in Seq(Lines) /\ Fields(p) = Fields(q)
  BY <1>1, <1>8
<1>11. Blank(x) => Fields(one) = <<>>
  BY FieldsBlank
<1> HIDE DEF p, q, one
<1>12. /\ Fields(p \o one) = Fields(p) \o Fields(one)
       /\ Fields(q \o one) = Fields(q) \o Fields(one)
  BY <1>9, <1>10, FieldsConcat
<1>13. /\ Append(u, x) \in Seq(Lines) /\ Append(u, x) # <<>> /\ Append(u, x)[Len(Append(u, x))] = x
       /\ Append(w, x) \in Seq(Lines) /\ Append(w, x) # <<>> /\ Append(w, x)[Len(Append(w, x))] = x
  BY <1>1, AppendLast
<1>14. Thinned(Append(u, x), Append(w, x))
  <2>1. Fields(Append(p, x)) = Fields(Append(q, x))
    BY <1>9, <1>10, <1>12
  <2>2. Fields(PutBack(Append(u, x), Repeated)) = Fields(PutBack(Append(w, x), Repeated))
    BY <1>6, <1>7, <2>1 DEF p, q
  <2> QED BY <1>6, <1>7, <1>13, <2>2 DEF Thinned
<1>15. ASSUME Blank(x), w # <<>> PROVE Thinned(u, Append(w, x))
  <2>1. Fields(q) \o <<>> = Fields(q)
    <3>1. Fields(q) \in Seq(Lines)
      BY <1>10, FieldsType
    <3> QED BY <3>1
  <2>2. Fields(Append(q, x)) = Fields(p)
    BY <1>9, <1>10, <1>11, <1>12, <1>15, <2>1
  <2>3. Fields(PutBack(u, Repeated)) = Fields(PutBack(Append(w, x), Repeated))
    BY <1>7, <2>2 DEF p, q
  <2> QED BY <1>1, <1>7, <1>13, <1>15, <2>3 DEF Thinned
<1> QED BY <1>14, <1>15

LEMMA BlankRunsPutBack ==
    ASSUME NEW o \in Seq(Lines), Spaced(o)
    PROVE  Thinned(CollapseBlankRuns(o), o)
<1> DEFINE L == Len(o)
           kept == [n \in DOMAIN o |-> KeptLine(o, n)]
           upto(n) == FlattenSeq(Prefix(kept, n))
           P == {n \in Nat : n <= L => Thinned(upto(n), Prefix(o, n))}
<1>0. L \in Nat /\ DOMAIN o = 1 .. L /\ \A n \in 1 .. L : o[n] \in Lines
  BY SeqDomain
<1>1. kept \in Seq(Seq(Lines)) /\ Len(kept) = L
  <2>1. \A n \in 1 .. L : KeptLine(o, n) \in Seq(Lines)
    BY <1>0 DEF KeptLine
  <2> QED BY <1>0, <2>1
<1>2. \A n \in Nat : n + 1 <= L => kept[n + 1] = KeptLine(o, n + 1)
  BY <1>0
<1>k. CollapseBlankRuns(o) = FlattenSeq(kept)
  BY DEF CollapseBlankRuns, KeptLine, KeepsLine
<1>w. /\ Prefix(o, 0) = <<>> /\ Prefix(o, L) = o
      /\ \A n \in Nat : n <= L => Prefix(o, n) \in Seq(Lines) /\ Len(Prefix(o, n)) = n
      /\ \A n \in Nat : n + 1 <= L => Prefix(o, n + 1) = Append(Prefix(o, n), o[n + 1])
  BY PrefixTurn
<1> HIDE DEF kept, L
<1>3. /\ upto(0) = <<>> /\ upto(L) = FlattenSeq(kept)
      /\ \A n \in Nat : n + 1 <= L => upto(n + 1) = upto(n) \o kept[n + 1]
  BY <1>1, FlattenTurn
<1> HIDE DEF upto
<1>4. 0 \in P
  <2>1. Thinned(<<>>, <<>>)
    BY DEF Thinned, Led
  <2> QED BY <1>3, <1>w, <2>1
<1>5. ASSUME NEW n \in P PROVE n + 1 \in P
  <2> DEFINE u == upto(n)
             w == Prefix(o, n)
             x == o[n + 1]
  <2> SUFFICES ASSUME n + 1 <= L PROVE Thinned(upto(n + 1), Prefix(o, n + 1))
    OBVIOUS
  <2>1. n \in Nat /\ n <= L /\ n + 1 <= L /\ n + 1 \in DOMAIN o /\ (n + 1) - 1 = n
    BY <1>0
  <2>2. Thinned(u, w) /\ x \in Lines /\ w \in Seq(Lines) /\ Len(w) = n
    BY <1>0, <1>w, <2>1
  <2>3. upto(n + 1) = u \o KeptLine(o, n + 1) /\ Prefix(o, n + 1) = Append(w, x)
    BY <1>2, <1>3, <1>w, <2>1
  <2>4. u \in Seq(Lines)
    BY <2>2 DEF Thinned
  <2>5. u \o <<x>> = Append(u, x) /\ u \o <<>> = u
    BY <2>2, <2>4, AppendItems
  <2>6. n > 0 => n \in DOMAIN o /\ w # <<>> /\ w[Len(w)] = o[n]
    <3>1. n > 0 => n \in 1 .. L /\ Prefix(o, n)[n] = o[n]
      BY <1>0, <2>1 DEF Prefix
    <3> HIDE DEF w
    <3> QED BY <1>0, <2>2, <3>1 DEF w
  <2> HIDE DEF u, w, x
  <2>7. CASE x \in Markings(Repeated)
    <3>1. n > 0 /\ ~Blank(o[n])
      <4>1. n + 1 > 1 /\ ~Blank(o[(n + 1) - 1])
        BY <2>1, <2>7 DEF Spaced, x
      <4> QED BY <2>1, <4>1
    <3>2. Thinned(Append(u, x), Append(w, x))
      BY <2>2, <2>6, <2>7, <3>1, ThinMarker
    <3>3. KeptLine(o, n + 1) = <<x>>
      BY <2>7, TrimmedLine DEF KeptLine, KeepsLine, x
    <3> QED BY <2>3, <2>5, <3>2, <3>3
  <2>8. CASE x \notin Markings(Repeated) /\ KeepsLine(o, n + 1)
    <3>1. KeptLine(o, n + 1) = <<x>>
      BY <2>8 DEF KeptLine, x
    <3>2. Thinned(Append(u, x), Append(w, x))
      BY <2>2, <2>8, ThinLine
    <3> QED BY <2>3, <2>5, <3>1, <3>2
  <2>9. CASE x \notin Markings(Repeated) /\ ~KeepsLine(o, n + 1)
    <3>1. KeptLine(o, n + 1) = <<>> /\ Blank(x) /\ n > 0
      BY <2>1, <2>9 DEF KeptLine, KeepsLine, x
    <3>2. Thinned(u, Append(w, x))
      BY <2>2, <2>6, <2>9, <3>1, ThinLine
    <3> QED BY <2>3, <2>5, <3>1, <3>2
  <2> QED BY <2>7, <2>8, <2>9
<1> HIDE DEF P
<1>6. P = Nat
  BY <1>4, <1>5, Induction DEF P
<1>7. Thinned(upto(L), Prefix(o, L))
  BY <1>0, <1>6 DEF P
<1> QED BY <1>3, <1>k, <1>w, <1>7

LEMMA CodeAnnounced ==
    ASSUME NEW text \in Text, Len(text) <= Len(Repeated)
    PROVE  Fields(PutBack(CompressCode(text), Repeated)) = Fields(text)
<1> DEFINE o == CompressRepeatedLines(text)
<1>1. /\ o \in Seq(Lines)
      /\ Folded(o, Len(text), text, Trimmed(text), "", Repeated)
      /\ Trimmed(PutBack(o, Repeated)) = Trimmed(text)
  BY LogAnnounced
<1>2. CompressCode(text) = CollapseBlankRuns(o)
  BY DEF CompressCode, CompressRepeatedLines
<1> HIDE DEF o
<1>3. ASSUME NEW n \in DOMAIN o, o[n] \in Markings(Repeated)
      PROVE  n > 1 /\ o[n - 1] \notin Markings(Repeated) /\ ~Blank(o[n - 1])
  <2>1. n > 1 /\ FromKeyed(o[n - 1], text, Trimmed(text), "", Len(text))
    BY <1>1, <1>3 DEF Folded
  <2>2. PICK h \in 1 .. Len(text) : text[h] = o[n - 1] /\ Trimmed(text)[h] # ""
    BY <2>1 DEF FromKeyed
  <2>3. h \in DOMAIN text /\ text[h] \notin Markings(Repeated)
    BY TextLines
  <2>4. TrimSpace(text[h]) # ""
    BY <2>2, <2>3 DEF Trimmed
  <2> QED BY <2>1, <2>2, <2>3, <2>4 DEF Blank
<1>4. Thinned(CollapseBlankRuns(o), o)
  BY <1>1, <1>3, BlankRunsPutBack DEF Spaced
<1>5. Fields(PutBack(o, Repeated)) = Fields(text)
  BY <1>1 DEF Fields
<1> QED BY <1>2, <1>4, <1>5 DEF Thinned
-----------------------------------------------------------------------------
(* Prose: paragraphs.                                                        *)

SplitStep(f, text, n) == IF n = 1 THEN <<<<text[1]>>>> ELSE NextLine(f[n - 1], text[n])

Split(f, text, m) == f = [n \in 1 .. m |-> SplitStep(f, text, n)]

LEMMA SplitExists ==
    ASSUME NEW text, NEW m \in Nat
    PROVE  \E f : Split(f, text, m)
<1> DEFINE P == {k \in Nat : \E f : Split(f, text, k)}
<1>1. 0 \in P
  <2>1. Split([n \in 1 .. 0 |-> <<>>], text, 0)
    BY DEF Split
  <2> QED BY <2>1
<1>2. ASSUME NEW j \in P PROVE j + 1 \in P
  <2>1. PICK g : Split(g, text, j)
    OBVIOUS
  <2> DEFINE k == j + 1
             f == [n \in 1 .. k |-> IF n = k THEN SplitStep(g, text, k) ELSE g[n]]
  <2>2. j \in Nat /\ k \in Nat /\ k # 0
    OBVIOUS
  <2>3. \A n \in 1 .. j : f[n] = g[n]
    BY <2>2
  <2>4. ASSUME NEW n \in 1 .. k PROVE f[n] = SplitStep(f, text, n)
    <3>1. CASE n = k
      <4>1. k = 1 \/ k - 1 \in 1 .. j
        BY <2>2
      <4> QED BY <2>2, <2>3, <3>1, <4>1 DEF SplitStep
    <3>2. CASE n # k
      <4>1. n \in 1 .. j /\ (n = 1 \/ n - 1 \in 1 .. j)
        BY <2>2, <3>2
      <4>2. g[n] = SplitStep(g, text, n)
        BY <2>1, <4>1 DEF Split
      <4> QED BY <2>2, <2>3, <4>1, <4>2 DEF SplitStep
    <3> QED BY <3>1, <3>2
  <2>5. Split(f, text, k)
    BY <2>4 DEF Split
  <2> QED BY <2>2, <2>5
<1> HIDE DEF P
<1>3. P = Nat
  BY <1>1, <1>2, Induction DEF P
<1> QED BY <1>3 DEF P

LEMMA SplitSame ==
    ASSUME NEW s, NEW t, NEW m \in Nat, NEW k \in Nat, m <= k, Agree(s, t, m),
           NEW f, Split(f, s, m), NEW g, Split(g, t, k)
    PROVE  Agree(f, g, m)
<1> DEFINE P == {n \in Nat : n + 1 <= m => f[n + 1] = g[n + 1]}
<1>1. ASSUME NEW n \in 1 .. m PROVE f[n] = SplitStep(f, s, n) /\ g[n] = SplitStep(g, t, n)
  <2>1. n \in 1 .. k
    OBVIOUS
  <2> QED BY <2>1 DEF Split
<1>2. 0 \in P
  <2>1. CASE 1 <= m
    <3>1. 1 \in 1 .. m
      BY <2>1
    <3>2. f[1] = <<<<s[1]>>>> /\ g[1] = <<<<t[1]>>>> /\ s[1] = t[1]
      BY <1>1, <3>1 DEF SplitStep, Agree
    <3> QED BY <3>2
  <2> QED BY <2>1
<1>3. ASSUME NEW n \in P PROVE n + 1 \in P
  <2>1. CASE n + 2 <= m
    <3>1. n + 2 \in 1 .. m /\ n + 2 # 1 /\ (n + 2) - 1 = n + 1 /\ n + 1 <= m /\ (n + 1) + 1 = n + 2
      BY <2>1
    <3>2. f[n + 1] = g[n + 1]
      BY <3>1
    <3>3. f[n + 2] = SplitStep(f, s, n + 2) /\ g[n + 2] = SplitStep(g, t, n + 2)
      BY <1>1, <3>1
    <3>4. f[n + 2] = NextLine(f[n + 1], s[n + 2]) /\ g[n + 2] = NextLine(g[n + 1], t[n + 2])
      BY <3>1, <3>3 DEF SplitStep
    <3>5. s[n + 2] = t[n + 2]
      BY <3>1 DEF Agree
    <3>6. f[n + 2] = g[n + 2]
      BY <3>2, <3>4, <3>5
    <3> QED BY <3>1, <3>6
  <2> QED BY <2>1
<1> HIDE DEF P
<1>4. P = Nat
  BY <1>2, <1>3, Induction DEF P
<1>5. ASSUME NEW n \in 1 .. m PROVE f[n] = g[n]
  <2>1. n - 1 \in P /\ (n - 1) + 1 = n /\ n <= m
    BY <1>4
  <2> QED BY <2>1 DEF P
<1> QED BY <1>5 DEF Agree

LEMMA ParagraphsSplit ==
    ASSUME NEW text, NEW m \in Nat, Len(text) = m
    PROVE  \E f : Split(f, text, m) /\ Paragraphs(text) = f[m]
<1>1. \E f : Split(f, text, m)
  BY SplitExists
<1> QED BY <1>1 DEF Paragraphs, Split, SplitStep

\* The paragraphs of a text of one line, and of a text with one line more.
LEMMA ParagraphsTurn ==
    ASSUME NEW S, NEW x \in S
    PROVE  /\ Paragraphs(<<x>>) = <<<<x>>>>
           /\ \A t \in Seq(S) : t # <<>> => Paragraphs(Append(t, x)) = NextLine(Paragraphs(t), x)
<1>1. Paragraphs(<<x>>) = <<<<x>>>>
  <2> DEFINE one == <<x>>
  <2>1. Len(one) = 1 /\ one[1] = x
    OBVIOUS
  <2> HIDE DEF one
  <2>2. PICK f : Split(f, one, 1) /\ Paragraphs(one) = f[1]
    BY <2>1, ParagraphsSplit
  <2>3. f[1] = <<<<one[1]>>>>
    BY <2>2 DEF Split, SplitStep
  <2> QED BY <2>1, <2>2, <2>3 DEF one
<1>2. ASSUME NEW t \in Seq(S), t # <<>>
      PROVE  Paragraphs(Append(t, x)) = NextLine(Paragraphs(t), x)
  <2> DEFINE m == Len(t)
             u == Append(t, x)
  <2>1. m \in Nat /\ m > 0 /\ m + 1 \in Nat /\ Len(u) = m + 1 /\ u[m + 1] = x
        /\ \A n \in 1 .. m : t[n] = u[n]
    BY <1>2
  <2>2. Agree(t, u, m)
    BY <2>1 DEF Agree
  <2> HIDE DEF u
  <2>3. PICK f : Split(f, t, m) /\ Paragraphs(t) = f[m]
    BY <2>1, ParagraphsSplit
  <2> HIDE DEF m
  <2>4. PICK g : Split(g, u, m + 1) /\ Paragraphs(u) = g[m + 1]
    BY <2>1, ParagraphsSplit
  <2>5. f[m] = g[m]
    <3>1. m <= m + 1 /\ m \in 1 .. m
      BY <2>1
    <3>2. Agree(f, g, m)
      BY <2>1, <2>2, <2>3, <2>4, <3>1, SplitSame
    <3> QED BY <3>1, <3>2 DEF Agree
  <2>6. g[m + 1] = NextLine(g[m], u[m + 1])
    <3>1. m + 1 \in 1 .. m + 1 /\ m + 1 # 1 /\ (m + 1) - 1 = m
      BY <2>1
    <3>2. g[m + 1] = SplitStep(g, u, m + 1)
      BY <2>4, <3>1 DEF Split
    <3> QED BY <3>1, <3>2 DEF SplitStep
  <2>7. Paragraphs(u) = NextLine(Paragraphs(t), x)
    BY <2>1, <2>3, <2>4, <2>5, <2>6
  <2> QED BY <2>7 DEF u
<1> QED BY <1>1, <1>2

\* A paragraph has a line.
Passage(S) == Seq(S) \ {<<>>}

\* No line of it but the first is empty; none but the first and the last.
Solid(p) == \A n \in 2 .. Len(p) : p[n] # ""
Loose(p) == \A n \in 2 .. Len(p) - 1 : p[n] # ""

\* The last line of p would end it.
Ends(p) == Len(p) > 1 /\ Last(p) = ""

LEMMA NextLineTurn ==
    ASSUME NEW S, NEW ps \in Seq(Passage(S)), NEW p \in Passage(S), NEW x \in S
    PROVE  /\ ~Ends(p) =>
                NextLine(Append(ps, p), x) = Append(ps, Append(p, x))
           /\ Ends(p) =>
                NextLine(Append(ps, p), x) = Append(Append(ps, Front(p)), <<x>>)
<1>1. Front(Append(ps, p)) = ps /\ Last(Append(ps, p)) = p
  BY FrontLast
<1> QED BY <1>1 DEF NextLine, Ends

\* The paragraphs ps \o <<p>> of n lines.
SplitOf(ps, p, n, S) ==
    /\ ps \in Seq(Passage(S)) /\ p \in Passage(S) /\ Len(ps) + 1 <= n
    /\ \A k \in DOMAIN ps : Solid(ps[k])
    /\ Loose(p)

LEMMA SplitTurn ==
    ASSUME NEW S, NEW ps, NEW p, NEW n \in Nat, SplitOf(ps, p, n, S), NEW x \in S
    PROVE  \E qs, q : /\ NextLine(Append(ps, p), x) = Append(qs, q)
                      /\ SplitOf(qs, q, n + 1, S)
<1>1. /\ ps \in Seq(Passage(S)) /\ p \in Passage(S) /\ Len(ps) + 1 <= n
      /\ \A k \in DOMAIN ps : Solid(ps[k])
      /\ Loose(p)
  BY DEF SplitOf
<1>2. p \in Seq(S) /\ p # <<>> /\ Len(p) \in Nat /\ Len(p) > 0 /\ Len(ps) \in Nat
  BY <1>1 DEF Passage
<1>n. /\ ~Ends(p) =>
            NextLine(Append(ps, p), x) = Append(ps, Append(p, x))
      /\ Ends(p) =>
            NextLine(Append(ps, p), x) = Append(Append(ps, Front(p)), <<x>>)
  <2>1. ps \in Seq(Passage(S))
    BY <1>1
  <2>2. p \in Passage(S)
    BY <1>1
  <2> QED BY <2>1, <2>2, NextLineTurn
<1>3. CASE ~Ends(p)
  <2> DEFINE q == Append(p, x)
  <2>1. NextLine(Append(ps, p), x) = Append(ps, q)
    BY <1>3, <1>n
  <2>2. /\ q \in Seq(S) /\ q # <<>> /\ Len(q) = Len(p) + 1
        /\ \A k \in 1 .. Len(p) : q[k] = p[k]
    BY <1>2
  <2> HIDE DEF q
  <2>3. ASSUME NEW k \in 2 .. Len(q) - 1 PROVE q[k] # ""
    <3>1. k \in 1 .. Len(p) /\ q[k] = p[k]
      BY <1>2, <2>2
    <3>2. CASE k \in 2 .. Len(p) - 1
      BY <1>1, <3>1, <3>2 DEF Loose
    <3>3. CASE k \notin 2 .. Len(p) - 1
      <4>1. k = Len(p) /\ Len(p) > 1
        BY <1>2, <2>2, <3>1, <3>3
      <4> QED BY <1>3, <3>1, <4>1 DEF Last, Ends
    <3> QED BY <3>2, <3>3
  <2>4. SplitOf(ps, q, n + 1, S)
    <3>1. Len(ps) + 1 <= n + 1
      BY <1>1, <1>2
    <3> QED BY <1>1, <2>2, <2>3, <3>1 DEF SplitOf, Loose, Passage
  <2> QED BY <2>1, <2>4
<1>4. CASE Ends(p)
  <2> DEFINE r == Front(p)
             q == <<x>>
             qs == Append(ps, r)
  <2>1. NextLine(Append(ps, p), x) = Append(qs, q)
    BY <1>4, <1>n
  <2>2. /\ r \in Seq(S) /\ Len(r) = Len(p) - 1
        /\ \A k \in 1 .. Len(p) - 1 : r[k] = p[k]
    <3>1. Len(p) > 1 /\ p \in Seq(S)
      BY <1>2, <1>4 DEF Ends
    <3> QED BY <3>1, FrontItems
  <2>3. q \in Seq(S) /\ q # <<>> /\ Len(q) = 1
    OBVIOUS
  <2> HIDE DEF r, q
  <2>4. Loose(q)
    <3>1. \A k \in 2 .. Len(q) - 1 : FALSE
      BY <2>3
    <3> QED BY <3>1 DEF Loose
  <2>5. r \in Passage(S) /\ Solid(r)
    <3>1. r # <<>>
      <4>1. Len(r) > 0
        <5>1. Len(p) > 1
          BY <1>4 DEF Ends
        <5> QED BY <1>2, <2>2, <5>1
      <4> QED BY <2>2, <4>1, NotEmpty
    <3>2. ASSUME NEW k \in 2 .. Len(r) PROVE r[k] # ""
      <4>1. k \in 1 .. Len(p) - 1 /\ k \in 2 .. Len(p) - 1
        BY <1>2, <2>2
      <4> QED BY <1>1, <2>2, <4>1 DEF Loose
    <3> QED BY <2>2, <3>1, <3>2 DEF Solid, Passage
  <2>6. /\ qs \in Seq(Passage(S)) /\ Len(qs) = Len(ps) + 1 /\ qs[Len(ps) + 1] = r
        /\ \A k \in 1 .. Len(ps) : qs[k] = ps[k]
    BY <1>1, <2>5
  <2> HIDE DEF qs
  <2>7. ASSUME NEW k \in DOMAIN qs PROVE Solid(qs[k])
    <3>1. k \in 1 .. Len(ps) + 1 /\ DOMAIN ps = 1 .. Len(ps)
      BY <1>1, <2>6
    <3>2. CASE k = Len(ps) + 1
      BY <2>5, <2>6, <3>2
    <3>3. CASE k # Len(ps) + 1
      <4>1. k \in 1 .. Len(ps)
        BY <1>2, <3>1, <3>3
      <4> QED BY <1>1, <2>6, <3>1, <4>1
    <3> QED BY <3>2, <3>3
  <2>8. SplitOf(qs, q, n + 1, S)
    <3>1. Len(qs) + 1 <= n + 1 /\ q \in Passage(S)
      BY <1>1, <1>2, <2>3, <2>6 DEF Passage
    <3> QED BY <2>4, <2>6, <2>7, <3>1 DEF SplitOf
  <2> QED BY <2>1, <2>8
<1> QED BY <1>3, <1>4

\* What the paragraphs of a text are like.
LEMMA ParagraphsSound ==
    ASSUME NEW S, NEW text \in Seq(S), text # <<>>
    PROVE  \E ps, p : Paragraphs(text) = Append(ps, p) /\ SplitOf(ps, p, Len(text), S)
<1> DEFINE Good(n) == \E ps, p : /\ Paragraphs(Prefix(text, n)) = Append(ps, p)
                                 /\ SplitOf(ps, p, n, S)
           P == {n \in Nat : n + 1 <= Len(text) => Good(n + 1)}
<1>0. Len(text) \in Nat /\ Len(text) > 0
  OBVIOUS
<1>1. /\ Prefix(text, 0) = <<>> /\ Prefix(text, Len(text)) = text
      /\ \A n \in Nat : n <= Len(text) => Prefix(text, n) \in Seq(S) /\ Len(Prefix(text, n)) = n
      /\ \A n \in Nat : n + 1 <= Len(text) =>
            text[n + 1] \in S /\ Prefix(text, n + 1) = Append(Prefix(text, n), text[n + 1])
  BY PrefixTurn
<1>2. 0 \in P
  <2> DEFINE x == text[1]
             p == <<x>>
  <2>1. x \in S /\ Prefix(text, 1) = <<x>>
    <3>1. 0 + 1 <= Len(text) /\ 0 + 1 = 1
      BY <1>0
    <3>2. Prefix(text, 1) = Append(<<>>, x) /\ x \in S
      BY <1>1, <3>1
    <3> QED BY <3>2
  <2> HIDE DEF x
  <2>2. p \in Seq(S) /\ p # <<>> /\ Len(p) = 1
    BY <2>1
  <2>3. Paragraphs(p) = <<p>> /\ <<p>> = Append(<<>>, p)
    BY <2>1, <2>2, ParagraphsTurn
  <2> HIDE DEF p
  <2>4. Loose(p) /\ p \in Passage(S)
    BY <2>2 DEF Loose, Passage
  <2>5. SplitOf(<<>>, p, 1, S)
    BY <2>4 DEF SplitOf
  <2>6. Good(1)
    BY <2>1, <2>3, <2>5 DEF p
  <2> QED BY <2>6
<1>3. ASSUME NEW n \in P PROVE n + 1 \in P
  <2> DEFINE m == n + 1
             t == Prefix(text, m)
             x == text[m + 1]
  <2> SUFFICES ASSUME m + 1 <= Len(text) PROVE Good(m + 1)
    OBVIOUS
  <2>1. m \in Nat /\ m + 1 <= Len(text) /\ m <= Len(text) /\ m > 0
    BY <1>0
  <2>2. Good(m)
    BY <2>1
  <2> HIDE DEF m, P
  <2>3. x \in S /\ Prefix(text, m + 1) = Append(t, x) /\ t \in Seq(S) /\ Len(t) = m
    BY <1>1, <2>1
  <2>4. PICK ps, p : Paragraphs(t) = Append(ps, p) /\ SplitOf(ps, p, m, S)
    BY <2>2
  <2> HIDE DEF t, x
  <2>5. Paragraphs(Append(t, x)) = NextLine(Paragraphs(t), x)
    <3>1. t # <<>>
      BY <2>1, <2>3
    <3> QED BY <2>3, <3>1, ParagraphsTurn
  <2>6. \E qs, q : NextLine(Append(ps, p), x) = Append(qs, q) /\ SplitOf(qs, q, m + 1, S)
    BY <2>1, <2>3, <2>4, SplitTurn
  <2> QED BY <2>3, <2>4, <2>5, <2>6
<1> HIDE DEF P, Good
<1>4. P = Nat
  BY <1>2, <1>3, Induction DEF P
<1>5. Good(Len(text))
  <2>1. Len(text) - 1 \in P /\ (Len(text) - 1) + 1 = Len(text)
    BY <1>0, <1>4
  <2> QED BY <1>0, <2>1 DEF P
<1> QED BY <1>1, <1>5 DEF Good

\* Reading on to the end of a paragraph.
LEMMA ParagraphGrows ==
    ASSUME NEW S, NEW t \in Seq(S), NEW qs \in Seq(Passage(S)), NEW p \in Passage(S), Loose(p),
           Paragraphs(Append(t, p[1])) = Append(qs, <<p[1]>>)
    PROVE  Paragraphs(t \o p) = Append(qs, p)
<1> DEFINE Good(n) == Paragraphs(t \o Prefix(p, n)) = Append(qs, Prefix(p, n))
           P == {n \in Nat : n + 1 <= Len(p) => Good(n + 1)}
<1>0. p \in Seq(S) /\ Len(p) \in Nat /\ Len(p) > 0
  BY DEF Passage
<1>1. /\ Prefix(p, 0) = <<>> /\ Prefix(p, Len(p)) = p
      /\ \A n \in Nat : n <= Len(p) => Prefix(p, n) \in Seq(S) /\ Len(Prefix(p, n)) = n
      /\ \A n \in Nat : n + 1 <= Len(p) =>
            p[n + 1] \in S /\ Prefix(p, n + 1) = Append(Prefix(p, n), p[n + 1])
  BY <1>0, PrefixTurn
<1>2. 0 \in P
  <2> DEFINE x == p[1]
  <2>1. x \in S /\ Prefix(p, 1) = <<x>>
    <3>1. 0 + 1 <= Len(p) /\ 0 + 1 = 1
      BY <1>0
    <3>2. Prefix(p, 1) = Append(<<>>, x) /\ x \in S
      BY <1>1, <3>1
    <3> QED BY <3>2
  <2>2. Paragraphs(Append(t, x)) = Append(qs, <<x>>)
    OBVIOUS
  <2> HIDE DEF x
  <2>3. t \o <<x>> = Append(t, x)
    BY <2>1, AppendItems
  <2>4. Good(1)
    BY <2>1, <2>2, <2>3
  <2> QED BY <2>4
<1>3. ASSUME NEW n \in P PROVE n + 1 \in P
  <2> DEFINE m == n + 1
             u == Prefix(p, m)
             x == p[m + 1]
  <2> SUFFICES ASSUME m + 1 <= Len(p) PROVE Good(m + 1)
    OBVIOUS
  <2>1. m \in Nat /\ m + 1 <= Len(p) /\ m <= Len(p) /\ m > 0
    BY <1>0
  <2>2. Good(m)
    BY <2>1
  <2> HIDE DEF m, P
  <2>3. x \in S /\ Prefix(p, m + 1) = Append(u, x) /\ u \in Seq(S) /\ Len(u) = m
    BY <1>1, <2>1
  <2>4. ~Ends(u)
    <3> SUFFICES ASSUME m > 1 PROVE Last(u) # ""
      BY <2>3 DEF Ends
    <3>1. m \in 2 .. Len(p) - 1 /\ m \in 1 .. m
      BY <1>0, <2>1
    <3>2. u[m] = p[m] /\ p[m] # ""
      BY <3>1 DEF Prefix, Loose
    <3> QED BY <2>3, <3>2 DEF Last
  <2>5. u \in Passage(S)
    BY <2>1, <2>3 DEF Passage
  <2>g. Paragraphs(t \o u) = Append(qs, u)
    BY <2>2
  <2> HIDE DEF u, x, Good
  <2>6. NextLine(Append(qs, u), x) = Append(qs, Append(u, x))
    <3>1. x \in S
      BY <2>3
    <3> QED BY <2>4, <2>5, <3>1, NextLineTurn
  <2>7. t \o u \in Seq(S) /\ t \o u # <<>> /\ Append(t \o u, x) = t \o Append(u, x)
    <3>1. t \o u \in Seq(S) /\ Len(t \o u) = Len(t) + Len(u) /\ Len(t) \in Nat
      BY <2>3, ConcatItems
    <3>2. \A v \in Seq(S), y \in S :
            Append(t \o v, y) = t \o Append(v, y) /\ Append(v, y) \in Seq(S)
      BY AppendConcat, Zenon
    <3>3. Append(t \o u, x) = t \o Append(u, x)
      BY <2>3, <3>2
    <3>4. Len(t \o u) > 0
      BY <2>1, <2>3, <3>1
    <3>5. t \o u # <<>>
      BY <3>1, <3>4, NotEmpty
    <3> QED BY <3>1, <3>3, <3>5
  <2>8. Paragraphs(Append(t \o u, x)) = NextLine(Paragraphs(t \o u), x)
    BY <2>3, <2>7, ParagraphsTurn
  <2>9. Paragraphs(t \o Append(u, x)) = Append(qs, Append(u, x))
    BY <2>g, <2>6, <2>7, <2>8
  <2> QED BY <2>3, <2>9 DEF Good
<1> HIDE DEF P, Good
<1>4. P = Nat
  BY <1>2, <1>3, Induction DEF P
<1>5. Good(Len(p))
  <2>1. Len(p) - 1 \in P /\ (Len(p) - 1) + 1 = Len(p)
    BY <1>0, <1>4
  <2> QED BY <1>0, <2>1 DEF P
<1> QED BY <1>1, <1>5 DEF Good
\* Paragraphs that were joined are found again.
LEMMA JoinSplit ==
    ASSUME NEW C \in Seq(Passage(Lines)), C # <<>>,
           \A n \in 1 .. Len(C) - 1 : Solid(C[n]), Loose(C[Len(C)])
    PROVE  Paragraphs(JoinParagraphs(C)) = C
<1> DEFINE gap == <<"">>
           Part(n) == IF n = 1 THEN C[n] ELSE gap \o C[n]
           parts == [n \in DOMAIN C |-> Part(n)]
           upto(n) == FlattenSeq(Prefix(parts, n))
           Good(n) == upto(n) # <<>> /\ Paragraphs(upto(n)) = Prefix(C, n)
           P == {n \in Nat : n + 1 <= Len(C) => Good(n + 1)}
<1>0. Len(C) \in Nat /\ Len(C) > 0 /\ DOMAIN C = 1 .. Len(C)
      /\ \A n \in 1 .. Len(C) : C[n] \in Passage(Lines)
  OBVIOUS
<1>g. gap \in Seq(Lines) /\ "" \in Lines
  <2>1. "" \in Lines
    BY DEF Lines, Line
  <2>2. \A x \in Lines : <<x>> \in Seq(Lines)
    OBVIOUS
  <2> QED BY <2>1, <2>2
<1>j. JoinParagraphs(C) = FlattenSeq(parts)
  BY DEF JoinParagraphs
<1>c. /\ Prefix(C, 0) = <<>> /\ Prefix(C, Len(C)) = C
      /\ \A n \in Nat : n <= Len(C) => Prefix(C, n) \in Seq(Passage(Lines)) /\ Len(Prefix(C, n)) = n
      /\ \A n \in Nat : n + 1 <= Len(C) =>
            C[n + 1] \in Passage(Lines) /\ Prefix(C, n + 1) = Append(Prefix(C, n), C[n + 1])
  BY PrefixTurn
<1>l. \A n \in 1 .. Len(C) : Loose(C[n])
  <2>1. ASSUME NEW n \in 1 .. Len(C) PROVE Loose(C[n])
    <3>1. CASE n = Len(C)
      BY <3>1
    <3>2. CASE n # Len(C)
      <4>0. Len(C) \in Nat
        BY <1>0
      <4>1. n \in 1 .. Len(C) - 1
        BY <3>2, <4>0
      <4>2. Solid(C[n]) /\ Len(C[n]) \in Nat
        BY <1>0, <4>1 DEF Passage
      <4>3. \A k \in 2 .. Len(C[n]) - 1 : k \in 2 .. Len(C[n])
        BY <4>2
      <4> QED BY <4>2, <4>3 DEF Solid, Loose
    <3> QED BY <3>1, <3>2
  <2> QED BY <2>1
<1> HIDE DEF gap
<1>p. \A n \in 1 .. Len(C) : Part(n) \in Seq(Lines)
  <2>1. ASSUME NEW n \in 1 .. Len(C) PROVE Part(n) \in Seq(Lines)
    <3>1. C[n] \in Seq(Lines)
      BY <1>0 DEF Passage
    <3>2. gap \o C[n] \in Seq(Lines)
      BY <1>g, <3>1, ConcatItems
    <3> QED BY <3>1, <3>2
  <2> QED BY <2>1
<1>q. /\ parts \in Seq(Seq(Lines)) /\ Len(parts) = Len(C)
      /\ \A n \in 1 .. Len(C) : parts[n] = Part(n)
  <2> HIDE DEF Part
  <2> QED BY <1>0, <1>p
<1> HIDE DEF parts
<1>u. /\ upto(0) = <<>> /\ upto(Len(C)) = FlattenSeq(parts)
      /\ \A n \in Nat : n <= Len(C) => upto(n) \in Seq(Lines)
      /\ \A n \in Nat : n + 1 <= Len(C) => upto(n + 1) = upto(n) \o parts[n + 1]
  BY <1>q, FlattenTurn
<1> HIDE DEF upto
\* A paragraph that begins behind t, up to its end.
<1>r. ASSUME NEW qs \in Seq(Passage(Lines)), NEW t \in Seq(Lines), NEW n \in 1 .. Len(C),
             Paragraphs(Append(t, C[n][1])) = Append(qs, <<C[n][1]>>)
      PROVE  Paragraphs(t \o C[n]) = Append(qs, C[n])
  <2>1. C[n] \in Passage(Lines) /\ Loose(C[n])
    BY <1>0, <1>l
  <2> QED BY <1>r, <2>1, ParagraphGrows
<1>1. 0 \in P
  <2> DEFINE p == C[1]
             x == p[1]
  <2>1. 1 \in 1 .. Len(C) /\ 0 + 1 <= Len(C) /\ 0 + 1 = 1 /\ 1 <= Len(C)
    BY <1>0
  <2>2. p \in Passage(Lines) /\ p \in Seq(Lines) /\ p # <<>> /\ x \in Lines
    BY <1>0, <2>1 DEF Passage
  <2>3. upto(1) = <<>> \o p
    BY <1>q, <1>u, <2>1
  <2>4. <<>> \o p = p
    BY <2>2
  <2>5. Paragraphs(Append(<<>>, x)) = Append(<<>>, <<x>>)
    <3> HIDE DEF x
    <3>1. Append(<<>>, x) = <<x>> /\ Append(<<>>, <<x>>) = <<<<x>>>>
      OBVIOUS
    <3>2. Paragraphs(<<x>>) = <<<<x>>>>
      BY <2>2, ParagraphsTurn
    <3> QED BY <3>1, <3>2
  <2>6. Paragraphs(<<>> \o p) = Append(<<>>, p)
    <3>1. <<>> \in Seq(Passage(Lines)) /\ <<>> \in Seq(Lines)
      OBVIOUS
    <3> QED BY <1>r, <2>1, <2>5, <3>1
  <2>7. Prefix(C, 1) = Append(<<>>, p)
    BY <1>c, <2>1
  <2>8. Good(1)
    BY <2>2, <2>3, <2>4, <2>6, <2>7
  <2> QED BY <2>8
<1>2. ASSUME NEW n \in P PROVE n + 1 \in P
  <2> DEFINE m == n + 1
  <2> SUFFICES ASSUME m + 1 <= Len(C) PROVE Good(m + 1)
    OBVIOUS
  <2>1. m \in Nat /\ m + 1 <= Len(C) /\ m <= Len(C) /\ m > 0 /\ n \in Nat /\ n + 1 = m
        /\ m \in 1 .. Len(C) - 1 /\ m + 1 \in 1 .. Len(C) /\ m + 1 # 1 /\ m \in 1 .. Len(C) /\ n <= Len(C)
    BY <1>0
  <2>2. Good(m)
    BY <2>1
  <2> HIDE DEF m, P
  <2> DEFINE u == upto(m)
             a == C[m]
             p == C[m + 1]
             x == p[1]
             qs == Prefix(C, n)
             t == Append(u, "")
             e == Append(a, "")
  <2>3. u \in Seq(Lines) /\ u # <<>> /\ qs \in Seq(Passage(Lines)) /\ a \in Passage(Lines)
        /\ Solid(a) /\ p \in Passage(Lines) /\ Paragraphs(u) = Prefix(C, m)
    BY <1>0, <1>c, <1>u, <2>1, <2>2
  <2>4. Prefix(C, m) = Append(qs, a) /\ Prefix(C, m + 1) = Append(Prefix(C, m), p)
    BY <1>c, <2>1
  <2>5. p \in Seq(Lines) /\ p # <<>> /\ x \in Lines
    BY <2>3 DEF Passage
  <2>6. upto(m + 1) = u \o (gap \o p)
    BY <1>q, <1>u, <2>1
  <2> HIDE DEF u, a, p, qs
  <2>7. u \o (gap \o p) = t \o p /\ t \in Seq(Lines) /\ t # <<>>
    <3>a. gap \in Seq(Lines)
      BY <1>g
    <3>b. u \in Seq(Lines)
      BY <2>3
    <3>c. p \in Seq(Lines)
      BY <2>5
    <3>1. u \o (gap \o p) = (u \o gap) \o p
      BY <3>a, <3>b, <3>c, ConcatConcat
    <3>2. u \o gap = t
      <4>1. \A y \in Lines : u \o <<y>> = Append(u, y)
        BY <3>b
      <4> QED BY <1>g, <4>1 DEF gap
    <3>3. t \in Seq(Lines) /\ t # <<>>
      BY <1>g, <2>3, AppendLast
    <3> QED BY <3>1, <3>2, <3>3
  <2>8. a \in Seq(Lines) /\ Len(a) \in Nat /\ Len(a) > 0
    BY <2>3 DEF Passage
  <2>9. Paragraphs(t) = Append(qs, e)
    <3>1. ~Ends(a)
      <4>1. Len(a) > 1 => Len(a) \in 2 .. Len(a)
        BY <2>8
      <4>2. Len(a) > 1 => a[Len(a)] # ""
        BY <2>3, <4>1 DEF Solid
      <4> QED BY <4>2 DEF Ends, Last
    <3>a. qs \in Seq(Passage(Lines))
      BY <2>3
    <3>b. a \in Passage(Lines)
      BY <2>3
    <3>c. \A y \in Lines :
            /\ ~Ends(a) => NextLine(Append(qs, a), y) = Append(qs, Append(a, y))
            /\ Ends(a) => NextLine(Append(qs, a), y) = Append(Append(qs, Front(a)), <<y>>)
      BY <3>a, <3>b, NextLineTurn
    <3>2. NextLine(Append(qs, a), "") = Append(qs, e)
      BY <1>g, <3>1, <3>c
    <3>3. Paragraphs(t) = NextLine(Paragraphs(u), "")
      BY <1>g, <2>3, ParagraphsTurn
    <3> QED BY <2>3, <2>4, <3>2, <3>3
  <2>10. e \in Passage(Lines) /\ Ends(e) /\ Front(e) = a
    <3>1. Front(e) = a /\ Last(e) = ""
      BY <1>g, <2>8, FrontLast
    <3>2. e \in Seq(Lines) /\ Len(e) = Len(a) + 1 /\ e # <<>>
      <4>1. \A y \in Lines : /\ Append(a, y) \in Seq(Lines) /\ Append(a, y) # <<>>
                              /\ Len(Append(a, y)) = Len(a) + 1
        BY <2>8
      <4> QED BY <1>g, <4>1
    <3> HIDE DEF e
    <3>3. e \in Passage(Lines)
      BY <3>2 DEF Passage
    <3>4. Len(e) > 1
      BY <2>8, <3>2
    <3> QED BY <3>1, <3>3, <3>4 DEF Ends
  <2> HIDE DEF t, e, x
  <2>11. Paragraphs(Append(t, x)) = Append(Append(qs, a), <<x>>)
    <3>1. Paragraphs(Append(t, x)) = NextLine(Paragraphs(t), x)
      BY <2>5, <2>7, ParagraphsTurn
    <3>2. NextLine(Append(qs, e), x) = Append(Append(qs, Front(e)), <<x>>)
      BY <2>3, <2>5, <2>10, NextLineTurn
    <3> QED BY <2>9, <2>10, <3>1, <3>2
  <2>12. Paragraphs(t \o p) = Append(Append(qs, a), p)
    <3>1. Append(qs, a) \in Seq(Passage(Lines))
      BY <2>3
    <3> QED BY <1>r, <2>1, <2>7, <2>11, <3>1 DEF p, x
  <2>13. t \o p # <<>>
    <3>1. t \o p \in Seq(Lines) /\ Len(t \o p) = Len(t) + Len(p)
      BY <2>5, <2>7, ConcatItems
    <3>2. Len(t) \in Nat /\ Len(t) > 0 /\ Len(p) \in Nat
      BY <2>5, <2>7, NotEmpty
    <3>3. Len(t \o p) > 0
      BY <3>1, <3>2
    <3> QED BY <3>1, <3>3, NotEmpty
  <2>14. Good(m + 1)
    BY <2>4, <2>6, <2>7, <2>12, <2>13
  <2> QED BY <2>14
<1> HIDE DEF P, Good
<1>3. P = Nat
  BY <1>1, <1>2, Induction DEF P
<1>4. Good(Len(C))
  <2>1. Len(C) - 1 \in P /\ (Len(C) - 1) + 1 = Len(C)
    BY <1>0, <1>3
  <2> QED BY <1>0, <2>1 DEF P
<1> QED BY <1>4, <1>c, <1>j, <1>u DEF Good

\* The fields of each paragraph, and the paragraph that is a marker.
Words(paragraphs) == [j \in DOMAIN paragraphs |-> Fields(paragraphs[j])]
Alone == [n \in DOMAIN Repeated |-> <<Repeated[n]>>]

LEMMA SolidLoose ==
    ASSUME NEW p, Len(p) \in Nat, Solid(p)
    PROVE  Loose(p)
<1>1. \A n \in 2 .. Len(p) - 1 : n \in 2 .. Len(p)
  OBVIOUS
<1> QED BY <1>1 DEF Solid, Loose

LEMMA AloneMarking ==
    /\ Marking(Alone, Passage(Lines)) /\ Len(Alone) = Len(Repeated)
    /\ \A m \in Markings(Alone) : Solid(m) /\ m \notin Seq(Line)
<1>1. DOMAIN Alone = DOMAIN Repeated /\ DOMAIN Repeated = 1 .. Len(Repeated) /\ Len(Repeated) \in Nat
  BY MarkersAssumption DEF Alone
<1>2. Len(Alone) = Len(Repeated)
  BY <1>1
<1>3. ASSUME NEW n \in DOMAIN Repeated
      PROVE  /\ Alone[n] \in Passage(Lines) /\ Solid(Alone[n]) /\ Alone[n] \notin Seq(Line)
             /\ Alone[n][1] = Repeated[n]
  <2> DEFINE x == Repeated[n]
             p == <<x>>
  <2>1. x \in Lines /\ x \notin Line
    BY RepeatedMarking, MarkersAssumption DEF Marking
  <2>2. Alone[n] = p
    BY DEF Alone
  <2> HIDE DEF x
  <2>3. p \in Seq(Lines) /\ p # <<>> /\ Len(p) = 1 /\ p[1] = x /\ 1 \in DOMAIN p
    BY <2>1
  <2> HIDE DEF p
  <2>4. Solid(p)
    <3>1. \A k \in 2 .. Len(p) : FALSE
      BY <2>3
    <3> QED BY <3>1 DEF Solid
  <2>5. p \notin Seq(Line)
    BY <2>1, <2>3
  <2> QED BY <2>2, <2>3, <2>4, <2>5 DEF Passage, x
<1>4. ASSUME NEW m \in DOMAIN Alone, NEW n \in DOMAIN Alone, Alone[m] = Alone[n] PROVE m = n
  <2>1. Repeated[m] = Repeated[n]
    BY <1>1, <1>3, <1>4
  <2> QED BY <1>1, <2>1, MarkersAssumption
<1> QED BY <1>1, <1>2, <1>3, <1>4 DEF Marking, Markings

LEMMA TextAnnounced ==
    ASSUME NEW text \in Text, text # <<>>, Len(text) <= Len(Repeated)
    PROVE  Words(PutBack(Paragraphs(CompressRepeatedParagraphs(text)), Alone))
             = Words(Paragraphs(text))
<1> DEFINE items == Paragraphs(text)
           keys == Words(items)
           L == Len(items)
           C == CollapseAdjacent(items, keys, <<>>, Alone)
           q == PutBack(C, Alone)
<1>0. text \in Seq(Line) /\ Len(text) \in Nat /\ Len(Repeated) \in Nat
  BY MarkersAssumption DEF Text
<1>c. CompressRepeatedParagraphs(text) = JoinParagraphs(C)
  BY DEF CompressRepeatedParagraphs, Words, Alone
<1>k. keys = [j \in DOMAIN items |-> Fields(items[j])]
  BY DEF Words
<1> HIDE DEF items, keys, C, q
<1>1. PICK ps, p : items = Append(ps, p) /\ SplitOf(ps, p, Len(text), Line)
  BY <1>0, ParagraphsSound DEF items
<1>2. /\ items \in Seq(Passage(Line)) /\ L = Len(ps) + 1 /\ Len(ps) \in Nat /\ L <= Len(text)
      /\ \A n \in 1 .. L - 1 : Solid(items[n])
      /\ Loose(items[L])
  <2>1. ps \in Seq(Passage(Line)) /\ p \in Passage(Line) /\ Len(ps) + 1 <= Len(text)
        /\ (\A k \in DOMAIN ps : Solid(ps[k])) /\ Loose(p)
    BY <1>1 DEF SplitOf
  <2>2. /\ items \in Seq(Passage(Line)) /\ L = Len(ps) + 1 /\ Len(ps) \in Nat
        /\ items[Len(ps) + 1] = p
        /\ DOMAIN ps = 1 .. Len(ps)
        /\ \A n \in 1 .. Len(ps) : items[n] = ps[n]
    BY <1>1, <2>1
  <2>3. \A n \in 1 .. L - 1 : n \in 1 .. Len(ps)
    BY <2>2
  <2> QED BY <2>1, <2>2, <2>3
<1>3. /\ L \in Nat /\ L > 0 /\ DOMAIN items = 1 .. L /\ L <= Len(Repeated)
      /\ \A n \in 1 .. L : items[n] \in Passage(Line)
  <2>1. Len(ps) \in Nat /\ L = Len(ps) + 1 /\ L <= Len(text)
    BY <1>2
  <2>2. DOMAIN items = 1 .. L /\ \A n \in 1 .. L : items[n] \in Passage(Line)
    BY <1>2
  <2>3. Len(text) <= Len(Repeated)
    OBVIOUS
  <2> HIDE DEF L
  <2>4. L \in Nat /\ L > 0 /\ L <= Len(Repeated)
    BY <1>0, <2>1, <2>3
  <2> QED BY <2>2, <2>4
<1>4. items \in Seq(Passage(Lines))
  <2>1. \A v \in Passage(Line) : v \in Passage(Lines)
    <3>1. \A x \in Line : x \in Lines
      BY DEF Lines
    <3>2. \A v \in Seq(Line) : v \in Seq(Lines)
      BY <3>1
    <3> QED BY <3>2 DEF Passage
  <2>2. \A n \in 1 .. L : items[n] \in Passage(Lines)
    BY <1>3, <2>1
  <2> QED BY <1>2, <2>2
<1>5. \A n \in DOMAIN items : items[n] \notin Markings(Alone)
  BY <1>3, AloneMarking DEF Passage
<1>6. Len(keys) = L /\ DOMAIN keys = 1 .. L
  BY <1>3, <1>k
<1>7. C \in Seq(Passage(Lines)) /\ Folded(C, L, items, keys, <<>>, Alone)
  <2>1. Marking(Alone, Passage(Lines)) /\ Len(items) <= Len(Alone)
    BY <1>3, AloneMarking
  <2>2. Len(keys) = Len(items)
    BY <1>6
  <2> QED BY <1>4, <1>5, <2>1, <2>2, Collapsed DEF C
<1>8. /\ Led(C, Alone) /\ Len(q) = L
      /\ \A n \in 1 .. L : FromKey(q[n], keys[n], items, keys, L)
      /\ \A n \in DOMAIN C : C[n] \in Markings(Alone) \/ From(C[n], items, L)
      /\ \A n \in DOMAIN C : n < Len(C) => C[n] \in Markings(Alone) \/ From(C[n], items, L - 1)
  BY <1>7 DEF Folded, q
<1>9. C # <<>> /\ Len(C) \in Nat /\ Len(C) > 0 /\ DOMAIN C = 1 .. Len(C)
  <2>1. Len(PutBack(<<>>, Alone)) = 0
    BY FoldNothing DEF Folded
  <2>2. C # <<>>
    BY <1>3, <1>8, <2>1 DEF q
  <2>3. Len(C) \in Nat /\ (C # <<>> <=> Len(C) > 0)
    BY <1>7, NotEmpty
  <2>4. DOMAIN C = 1 .. Len(C)
    BY <1>7, SeqDomain, Zenon
  <2> QED BY <2>2, <2>3, <2>4
<1> HIDE DEF L
<1>10. \A n \in 1 .. Len(C) - 1 : Solid(C[n])
  <2>1. ASSUME NEW n \in 1 .. Len(C) - 1 PROVE Solid(C[n])
    <3>1. n \in DOMAIN C /\ n < Len(C)
      BY <1>9
    <3>2. CASE C[n] \in Markings(Alone)
      BY <3>2, AloneMarking
    <3>3. CASE C[n] \notin Markings(Alone)
      <4>1. PICK h \in 1 .. L - 1 : items[h] = C[n]
        BY <1>8, <3>1, <3>3 DEF From
      <4> QED BY <1>2, <4>1
    <3> QED BY <3>2, <3>3
  <2> QED BY <2>1
<1>11. \A v \in Passage(Lines) : Len(v) \in Nat
  BY DEF Passage
<1>12. Loose(C[Len(C)])
  <2> DEFINE v == C[Len(C)]
  <2>1. Len(C) \in DOMAIN C
    BY <1>9
  <2>2. v \in Passage(Lines)
    BY <1>7, <2>1
  <2>3. CASE v \in Markings(Alone)
    <3>1. Solid(v)
      BY <2>3, AloneMarking
    <3> QED BY <1>11, <2>2, <3>1, SolidLoose
  <2>4. CASE v \notin Markings(Alone)
    <3>1. From(v, items, L)
      BY <1>8, <2>1, <2>4
    <3>2. PICK h \in 1 .. L : items[h] = v
      BY <3>1 DEF From
    <3>3. CASE h = L
      BY <1>2, <3>2, <3>3
    <3>4. CASE h # L
      <4>1. h \in 1 .. L - 1
        BY <1>3, <3>2, <3>4
      <4>2. Solid(v)
        BY <1>2, <3>2, <4>1
      <4> QED BY <1>11, <2>2, <4>2, SolidLoose
    <3> QED BY <3>3, <3>4
  <2> QED BY <2>3, <2>4
<1>13. Paragraphs(JoinParagraphs(C)) = C
  BY <1>7, <1>9, <1>10, <1>12, JoinSplit
<1>14. q \in Seq(Passage(Lines)) /\ DOMAIN q = 1 .. L
  <2>1. q \in Seq(Passage(Lines))
    <3>1. Marking(Alone, Passage(Lines)) /\ Led(C, Alone) /\ C \in Seq(Passage(Lines))
      BY <1>7, <1>8, AloneMarking
    <3> QED BY <3>1, PutBackType DEF q
  <2>2. DOMAIN q = 1 .. Len(q)
    BY <2>1, SeqDomain, Zenon
  <2> QED BY <1>8, <2>1, <2>2
<1>15. ASSUME NEW n \in 1 .. L PROVE Fields(q[n]) = keys[n]
  <2>1. FromKey(q[n], keys[n], items, keys, L)
    BY <1>8
  <2>2. PICK h \in 1 .. L : items[h] = q[n] /\ keys[h] = keys[n]
    BY <2>1 DEF FromKey
  <2>3. keys[h] = Fields(items[h])
    BY <1>3, <1>k
  <2> QED BY <2>2, <2>3
<1>16. Words(q) = keys
  <2>1. Words(q) = [n \in 1 .. L |-> keys[n]]
    BY <1>14, <1>15 DEF Words
  <2>2. keys = [n \in 1 .. L |-> keys[n]]
    <3>1. keys = [n \in 1 .. L |-> Fields(items[n])]
      BY <1>3, <1>k
    <3> QED BY <3>1
  <2> QED BY <2>1, <2>2
<1> QED BY <1>c, <1>13, <1>16 DEF q, keys, items
-----------------------------------------------------------------------------
(* Diffs.                                                                    *)

DiffStep(f, text, n) ==
    IF n = 0 THEN [out |-> <<>>, omitted |-> 0] ELSE DiffLine(f[n - 1], text[n])

DiffLoop(f, text, m) == f = [n \in 0 .. m |-> DiffStep(f, text, n)]

LEMMA DiffExists ==
    ASSUME NEW text, NEW m \in Nat
    PROVE  \E f : DiffLoop(f, text, m)
<1> DEFINE P == {k \in Nat : \E f : DiffLoop(f, text, k)}
<1>1. 0 \in P
  <2>1. DiffLoop([n \in 0 .. 0 |-> [out |-> <<>>, omitted |-> 0]], text, 0)
    BY DEF DiffLoop, DiffStep
  <2> QED BY <2>1
<1>2. ASSUME NEW j \in P PROVE j + 1 \in P
  <2>1. PICK g : DiffLoop(g, text, j)
    OBVIOUS
  <2> DEFINE k == j + 1
             f == [n \in 0 .. k |-> IF n = k THEN DiffStep(g, text, k) ELSE g[n]]
  <2>2. j \in Nat /\ k \in Nat /\ k # 0
    OBVIOUS
  <2>3. \A n \in 0 .. j : f[n] = g[n]
    BY <2>2
  <2>4. ASSUME NEW n \in 0 .. k PROVE f[n] = DiffStep(f, text, n)
    <3>1. CASE n = k
      BY <2>2, <2>3, <3>1 DEF DiffStep
    <3>2. CASE n # k
      <4>1. n \in 0 .. j
        BY <2>2, <3>2
      <4>2. g[n] = DiffStep(g, text, n)
        BY <2>1, <4>1 DEF DiffLoop
      <4> QED BY <2>2, <2>3, <4>1, <4>2 DEF DiffStep
    <3> QED BY <3>1, <3>2
  <2>5. DiffLoop(f, text, k)
    BY <2>4 DEF DiffLoop
  <2> QED BY <2>2, <2>5
<1> HIDE DEF P
<1>3. P = Nat
  BY <1>1, <1>2, Induction DEF P
<1> QED BY <1>3 DEF P

\* The loop of compressDiff.
LEMMA DiffTurns ==
    ASSUME NEW text, Len(text) \in Nat
    PROVE  \E f : /\ f[0] = [out |-> <<>>, omitted |-> 0]
                  /\ \A n \in Nat : n + 1 <= Len(text) => f[n + 1] = DiffLine(f[n], text[n + 1])
                  /\ CompressDiff(text) = FlushOmitted(f[Len(text)]).out
<1>1. \E f : DiffLoop(f, text, Len(text))
  BY DiffExists
<1>2. PICK f : DiffLoop(f, text, Len(text)) /\ CompressDiff(text) = FlushOmitted(f[Len(text)]).out
  BY <1>1 DEF CompressDiff, DiffLoop, DiffStep
<1>3. f[0] = [out |-> <<>>, omitted |-> 0]
  <2>1. 0 \in 0 .. Len(text)
    OBVIOUS
  <2>2. f[0] = DiffStep(f, text, 0)
    BY <1>2, <2>1 DEF DiffLoop
  <2> QED BY <2>2 DEF DiffStep
<1>4. ASSUME NEW n \in Nat, n + 1 <= Len(text) PROVE f[n + 1] = DiffLine(f[n], text[n + 1])
  <2>1. n + 1 \in 0 .. Len(text) /\ n + 1 # 0 /\ (n + 1) - 1 = n
    BY <1>4
  <2>2. f[n + 1] = DiffStep(f, text, n + 1)
    BY <1>2, <2>1 DEF DiffLoop
  <2> QED BY <2>1, <2>2 DEF DiffStep
<1> QED BY <1>2, <1>3, <1>4

\* What is said of n lines of context.
Said(n) == IF n > 1 THEN <<Omitted[n]>> ELSE <<>>

OmittedIn(S) == \A n \in Nat : Omitted[n] \in S

\* A line of a diff is kept, dropped or counted.
LineDone(acc, o, c, x) ==
    /\ x \in Signals => DiffLine(acc, x) = [out |-> Append(o \o Said(c), x), omitted |-> 0]
    /\ x \notin Signals /\ Blank(x) => DiffLine(acc, x) = acc
    /\ x \notin Signals /\ ~Blank(x) => DiffLine(acc, x) = [out |-> o, omitted |-> c + 1]
    /\ FlushOmitted(acc).out = o \o Said(c)

LEMMA DiffLineTurn ==
    ASSUME NEW S, NEW o \in Seq(S), NEW c \in Nat, NEW x, OmittedIn(S)
    PROVE  LineDone([out |-> o, omitted |-> c], o, c, x)
<1> DEFINE acc == [out |-> o, omitted |-> c]
<1>1. KeepDiffLine(x) <=> x \in Signals
  BY DEF KeepDiffLine, Signals
<1>2. FlushOmitted(acc) = [out |-> o \o Said(c), omitted |-> 0]
  <2>1. CASE c > 1
    <3>1. \A y \in S : o \o <<y>> = Append(o, y)
      OBVIOUS
    <3>2. Omitted[c] \in S
      BY DEF OmittedIn
    <3>3. o \o Said(c) = Append(o, Omitted[c])
      BY <2>1, <3>1, <3>2 DEF Said
    <3> QED BY <2>1, <3>3 DEF FlushOmitted
  <2>2. CASE ~(c > 1)
    <3>1. o \o Said(c) = o
      BY <2>2 DEF Said
    <3> QED BY <2>2, <3>1 DEF FlushOmitted
  <2> QED BY <2>1, <2>2
<1>3. \A r, y : /\ [[out |-> r, omitted |-> 0] EXCEPT !.out = y] = [out |-> y, omitted |-> 0]
                /\ [out |-> r, omitted |-> 0].out = r
  OBVIOUS
<1>4. [acc EXCEPT !.omitted = @ + 1] = [out |-> o, omitted |-> c + 1]
  OBVIOUS
<1>5. acc.out = o /\ [out |-> o \o Said(c), omitted |-> 0].out = o \o Said(c)
  OBVIOUS
<1> HIDE DEF acc
<1>6. x \in Signals => DiffLine(acc, x) = [out |-> Append(o \o Said(c), x), omitted |-> 0]
  <2> SUFFICES ASSUME x \in Signals
               PROVE  DiffLine(acc, x) = [out |-> Append(o \o Said(c), x), omitted |-> 0]
    OBVIOUS
  <2> DEFINE fl == FlushOmitted(acc)
             r == o \o Said(c)
  <2>1. DiffLine(acc, x) = [fl EXCEPT !.out = Append(fl.out, x)]
    BY <1>1 DEF DiffLine
  <2>2. fl = [out |-> r, omitted |-> 0]
    BY <1>2
  <2> HIDE DEF fl, r
  <2>3. fl.out = r /\ [fl EXCEPT !.out = Append(r, x)] = [out |-> Append(r, x), omitted |-> 0]
    BY <1>3, <2>2
  <2>4. DiffLine(acc, x) = [out |-> Append(r, x), omitted |-> 0]
    BY <2>1, <2>3
  <2> QED BY <2>4 DEF r
<1>7. x \notin Signals /\ Blank(x) => DiffLine(acc, x) = acc
  BY <1>1 DEF DiffLine
<1>8. x \notin Signals /\ ~Blank(x) => DiffLine(acc, x) = [out |-> o, omitted |-> c + 1]
  BY <1>1, <1>4 DEF DiffLine
<1> QED BY <1>2, <1>5, <1>6, <1>7, <1>8 DEF acc, LineDone

\* The changes among the first n lines, and the context behind change q among them.
ChangesTo(text, n) == {j \in 1 .. n : text[j] \in Signals}
ContextTo(text, n, q) ==
    {a \in 1 .. n : /\ text[a] \notin Signals /\ ~Blank(text[a])
                    /\ Cardinality(ChangesTo(text, a)) = q}

LEMMA ContextCounted ==
    ASSUME NEW text, Len(text) \in Nat, DOMAIN text = 1 .. Len(text), NEW q
    PROVE  ContextBehind(text, q) = Cardinality(ContextTo(text, Len(text), q))
BY DEF ContextBehind, ContextTo, ChangesTo

\* One line more.
LEMMA ChangesTurn ==
    ASSUME NEW text, NEW n \in Nat
    PROVE  LET Q == Cardinality(ChangesTo(text, n))
               R == Cardinality(ChangesTo(text, n + 1))
           IN /\ Q \in Nat
              /\ text[n + 1] \in Signals => R = Q + 1
              /\ text[n + 1] \notin Signals => R = Q
<1> DEFINE A == ChangesTo(text, n)
           B == ChangesTo(text, n + 1)
<1>1. A \in SUBSET (1 .. n)
  BY DEF ChangesTo
<1>2. \A j : j \in 1 .. n + 1 <=> j \in 1 .. n \/ j = n + 1
  OBVIOUS
<1>3. B = IF text[n + 1] \in Signals THEN A \cup {n + 1} ELSE A
  BY <1>2 DEF ChangesTo
<1> HIDE DEF A, B
<1>4. Cardinality(A) \in Nat /\ Cardinality(A \cup {n + 1}) = Cardinality(A) + 1
  BY <1>1, OneMore
<1>5. /\ Cardinality(A) \in Nat
      /\ text[n + 1] \in Signals => Cardinality(B) = Cardinality(A) + 1
      /\ text[n + 1] \notin Signals => Cardinality(B) = Cardinality(A)
  BY <1>3, <1>4
<1> QED BY <1>5 DEF A, B

LEMMA ContextTurn ==
    ASSUME NEW text, NEW n \in Nat, NEW q
    PROVE  LET C == Cardinality(ContextTo(text, n, q))
               D == Cardinality(ContextTo(text, n + 1, q))
           IN /\ C \in Nat
              /\ D = IF /\ text[n + 1] \notin Signals /\ ~Blank(text[n + 1])
                        /\ Cardinality(ChangesTo(text, n + 1)) = q
                     THEN C + 1 ELSE C
<1> DEFINE A == ContextTo(text, n, q)
           B == ContextTo(text, n + 1, q)
           Counts == /\ text[n + 1] \notin Signals /\ ~Blank(text[n + 1])
                     /\ Cardinality(ChangesTo(text, n + 1)) = q
<1>1. A \in SUBSET (1 .. n)
  BY DEF ContextTo
<1>2. \A j : j \in 1 .. n + 1 <=> j \in 1 .. n \/ j = n + 1
  OBVIOUS
<1>3. B = IF Counts THEN A \cup {n + 1} ELSE A
  BY <1>2 DEF ContextTo
<1> HIDE DEF A, B, Counts
<1>4. Cardinality(A) \in Nat /\ Cardinality(A \cup {n + 1}) = Cardinality(A) + 1
  BY <1>1, OneMore
<1>5. Cardinality(A) \in Nat /\ Cardinality(B) = IF Counts THEN Cardinality(A) + 1 ELSE Cardinality(A)
  BY <1>3, <1>4
<1> QED BY <1>5 DEF A, B, Counts

Changes(text, n) == Cardinality(ChangesTo(text, n))
Context(text, n, q) == Cardinality(ContextTo(text, n, q))

\* What is said behind each change, of the context among the first n lines.
SaidBehind(text, n) == [q \in Nat |-> Said(Context(text, n, q))]

LEMMA LineCounts ==
    ASSUME NEW text, NEW n \in Nat
    PROVE  /\ Changes(text, n) \in Nat
           /\ text[n + 1] \in Signals => Changes(text, n + 1) = Changes(text, n) + 1
           /\ text[n + 1] \notin Signals => Changes(text, n + 1) = Changes(text, n)
           /\ \A q : Context(text, n, q) \in Nat
           /\ \A q : Context(text, n + 1, q)
                        = IF /\ text[n + 1] \notin Signals /\ ~Blank(text[n + 1])
                             /\ Changes(text, n + 1) = q
                          THEN Context(text, n, q) + 1 ELSE Context(text, n, q)
BY ChangesTurn, ContextTurn DEF Changes, Context

LEMMA SaidBehindType ==
    ASSUME NEW S, OmittedIn(S), NEW text, NEW n \in Nat
    PROVE  SaidBehind(text, n) \in [Nat -> Seq(S)]
<1>1. \A c \in Nat : Said(c) \in Seq(S)
  BY DEF Said, OmittedIn
<1>2. \A q \in Nat : Said(Context(text, n, q)) \in Seq(S)
  BY <1>1, LineCounts
<1> QED BY <1>2 DEF SaidBehind

\* The loop of compressDiff after n lines, of which the changes are s.
DiffSoFar(acc, s, text, n, S) ==
    /\ s \in Seq(S) /\ Len(s) = Changes(text, n)
    /\ \A q \in Nat : q > Len(s) => Context(text, n, q) = 0
    /\ acc = [out |-> FlattenSeq(Before(SaidBehind(text, n), s)),
              omitted |-> Context(text, n, Len(s))]

LEMMA DiffSoFarTurn ==
    ASSUME NEW S, OmittedIn(S), NEW text, NEW n \in Nat,
           NEW x \in S, text[n + 1] = x, NEW s, NEW acc, DiffSoFar(acc, s, text, n, S)
    PROVE  DiffSoFar(DiffLine(acc, x), IF x \in Signals THEN Append(s, x) ELSE s, text, n + 1, S)
<1> DEFINE b == SaidBehind(text, n)
           d == SaidBehind(text, n + 1)
           o == FlattenSeq(Before(b, s))
           c == Context(text, n, Len(s))
<1>1. /\ s \in Seq(S) /\ Len(s) = Changes(text, n) /\ Len(s) \in Nat
      /\ \A q \in Nat : q > Len(s) => Context(text, n, q) = 0
      /\ acc = [out |-> o, omitted |-> c]
  BY DEF DiffSoFar
<1>2. /\ Changes(text, n) \in Nat
      /\ x \in Signals => Changes(text, n + 1) = Changes(text, n) + 1
      /\ x \notin Signals => Changes(text, n + 1) = Changes(text, n)
      /\ \A q : Context(text, n, q) \in Nat
      /\ \A q : Context(text, n + 1, q)
                   = IF x \notin Signals /\ ~Blank(x) /\ Changes(text, n + 1) = q
                     THEN Context(text, n, q) + 1 ELSE Context(text, n, q)
  <2>1. /\ Changes(text, n) \in Nat
        /\ text[n + 1] \in Signals => Changes(text, n + 1) = Changes(text, n) + 1
        /\ text[n + 1] \notin Signals => Changes(text, n + 1) = Changes(text, n)
        /\ \A q : Context(text, n, q) \in Nat
        /\ \A q : Context(text, n + 1, q)
                     = IF /\ text[n + 1] \notin Signals /\ ~Blank(text[n + 1])
                          /\ Changes(text, n + 1) = q
                       THEN Context(text, n, q) + 1 ELSE Context(text, n, q)
    BY LineCounts, Zenon
  <2>2. text[n + 1] = x
    OBVIOUS
  <2> QED BY <2>1, <2>2, Zenon
<1>3. b \in [Nat -> Seq(S)]
  BY SaidBehindType
<1>4. Before(b, s) \in Seq(Seq(S))
  <2>1. s \in Seq(S)
    BY <1>1
  <2> QED BY <1>3, <2>1, BeforeAfterType
<1>5. o \in Seq(S) /\ c \in Nat
  <2>1. o \in Seq(S)
    BY <1>4, FlattenPlaces
  <2> QED BY <1>2, <2>1
<1>6. \A q \in Nat : b[q] = Said(Context(text, n, q)) /\ d[q] = Said(Context(text, n + 1, q))
  BY DEF SaidBehind
<1>7. /\ x \in Signals => DiffLine(acc, x) = [out |-> Append(o \o Said(c), x), omitted |-> 0]
      /\ x \notin Signals /\ Blank(x) => DiffLine(acc, x) = acc
      /\ x \notin Signals /\ ~Blank(x) => DiffLine(acc, x) = [out |-> o, omitted |-> c + 1]
  <2> HIDE DEF o, c
  <2>1. o \in Seq(S)
    BY <1>5
  <2>2. c \in Nat
    BY <1>5
  <2>3. LineDone([out |-> o, omitted |-> c], o, c, x)
    BY <2>1, <2>2, DiffLineTurn
  <2> QED BY <1>1, <2>3 DEF LineDone
<1>8. CASE x \in Signals
  <2> DEFINE p == Append(s, x)
             k == Len(s)
  <2>1. \A q : Context(text, n + 1, q) = Context(text, n, q)
    BY <1>2, <1>8
  <2>2. d = b
    BY <2>1 DEF SaidBehind
  <2>3. p \in Seq(S) /\ Len(p) = k + 1
    BY <1>1
  <2>4. Len(p) = Changes(text, n + 1)
    BY <1>1, <1>2, <1>8, <2>3
  <2>5. Before(b, p) = Append(Before(b, s), b[k] \o <<x>>)
    <3>1. s \in Seq(S)
      BY <1>1
    <3> QED BY <1>3, <3>1, BeforeMore
  <2>6. b[k] = Said(c) /\ b[k] \in Seq(S)
    BY <1>1, <1>3, <1>6
  <2>7. FlattenSeq(Before(b, p)) = Append(o \o Said(c), x)
    <3> DEFINE v == Before(b, s)
               y == b[k]
    <3>1. v \in Seq(Seq(S)) /\ y \in Seq(S)
      BY <1>4, <2>6
    <3>2. y \o <<x>> \in Seq(S)
      <4>1. \A u, w \in Seq(S) : u \o w \in Seq(S)
        OBVIOUS
      <4>2. <<x>> \in Seq(S)
        OBVIOUS
      <4> QED BY <3>1, <4>1, <4>2, Zenon
    <3> HIDE DEF v, y
    <3>3. FlattenSeq(Append(v, y \o <<x>>)) = FlattenSeq(v) \o (y \o <<x>>)
      BY <3>1, <3>2, FlattenAppend
    <3>4. \A u, w \in Seq(S) : u \o (w \o <<x>>) = Append(u \o w, x)
      <4>1. ASSUME NEW u \in Seq(S), NEW w \in Seq(S) PROVE u \o (w \o <<x>>) = Append(u \o w, x)
        <5>1. w \o <<x>> = Append(w, x)
          OBVIOUS
        <5>2. Append(u \o w, x) = u \o Append(w, x)
          OBVIOUS
        <5> QED BY <5>1, <5>2
      <4> QED BY <4>1
    <3>5. FlattenSeq(v) \in Seq(S) /\ FlattenSeq(v) = o
      BY <1>5 DEF v
    <3>6. o \o (y \o <<x>>) = Append(o \o y, x)
      BY <3>1, <3>4, <3>5
    <3> QED BY <2>5, <2>6, <3>3, <3>5, <3>6 DEF v, y
  <2>8. \A q \in Nat : q > k => Context(text, n + 1, q) = 0
    BY <1>1, <2>1
  <2>9. k \in Nat /\ k + 1 \in Nat /\ k + 1 > k
    BY <1>1
  <2> HIDE DEF p, k, d, b, o, c
  <2>10. Context(text, n + 1, Len(p)) = 0
    BY <2>3, <2>8, <2>9
  <2>11. \A q \in Nat : q > Len(p) => Context(text, n + 1, q) = 0
    <3>1. \A q \in Nat : q > k + 1 => q > k
      BY <2>9
    <3> QED BY <2>3, <2>8, <3>1
  <2>12. DiffLine(acc, x) = [out |-> FlattenSeq(Before(d, p)), omitted |-> Context(text, n + 1, Len(p))]
    BY <1>7, <1>8, <2>2, <2>7, <2>10
  <2>13. DiffSoFar(DiffLine(acc, x), p, text, n + 1, S)
    BY <2>3, <2>4, <2>11, <2>12 DEF DiffSoFar, d
  <2> QED BY <1>8, <2>13 DEF p
<1>9. CASE x \notin Signals /\ Blank(x)
  <2>1. \A q : Context(text, n + 1, q) = Context(text, n, q)
    BY <1>2, <1>9
  <2>2. d = b
    BY <2>1 DEF SaidBehind
  <2>3. Len(s) = Changes(text, n + 1)
    BY <1>1, <1>2, <1>9
  <2>4. DiffSoFar(acc, s, text, n + 1, S)
    BY <1>1, <2>1, <2>2, <2>3 DEF DiffSoFar
  <2> QED BY <1>7, <1>9, <2>4
<1>10. CASE x \notin Signals /\ ~Blank(x)
  <2> DEFINE k == Len(s)
  <2>1. k = Changes(text, n + 1)
    BY <1>1, <1>2, <1>10
  <2>2. \A q : q # k => Context(text, n + 1, q) = Context(text, n, q)
    BY <1>2, <2>1
  <2>3. Context(text, n + 1, k) = c + 1
    BY <1>2, <1>10, <2>1
  <2>4. Before(d, s) = Before(b, s)
    <3>1. \A q \in Nat : q < Len(s) => b[q] = d[q]
      BY <1>1, <1>6, <2>2
    <3> HIDE DEF b, d
    <3> QED BY <1>1, <3>1, BeforeSame
  <2>5. \A q \in Nat : q > k => Context(text, n + 1, q) = 0
    BY <1>1, <2>2
  <2>6. DiffLine(acc, x) = [out |-> FlattenSeq(Before(d, s)), omitted |-> Context(text, n + 1, Len(s))]
    BY <1>7, <1>10, <2>3, <2>4
  <2>7. DiffSoFar(DiffLine(acc, x), s, text, n + 1, S)
    BY <1>1, <2>1, <2>5, <2>6 DEF DiffSoFar
  <2> QED BY <1>10, <2>7
<1> QED BY <1>8, <1>9, <1>10

LEMMA DiffAnnounced ==
    ASSUME NEW text \in Text
    PROVE  LET signals == Only(text, Signals)
           IN CompressDiff(text)
                = Said(ContextBehind(text, 0))
                    \o FlattenSeq([q \in DOMAIN signals |->
                                    <<signals[q]>> \o Said(ContextBehind(text, q))])
<1> DEFINE L == Len(text)
           S == Line \cup {Omitted[c] : c \in Nat}
           b == SaidBehind(text, L)
<1>0. L \in Nat /\ DOMAIN text = 1 .. L /\ \A n \in 1 .. L : text[n] \in S
  BY DEF Text
<1>s. OmittedIn(S)
  BY DEF OmittedIn
<1> HIDE DEF S
<1>1. PICK f : /\ f[0] = [out |-> <<>>, omitted |-> 0]
               /\ \A n \in Nat : n + 1 <= L => f[n + 1] = DiffLine(f[n], text[n + 1])
               /\ CompressDiff(text) = FlushOmitted(f[L]).out
  BY <1>0, DiffTurns
<1>l. PICK g : Loop(g, text, Signals, L) /\ Only(text, Signals) = g[L]
  BY <1>0, OnlyLoops
<1>2. /\ g[0] = <<>>
      /\ \A n \in Nat : n + 1 <= L =>
            g[n + 1] = IF text[n + 1] \in Signals THEN Append(g[n], text[n + 1]) ELSE g[n]
  BY <1>0, <1>l, LoopTurn
<1> DEFINE Good(n) == DiffSoFar(f[n], g[n], text, n, S)
           P == {n \in Nat : n <= L => Good(n)}
<1> HIDE DEF L
<1>3. 0 \in P
  <2>1. ChangesTo(text, 0) = {} /\ \A q : ContextTo(text, 0, q) = {}
    BY DEF ChangesTo, ContextTo
  <2>2. Changes(text, 0) = 0 /\ \A q : Context(text, 0, q) = 0
    BY <2>1, FS_EmptySet DEF Changes, Context
  <2>3. Before(SaidBehind(text, 0), <<>>) = <<>>
    BY DEF Before
  <2>4. Good(0)
    BY <1>1, <1>2, <2>2, <2>3, FlattenNone DEF DiffSoFar
  <2> HIDE DEF Good
  <2> QED BY <2>4
<1>4. ASSUME NEW n \in P PROVE n + 1 \in P
  <2> DEFINE x == text[n + 1]
  <2> HIDE DEF Good
  <2> SUFFICES ASSUME n + 1 <= L PROVE Good(n + 1)
    OBVIOUS
  <2>1. n \in Nat /\ n <= L /\ n + 1 \in 1 .. L
    BY <1>0
  <2>2. Good(n) /\ x \in S
    BY <1>0, <2>1
  <2>3. f[n + 1] = DiffLine(f[n], x) /\ g[n + 1] = IF x \in Signals THEN Append(g[n], x) ELSE g[n]
    BY <1>1, <1>2, <2>1
  <2> HIDE DEF P
  <2>4. DiffSoFar(DiffLine(f[n], x), IF x \in Signals THEN Append(g[n], x) ELSE g[n], text, n + 1, S)
    BY <1>s, <2>1, <2>2, DiffSoFarTurn DEF Good
  <2> QED BY <2>3, <2>4 DEF Good
<1> HIDE DEF P, Good
<1>5. P = Nat
  BY <1>3, <1>4, Induction DEF P
<1>6. DiffSoFar(f[L], g[L], text, L, S)
  <2>1. L \in P /\ L <= L
    BY <1>0, <1>5
  <2> QED BY <2>1 DEF P, Good
<1> DEFINE signals == g[L]
           k == Len(signals)
           o == FlattenSeq(Before(b, signals))
<1>7. /\ signals \in Seq(S) /\ k \in Nat /\ f[L] = [out |-> o, omitted |-> Context(text, L, k)]
  BY <1>6 DEF DiffSoFar
<1>8. b \in [Nat -> Seq(S)] /\ \A q \in Nat : b[q] = Said(Context(text, L, q))
  <2>1. \A q \in Nat : b[q] = Said(Context(text, L, q))
    BY DEF SaidBehind
  <2> QED BY <1>0, <1>s, <2>1, SaidBehindType
<1>9. \A q : Context(text, L, q) \in Nat
  BY <1>0, LineCounts
<1> HIDE DEF b, signals
<1>10. CompressDiff(text) = o \o b[k]
  <2>1. Before(b, signals) \in Seq(Seq(S))
    BY <1>7, <1>8, BeforeAfterType
  <2>2. o \in Seq(S)
    BY <2>1, FlattenPlaces
  <2>3. Context(text, L, k) \in Nat
    BY <1>9
  <2> HIDE DEF o, k
  <2>4. LineDone([out |-> o, omitted |-> Context(text, L, k)], o, Context(text, L, k), 0)
    BY <1>s, <2>2, <2>3, DiffLineTurn
  <2>5. FlushOmitted(f[L]).out = o \o Said(Context(text, L, k))
    BY <1>7, <2>4 DEF LineDone
  <2> QED BY <1>1, <1>7, <1>8, <2>5
<1>11. o \o b[k] = b[0] \o FlattenSeq(After(b, signals))
  BY <1>7, <1>8, Shifted
<1>12. \A q \in Nat : b[q] = Said(ContextBehind(text, q))
  BY <1>0, <1>8, ContextCounted DEF Context, L
<1>13. After(b, signals) = [q \in DOMAIN signals |-> <<signals[q]>> \o Said(ContextBehind(text, q))]
  <2>1. \A q \in DOMAIN signals : q \in Nat
    BY <1>7
  <2> QED BY <1>12, <2>1 DEF After
<1>14. signals = Only(text, Signals)
  BY <1>l DEF signals
<1>15. CompressDiff(text) = Said(ContextBehind(text, 0)) \o FlattenSeq(After(b, signals))
  BY <1>10, <1>11, <1>12
<1> QED BY <1>13, <1>14, <1>15

\* What a block that is offered says of its text.
LEMMA OfferedFacts ==
    ASSUME IInv, NEW type, Offered(type)
    PROVE  /\ blocks[i].contentType = type /\ blocks[i].text \in Text /\ blocks[i].text # <<>>
           /\ Len(blocks[i].text) <= Len(Repeated)
<1>1. AtBlock /\ blocks[i].contentType = type
  BY DEF Offered
<1>2. i \in DOMAIN blocks /\ pc \in {"apply", "done"}
  BY <1>1, AtBlockFacts DEF AtBlock
<1>3. request \in Requests /\ ~DetectFails(request) /\ blocks = DetectLiveZones(request)
  BY <1>2 DEF IInv, InvDetected
<1>4. blocks[i] \in Block /\ blocks[i] \in Cut(request)
  BY <1>2, BlocksType DEF IInv
<1>6. blocks[i].text # <<>>
  <2> DEFINE tx == SeenTexts(blocks)
  <2>1. request \in AnyRequest
    BY <1>3, CompressionAssumption
  <2>2. PICK h : PairedBy(h, tx, AllSpoken(request))
    BY <1>3, <2>1, DetectedPaired DEF Paired
  <2>3. blocks[i].path.message # 0
    BY <1>4 DEF Offered, Live, Cut, ToolOutput
  <2>4. i \in DOMAIN tx /\ tx[i] = blocks[i].text
    BY <1>2, <2>3 DEF SeenTexts
  <2> HIDE DEF tx
  <2>5. h[i] \in AllSpoken(request) /\ h[i].text = tx[i]
    BY <2>2, <2>4 DEF PairedBy
  <2> QED BY <2>4, <2>5 DEF AllSpoken, Spoken
<1>5. Len(blocks[i].text) <= Len(Repeated)
  BY <1>2, <1>3, RequestsAssumption
<1> QED BY <1>1, <1>4, <1>5, <1>6 DEF Block

\* What a native compressor leaves out of a log, code or prose can be put back from
\* what it says of it, but for white space, and a diff keeps its changes in order with
\* the number of the lines of context left out (native_text_log.go,
\* native_structured.go).
THEOREM CompressionOmissionsAnnounced == Spec => []OmissionsAnnounced
<1>1. IInv => RepetitionsAnnounced
  <2> SUFFICES ASSUME IInv PROVE RepetitionsAnnounced
    OBVIOUS
  <2> DEFINE text == blocks[i].text
             folded == NativeCompress(blocks[i])
  <2>1. ASSUME Offered("log") PROVE Trimmed(PutBack(folded, Repeated)) = Trimmed(text)
    <3>1. blocks[i].contentType = "log" /\ text \in Text /\ Len(text) <= Len(Repeated)
      BY <2>1, OfferedFacts
    <3>2. folded = CompressRepeatedLines(text)
      BY <3>1 DEF NativeCompress
    <3> QED BY <3>1, <3>2, LogAnnounced
  <2>2. ASSUME Offered("code") PROVE Fields(PutBack(folded, Repeated)) = Fields(text)
    <3>1. blocks[i].contentType = "code" /\ text \in Text /\ Len(text) <= Len(Repeated)
      BY <2>2, OfferedFacts
    <3>2. folded = CompressCode(text)
      BY <3>1 DEF NativeCompress
    <3> QED BY <3>1, <3>2, CodeAnnounced
  <2>3. ASSUME Offered("text")
        PROVE  Words(PutBack(Paragraphs(folded), Alone)) = Words(Paragraphs(text))
    <3>1. /\ blocks[i].contentType = "text" /\ text \in Text /\ text # <<>>
          /\ Len(text) <= Len(Repeated)
      BY <2>3, OfferedFacts
    <3>2. folded = CompressRepeatedParagraphs(text)
      BY <3>1 DEF NativeCompress
    <3> QED BY <3>1, <3>2, TextAnnounced
  <2> QED BY <2>1, <2>2, <2>3 DEF RepetitionsAnnounced, Words, Alone
<1>2. IInv => DiffContextCounted
  <2> SUFFICES ASSUME IInv, Offered("diff") PROVE DiffContextCounted
    BY DEF DiffContextCounted
  <2> DEFINE text == blocks[i].text
             signals == Only(text, Signals)
  <2>1. blocks[i].contentType = "diff" /\ text \in Text
    BY OfferedFacts
  <2>2. NativeCompress(blocks[i]) = CompressDiff(text)
    BY <2>1 DEF NativeCompress
  <2>3. CompressDiff(text)
          = Said(ContextBehind(text, 0))
              \o FlattenSeq([q \in DOMAIN signals |->
                              <<signals[q]>> \o Said(ContextBehind(text, q))])
    BY <2>1, DiffAnnounced
  <2> QED BY <2>2, <2>3 DEF DiffContextCounted, Said
<1> QED BY CompressionInv, <1>1, <1>2, PTL DEF OmissionsAnnounced

-----------------------------------------------------------------------------
(* Plugins: what is taken from a run.                                        *)

PluginReply == {"none", "error", "original"} \cup {payload.text : payload \in Payloads}

PluginRun ==
    [pc : {"idle", "run", "ended", "done"}, op : {"compress", "test"}, block : Blocks,
     info : Info \cup {None}, output : Payloads \cup {None}, writes : Seq(Payloads),
     end : {"none", "returned", "error"}, reply : PluginReply]

\* The writes of run r that fitted the limit of its manifest, and the last of them.
Fitting(r) == {n \in DOMAIN r.writes : r.writes[n].bytes <= r.info.manifest.maxOutput}

LastFitting(r, n) == n \in Fitting(r) /\ \A k \in Fitting(r) : k <= n

\* The buffer holds the last write that fitted.
Buffered(r) ==
    \/ Fitting(r) = {} /\ r.output = None
    \/ \E n \in Fitting(r) : LastFitting(r, n) /\ r.output = r.writes[n]

Suited(r) == r.op = "compress" => CanCompress(r.info, r.block)

Honest(r) ==
    r.reply \notin {"none", "error", "original"} =>
        /\ r.end = "returned"
        /\ \E n \in Fitting(r) :
            /\ LastFitting(r, n)
            /\ r.writes[n].text = r.reply /\ r.writes[n].form \in {"trailing", "result"}
            /\ r.op = "compress" => r.writes[n].action = "replace"
            /\ Suited(r)

RunGood(r) ==
    /\ r \in PluginRun /\ Len(r.writes) <= MaxWrites
    /\ r.pc # "done" => r.reply = "none"
    /\ r.pc \in {"run", "ended"} => r.info \in Info /\ Suited(r) /\ Buffered(r)
    /\ Honest(r)

\* The runs without a plugin's text: not begun, failed, and the original kept.
LEMMA RunEnds ==
    /\ RunGood(IdleRun) /\ RunGood(Failed) /\ RunGood(Kept)
    /\ IdleRun.pc = "idle" /\ IdleRun.writes = <<>> /\ IdleRun.output = None
    /\ IdleRun.reply = "none"
<1>1. (CHOOSE b \in Blocks : TRUE) \in Blocks
  BY PluginAssumption
<1>2. IdleRun \in PluginRun
  BY <1>1 DEF IdleRun, PluginRun, PluginReply
<1>3. /\ IdleRun.pc = "idle" /\ IdleRun.writes = <<>> /\ IdleRun.output = None
      /\ IdleRun.reply = "none"
  BY DEF IdleRun
<1>4. Failed \in PluginRun /\ Failed.pc = "done" /\ Failed.writes = <<>> /\ Failed.reply = "error"
  BY <1>2, <1>3 DEF Failed, PluginRun, PluginReply
<1>5. Kept \in PluginRun /\ Kept.pc = "done" /\ Kept.writes = <<>> /\ Kept.reply = "original"
  BY <1>2, <1>3 DEF Kept, PluginRun, PluginReply
<1>6. Len(<<>>) <= MaxWrites
  BY PluginAssumption
<1> QED BY <1>2, <1>3, <1>4, <1>5, <1>6 DEF RunGood, Honest

\* Entering RunWASM with a plugin that suits the block.
LEMMA EnterGood ==
    ASSUME NEW op \in {"compress", "test"}, NEW block \in Blocks, NEW info \in Info,
           op = "compress" => CanCompress(info, block), Enter(op, block, info)
    PROVE  RunGood(run')
<1> DEFINE r == [IdleRun EXCEPT !.pc = "run", !.op = op, !.block = block, !.info = info]
<1>1. run' = r \/ run' = Failed
  BY DEF Enter
<1>2. CASE run' = Failed
  BY <1>2, RunEnds
<1>3. IdleRun \in PluginRun /\ Len(IdleRun.writes) <= MaxWrites
  BY RunEnds DEF RunGood
<1>4. /\ r \in PluginRun /\ r.pc = "run" /\ r.op = op /\ r.block = block /\ r.info = info
      /\ r.writes = <<>> /\ r.output = None /\ r.reply = "none"
  BY <1>3, RunEnds DEF PluginRun
<1>5. Len(r.writes) <= MaxWrites
  BY <1>3, <1>4, RunEnds
<1> HIDE DEF r
<1>6. Fitting(r) = {}
  BY <1>4 DEF Fitting
<1>7. RunGood(r)
  BY <1>4, <1>5, <1>6 DEF RunGood, Suited, Buffered, Honest
<1> QED BY <1>1, <1>2, <1>7

LEMMA InfoLimit ==
    ASSUME NEW info \in Info
    PROVE  info.manifest \in Manifests /\ info.manifest.maxOutput \in Nat /\ info.dir \in Names
BY PluginAssumption DEF Info, Manifest

LEMMA PayloadBytes ==
    ASSUME NEW payload \in Payloads
    PROVE  payload.bytes \in Nat
BY PluginAssumption DEF Payload

\* A write replaces what the buffer holds, or it does not fit.
LEMMA OutputWriteGood ==
    ASSUME RunGood(run), NEW payload \in Payloads, OutputWrite(payload)
    PROVE  RunGood(run')
<1> DEFINE limit == run.info.manifest.maxOutput
           len == Len(run.writes)
<1>1. /\ run \in PluginRun /\ run.pc = "run" /\ run.reply = "none" /\ run.info \in Info
      /\ Suited(run) /\ Buffered(run)
  BY DEF RunGood, OutputWrite, Running
<1>2. run.writes \in Seq(Payloads) /\ run.output \in Payloads \cup {None}
  BY <1>1 DEF PluginRun
<1>3. limit \in Nat /\ payload.bytes \in Nat
  BY <1>1, InfoLimit, PayloadBytes
<1> DEFINE w == Append(run.writes, payload)
           o == IF payload.bytes > limit THEN run.output ELSE payload
<1>4. /\ w \in Seq(Payloads) /\ Len(w) = len + 1 /\ len \in Nat /\ DOMAIN w = 1 .. (len + 1)
      /\ \A n \in 1 .. len : w[n] = run.writes[n]
      /\ DOMAIN run.writes = 1 .. len
      /\ w[len + 1] = payload
  BY <1>2
<1>5. o \in Payloads \cup {None}
  BY <1>2
<1>6. run' = [run EXCEPT !.writes = w, !.output = o]
  BY DEF OutputWrite
<1>7. /\ run' \in PluginRun /\ run'.pc = run.pc /\ run'.op = run.op /\ run'.block = run.block
      /\ run'.info = run.info /\ run'.reply = run.reply /\ run'.writes = w /\ run'.output = o
  <2> HIDE DEF w, o
  <2> QED BY <1>1, <1>4, <1>5, <1>6 DEF PluginRun
<1>8. Len(run'.writes) <= MaxWrites
  BY <1>4, <1>7, PluginAssumption DEF OutputWrite
<1>9. Suited(run')
  BY <1>1, <1>7 DEF Suited
<1> DEFINE old == Fitting(run)
           new == Fitting(run')
<1>10. old \subseteq 1 .. len
  BY <1>4 DEF Fitting
<1>11. Buffered(run')
  <2>1. CASE payload.bytes > limit
    <3>1. o = run.output
      BY <2>1
    <3>2. \A n : n \in new <=> n \in old
      <4> SUFFICES ASSUME NEW n PROVE n \in new <=> n \in old
        OBVIOUS
      <4>1. n \in new <=> n \in 1 .. (len + 1) /\ w[n].bytes <= limit
        BY <1>4, <1>7 DEF Fitting
      <4>2. n \in old <=> n \in 1 .. len /\ run.writes[n].bytes <= limit
        BY <1>4 DEF Fitting
      <4>3. ~(w[len + 1].bytes <= limit)
        BY <1>3, <1>4, <2>1
      <4>4. n \in 1 .. (len + 1) => n \in 1 .. len \/ n = len + 1
        BY <1>4
      <4>5. n \in 1 .. len => n \in 1 .. (len + 1) /\ w[n] = run.writes[n]
        BY <1>4
      <4> HIDE DEF w, len, limit, new, old
      <4> QED BY <4>1, <4>2, <4>3, <4>4, <4>5, Zenon
    <3>3. new = old
      BY <3>2
    <3>4. \A n \in old : LastFitting(run, n) => LastFitting(run', n)
      BY <3>3 DEF LastFitting
    <3>5. \A n \in old : run'.writes[n] = run.writes[n]
      BY <1>4, <1>7, <1>10
    <3> HIDE DEF w, len, limit, o
    <3> QED BY <1>1, <1>7, <3>1, <3>3, <3>4, <3>5 DEF Buffered
  <2>2. CASE ~(payload.bytes > limit)
    <3>1. o = payload
      BY <2>2
    <3>2. payload.bytes <= limit
      BY <1>3, <2>2
    <3>3. len + 1 \in new
      BY <1>4, <1>7, <3>2 DEF Fitting
    <3>4. new \subseteq 1 .. (len + 1)
      BY <1>4, <1>7 DEF Fitting
    <3>5. LastFitting(run', len + 1)
      BY <1>4, <3>3, <3>4 DEF LastFitting
    <3>6. run'.output = run'.writes[len + 1]
      BY <1>4, <1>7, <3>1
    <3> HIDE DEF w, len, limit, o
    <3> QED BY <3>3, <3>5, <3>6 DEF Buffered
  <2> QED BY <2>1, <2>2
<1> HIDE DEF w, o, new, old
<1> QED BY <1>1, <1>7, <1>8, <1>9, <1>11 DEF RunGood, Honest

\* The checks after the run.
LEMMA CheckOutputGood ==
    ASSUME RunGood(run), CheckOutput
    PROVE  RunGood(run')
<1>1. /\ run \in PluginRun /\ run.pc = "ended" /\ run.reply = "none" /\ run.info \in Info
      /\ Suited(run) /\ Buffered(run) /\ Len(run.writes) <= MaxWrites
  BY DEF RunGood, CheckOutput, HostGoesOn
<1> DEFINE r == [run EXCEPT !.pc = "done", !.reply = run.output.text]
<1>2. CASE run' = Failed \/ run' = Kept
  BY <1>2, RunEnds
<1>3. CASE /\ run.end = "returned" /\ Acceptable(run.output) /\ run' = r
           /\ run.op = "test" \/ run.output.action = "replace"
  <2>1. run.output # None /\ run.output.form \in {"trailing", "result"}
    BY <1>3 DEF Acceptable
  <2>2. run.output \in Payloads
    BY <1>1, <2>1 DEF PluginRun
  <2>3. run.output.text \in PluginReply
    BY <2>2 DEF PluginReply
  <2>4. /\ r \in PluginRun /\ r.pc = "done" /\ r.op = run.op /\ r.block = run.block
        /\ r.info = run.info /\ r.writes = run.writes /\ r.reply = run.output.text
        /\ r.end = run.end
    BY <1>1, <2>3 DEF PluginRun
  <2>5. PICK n \in Fitting(run) : LastFitting(run, n) /\ run.output = run.writes[n]
    BY <1>1, <2>1 DEF Buffered
  <2> HIDE DEF r
  <2>6. n \in Fitting(r) /\ LastFitting(r, n)
    BY <2>4, <2>5 DEF Fitting, LastFitting
  <2>7. Suited(r)
    BY <1>1, <2>4 DEF Suited
  <2>8. r.op = "compress" => r.writes[n].action = "replace"
    BY <1>3, <2>4, <2>5
  <2>9. Honest(r)
    BY <1>3, <2>1, <2>4, <2>5, <2>6, <2>7, <2>8 DEF Honest
  <2>10. RunGood(r)
    BY <1>1, <2>4, <2>9 DEF RunGood
  <2> QED BY <1>3, <2>10
<1> QED BY <1>2, <1>3 DEF CheckOutput, Decoded

\* The call of the run function ends, with the buffer as it is.
LEMMA CallEndsGood ==
    ASSUME RunGood(run), Running, NEW end \in {"returned", "error"}, CallEnds(end)
    PROVE  RunGood(run')
<1>1. /\ run \in PluginRun /\ run.pc = "run" /\ run.reply = "none" /\ run.info \in Info
      /\ Suited(run) /\ Buffered(run) /\ Len(run.writes) <= MaxWrites
  BY DEF RunGood, Running
<1>2. /\ run' \in PluginRun /\ run'.pc = "ended" /\ run'.op = run.op
      /\ run'.block = run.block /\ run'.info = run.info /\ run'.writes = run.writes
      /\ run'.output = run.output /\ run'.reply = run.reply
  <2> DEFINE r == [run EXCEPT !.pc = "ended", !.end = end]
  <2>1. run' = r
    BY DEF CallEnds
  <2>2. /\ r \in PluginRun /\ r.pc = "ended" /\ r.op = run.op /\ r.block = run.block
        /\ r.info = run.info /\ r.writes = run.writes /\ r.output = run.output
        /\ r.reply = run.reply
    BY <1>1 DEF PluginRun
  <2> HIDE DEF r
  <2> QED BY <2>1, <2>2
<1>3. Fitting(run') = Fitting(run)
  BY <1>2 DEF Fitting
<1>4. \A n : LastFitting(run', n) <=> LastFitting(run, n)
  BY <1>3, Zenon DEF LastFitting
<1>5. Suited(run') /\ Buffered(run')
  BY <1>1, <1>2, <1>3, <1>4 DEF Suited, Buffered
<1> QED BY <1>1, <1>2, <1>5 DEF RunGood, Honest

-----------------------------------------------------------------------------
(* Plugins: what is loaded.                                                  *)

Listed(d, p) == [dir |-> p, manifest |-> d[p].manifest]

LoadState == [pc : {"idle", "list", "done", "error"}, todo : SUBSET Names, found : SUBSET Info]

\* A marker stands in a directory that is there.
MarksGood(d) ==
    /\ d \in [Names -> Directory]
    /\ \A p \in Names : d[p].enabled => d[p].manifest # None

\* A listing is right about the directories it has passed and nobody touched.
ListGood(d, l, s) ==
    l.pc = "list" =>
        /\ IsFiniteSet(l.found)
        /\ \A info \in l.found : info.dir \notin l.todo
        /\ \A info \in l.found : info.dir \in s => d[info.dir].enabled /\ info = Listed(d, info.dir)
        /\ \A p \in s \ l.todo : d[p].enabled => Listed(d, p) \in l.found

OfDir(p) == {info \in Info : info.dir = p}

LoadGood(d, l, s, list) ==
    l.pc = "done" =>
        \A p \in s : Only(list, OfDir(p)) = IF d[p].enabled THEN <<Listed(d, p)>> ELSE <<>>

\* A sequence with one wanted item is cut down to that item.
LEMMA OnlyOne ==
    ASSUME NEW S, NEW s \in Seq(S), NEW wanted, NEW n \in DOMAIN s, s[n] \in wanted,
           \A k \in DOMAIN s : s[k] \in wanted => k = n
    PROVE  Only(s, wanted) = <<s[n]>>
<1> DEFINE p == Only(s, wanted)
<1>1. p \in Seq(S)
  BY OnlyPlaces
<1>2. PICK e : Places(e, p, s, wanted, Len(s))
  BY OnlyPlaces
<1>3. DOMAIN s = 1 .. Len(s) /\ Len(p) \in Nat /\ DOMAIN p = 1 .. Len(p) /\ Len(s) \in Nat
  BY <1>1
<1> HIDE DEF p
<1>4. /\ \A j \in DOMAIN p : e[j] \in DOMAIN s /\ p[j] = s[e[j]] /\ s[e[j]] \in wanted
      /\ \A j, k \in DOMAIN p : j < k => e[j] < e[k]
      /\ \E j \in DOMAIN p : e[j] = n
  BY <1>2, <1>3 DEF Places
<1>5. \A j \in DOMAIN p : e[j] = n /\ p[j] = s[n]
  BY <1>4
<1>6. ~(2 <= Len(p))
  <2> SUFFICES ASSUME 2 <= Len(p) PROVE FALSE
    OBVIOUS
  <2>1. 1 \in DOMAIN p /\ 2 \in DOMAIN p
    BY <1>3
  <2>2. e[1] < e[2]
    BY <1>4, <2>1
  <2>3. e[1] = n /\ e[2] = n
    BY <1>5, <2>1
  <2>4. n \in Nat
    BY <1>3
  <2> QED BY <2>2, <2>3, <2>4
<1>7. Len(p) = 1
  BY <1>3, <1>4, <1>6
<1>8. p[1] = s[n]
  BY <1>3, <1>5, <1>7
<1> QED BY <1>1, <1>7, <1>8 DEF p

\* One enumeration of a finite set has each of its elements, once.
LEMMA SetToSeqsOf ==
    ASSUME NEW S, IsFiniteSet(S), NEW s \in SetToSeqs(S)
    PROVE  /\ s \in Seq(S)
           /\ \A m, n \in DOMAIN s : s[m] = s[n] => m = n
           /\ \A x \in S : \E n \in DOMAIN s : s[n] = x
<1> DEFINE c == Cardinality(S)
           D == 1 .. c
<1>1. c \in Nat
  BY FS_CardinalityType
<1>2. s \in [D -> S] /\ \A m, n \in D : m # n => s[m] # s[n]
  BY DEF SetToSeqs
<1>3. IsFiniteSet(D) /\ Cardinality(D) = c
  BY <1>1, FS_Interval
<1>4. s \in Injection(D, S)
  BY <1>2 DEF Injection, IsInjective
<1>5. s \in Surjection(D, S)
  BY <1>3, <1>4, FS_Injection
<1>6. \A x \in S : \E n \in D : s[n] = x
  BY <1>5 DEF Surjection
<1>7. DOMAIN s = D
  BY <1>2
<1>8. s \in Seq(S)
  BY <1>1, <1>2
<1> HIDE DEF c, D
<1> QED BY <1>2, <1>6, <1>7, <1>8

\* A step that touches one directory disturbs nothing that is said of the others.
LEMMA TouchGood ==
    ASSUME NEW d, NEW e, NEW l, NEW s \in SUBSET Names, NEW list, NEW p,
           \A q \in Names \ {p} : e[q] = d[q],
           ListGood(d, l, s), LoadGood(d, l, s, list)
    PROVE  ListGood(e, l, s \ {p}) /\ LoadGood(e, l, s \ {p}, list)
<1>1. \A q \in s \ {p} : e[q] = d[q] /\ Listed(e, q) = Listed(d, q)
  BY DEF Listed
<1>2. ListGood(e, l, s \ {p})
  BY <1>1 DEF ListGood
<1>3. LoadGood(e, l, s \ {p}, list)
  BY <1>1 DEF LoadGood
<1> QED BY <1>2, <1>3

\* A listing begins with every directory that is there, so that none with a marker is missed.
LEMMA LoadCallGood ==
    ASSUME NEW d, MarksGood(d), NEW l, NEW todo, todo = {p \in Names : d[p].manifest # None},
           l.pc = "list", l.todo = todo, l.found = {}, NEW list
    PROVE  ListGood(d, l, Names) /\ LoadGood(d, l, Names, list)
<1>1. IsFiniteSet(l.found)
  BY FS_EmptySet
<1>2. \A p \in Names \ todo : ~d[p].enabled
  BY DEF MarksGood
<1> QED BY <1>1, <1>2 DEF ListGood, LoadGood

\* The next entry of the listing.
LEMMA ListPluginGood ==
    ASSUME NEW d, MarksGood(d), NEW l, NEW m, NEW s \in SUBSET Names, NEW p \in l.todo, NEW list,
           l.pc = "list", ListGood(d, l, s), m.pc = "list", m.todo = l.todo \ {p},
           m.found = IF d[p].manifest # None /\ d[p].enabled
                     THEN l.found \cup {Listed(d, p)} ELSE l.found
    PROVE  ListGood(d, m, s) /\ LoadGood(d, m, s, list)
<1>1. LoadGood(d, m, s, list)
  BY DEF LoadGood
<1>2. /\ IsFiniteSet(l.found)
      /\ \A info \in l.found : info.dir \notin l.todo
      /\ \A info \in l.found : info.dir \in s => d[info.dir].enabled /\ info = Listed(d, info.dir)
      /\ \A q \in s \ l.todo : d[q].enabled => Listed(d, q) \in l.found
  BY DEF ListGood
<1>3. Listed(d, p).dir = p
  BY DEF Listed
<1>4. p \in s => (d[p].enabled => d[p].manifest # None)
  BY DEF MarksGood
<1>5. IsFiniteSet(l.found \cup {Listed(d, p)})
  BY <1>2, FS_AddElement
<1>6. IsFiniteSet(m.found)
  BY <1>2, <1>5
<1>7. CASE d[p].manifest # None /\ d[p].enabled
  <2>1. m.found = l.found \cup {Listed(d, p)}
    BY <1>7
  <2>2. \A info \in m.found : info.dir \notin m.todo
    BY <1>2, <1>3, <2>1
  <2>3. \A info \in m.found : info.dir \in s => d[info.dir].enabled /\ info = Listed(d, info.dir)
    BY <1>2, <1>3, <1>7, <2>1
  <2>4. \A q \in s \ m.todo : d[q].enabled => Listed(d, q) \in m.found
    BY <1>2, <2>1
  <2> QED BY <1>1, <1>6, <2>2, <2>3, <2>4 DEF ListGood
<1>8. CASE ~(d[p].manifest # None /\ d[p].enabled)
  <2>1. m.found = l.found
    BY <1>8
  <2>2. \A info \in m.found : info.dir \notin m.todo
    BY <1>2, <2>1
  <2>3. \A q \in s \ m.todo : d[q].enabled => Listed(d, q) \in m.found
    BY <1>2, <1>4, <1>8, <2>1
  <2> QED BY <1>1, <1>2, <1>6, <2>1, <2>2, <2>3 DEF ListGood
<1> QED BY <1>7, <1>8

\* The listing is at its end and sorted.
LEMMA LoadDoneGood ==
    ASSUME NEW d, NEW l, NEW s \in SUBSET Names, l.pc = "list", l.todo = {},
           l.found \in SUBSET Info, ListGood(d, l, s), NEW m, m.pc = "done",
           NEW plugins \in SetToSeqs(l.found)
    PROVE  /\ plugins \in Seq(Info)
           /\ ListGood(d, m, s) /\ LoadGood(d, m, s, plugins)
<1>1. /\ IsFiniteSet(l.found)
      /\ \A info \in l.found : info.dir \in s => d[info.dir].enabled /\ info = Listed(d, info.dir)
      /\ \A q \in s : d[q].enabled => Listed(d, q) \in l.found
  BY DEF ListGood
<1>2. /\ plugins \in Seq(l.found)
      /\ \A a, b \in DOMAIN plugins : plugins[a] = plugins[b] => a = b
      /\ \A x \in l.found : \E n \in DOMAIN plugins : plugins[n] = x
  BY <1>1, SetToSeqsOf
<1>3. plugins \in Seq(Info) /\ \A n \in DOMAIN plugins : plugins[n] \in l.found
  BY <1>2
<1>4. ListGood(d, m, s)
  BY DEF ListGood
<1>5. ASSUME NEW p \in s
      PROVE  Only(plugins, OfDir(p)) = IF d[p].enabled THEN <<Listed(d, p)>> ELSE <<>>
  <2>1. \A info \in l.found : info \in OfDir(p) <=> info.dir = p
    BY DEF OfDir
  <2>2. \A info \in l.found : info \in OfDir(p) => d[p].enabled /\ info = Listed(d, p)
    BY <1>1, <2>1
  <2>3. CASE d[p].enabled
    <3>1. PICK n \in DOMAIN plugins : plugins[n] = Listed(d, p)
      BY <1>1, <1>2, <2>3
    <3>2. plugins[n] \in OfDir(p)
      BY <1>3, <2>1, <3>1 DEF Listed
    <3>3. \A k \in DOMAIN plugins : plugins[k] \in OfDir(p) => k = n
      BY <1>2, <1>3, <2>2, <3>1
    <3>4. Only(plugins, OfDir(p)) = <<plugins[n]>>
      BY <1>3, <3>2, <3>3, OnlyOne
    <3> QED BY <2>3, <3>1, <3>4
  <2>4. CASE ~d[p].enabled
    <3>1. \A n \in DOMAIN plugins : plugins[n] \notin OfDir(p)
      BY <1>3, <2>2, <2>4
    <3>2. Only(plugins, OfDir(p)) = <<>>
      BY <1>3, <3>1, OnlyNone
    <3> QED BY <2>4, <3>2
  <2> QED BY <2>3, <2>4
<1>6. LoadGood(d, m, s, plugins)
  BY <1>5 DEF LoadGood
<1> QED BY <1>3, <1>4, <1>6

-----------------------------------------------------------------------------
(* Plugins: the invariant.                                                   *)

CmdState == [pc : {"idle", "mark"}, plugin : Names, enable : BOOLEAN]

PluginInv ==
    /\ changes \in 0 .. MaxChanges
    /\ cmd \in CmdState
    /\ load \in LoadState /\ loaded \in Seq(Info) /\ stable \subseteq Names
    /\ MarksGood(dir)
    /\ ListGood(dir, load, stable)
    /\ LoadGood(dir, load, stable, loaded)
    /\ RunGood(run)

LEMMA IdleCmdType == IdleCmd \in CmdState
<1>1. (CHOOSE p \in Names : TRUE) \in Names
  BY PluginAssumption
<1> QED BY <1>1 DEF IdleCmd, CmdState

LEMMA PluginInitInv == PluginInit => PluginInv
<1> SUFFICES ASSUME PluginInit PROVE PluginInv
  OBVIOUS
<1>1. changes \in 0 .. MaxChanges
  BY PluginAssumption DEF PluginInit
<1>2. cmd \in CmdState
  BY IdleCmdType DEF PluginInit
<1>3. load \in LoadState /\ loaded \in Seq(Info) /\ stable \subseteq Names
  BY DEF PluginInit, LoadState
<1>4. NoDirectory \in Directory /\ ~NoDirectory.enabled
  BY DEF NoDirectory, Directory
<1>5. MarksGood(dir)
  BY <1>4 DEF PluginInit, MarksGood
<1>6. load.pc = "idle"
  BY DEF PluginInit
<1>7. ListGood(dir, load, stable) /\ LoadGood(dir, load, stable, loaded)
  BY <1>6 DEF ListGood, LoadGood
<1>8. RunGood(run)
  BY RunEnds DEF PluginInit
<1> QED BY <1>1, <1>2, <1>3, <1>5, <1>7, <1>8 DEF PluginInv

\* A step of a run leaves the rest alone.
LEMMA RunStepInv ==
    ASSUME PluginInv, RunGood(run'), UNCHANGED <<dir, changes, cmd, load, loaded, stable>>
    PROVE  PluginInv'
<1>1. /\ dir' = dir /\ changes' = changes /\ cmd' = cmd /\ load' = load /\ loaded' = loaded
      /\ stable' = stable
  OBVIOUS
<1> QED BY <1>1 DEF PluginInv

LEMMA InstalledInfo ==
    ASSUME MarksGood(dir), NEW p \in Names, Installed(p)
    PROVE  [dir |-> p, manifest |-> dir[p].manifest] \in Info
<1>1. dir[p] \in Directory
  BY DEF MarksGood
<1>2. dir[p].manifest \in Manifests
  BY <1>1 DEF Installed, Directory
<1> QED BY <1>2 DEF Info

\* A step that touches directory p.
LEMMA DirStepInv ==
    ASSUME PluginInv, NEW p \in Names, MarksGood(dir'), \A q \in Names \ {p} : dir'[q] = dir[q],
           changes' \in 0 .. MaxChanges, cmd' \in CmdState, Touch(p),
           UNCHANGED <<load, loaded, run>>
    PROVE  PluginInv'
<1>1. load' = load /\ loaded' = loaded /\ run' = run /\ stable' = stable \ {p}
  BY DEF Touch
<1>2. /\ load \in LoadState /\ loaded \in Seq(Info) /\ stable \in SUBSET Names
      /\ ListGood(dir, load, stable) /\ LoadGood(dir, load, stable, loaded) /\ RunGood(run)
  BY DEF PluginInv
<1>3. ListGood(dir', load, stable \ {p}) /\ LoadGood(dir', load, stable \ {p}, loaded)
  BY <1>2, TouchGood
<1> QED BY <1>1, <1>2, <1>3 DEF PluginInv

LEMMA InstallInv ==
    ASSUME PluginInv, NEW p \in Names, NEW manifest \in Manifests, NEW wasm \in BOOLEAN,
           Install(p, manifest, wasm)
    PROVE  PluginInv'
<1>1. MarksGood(dir) /\ changes \in 0 .. MaxChanges /\ MaxChanges \in Nat /\ None \notin Manifests
  BY PluginAssumption DEF PluginInv
<1>2. dir \in [Names -> Directory] /\ dir[p] \in Directory
  BY <1>1 DEF MarksGood
<1> DEFINE new == [[dir[p] EXCEPT !.manifest = manifest] EXCEPT !.wasm = wasm]
<1>3. new \in Directory /\ new.manifest = manifest
  BY <1>2 DEF Directory
<1>4. dir' = [dir EXCEPT ![p] = new]
  BY <1>2 DEF Install
<1> HIDE DEF new
<1>5. dir' \in [Names -> Directory] /\ dir'[p] = new /\ \A q \in Names \ {p} : dir'[q] = dir[q]
  BY <1>2, <1>3, <1>4
<1>6. MarksGood(dir')
  BY <1>1, <1>3, <1>5 DEF MarksGood
<1>7. changes' \in 0 .. MaxChanges
  BY <1>1 DEF Install
<1>8. cmd' \in CmdState /\ Touch(p) /\ UNCHANGED <<load, loaded, run>>
  BY DEF Install, PluginInv
<1> QED BY <1>5, <1>6, <1>7, <1>8, DirStepInv

LEMMA UninstallInv ==
    ASSUME PluginInv, NEW p \in Names, Uninstall(p)
    PROVE  PluginInv'
<1>1. MarksGood(dir) /\ changes \in 0 .. MaxChanges /\ MaxChanges \in Nat
  BY PluginAssumption DEF PluginInv
<1>2. dir \in [Names -> Directory]
  BY <1>1 DEF MarksGood
<1>3. NoDirectory \in Directory /\ ~NoDirectory.enabled
  BY DEF NoDirectory, Directory
<1>4. /\ dir' \in [Names -> Directory] /\ dir'[p] = NoDirectory
      /\ \A q \in Names \ {p} : dir'[q] = dir[q]
  BY <1>2, <1>3 DEF Uninstall
<1>5. MarksGood(dir')
  BY <1>1, <1>3, <1>4 DEF MarksGood
<1>6. changes' \in 0 .. MaxChanges
  BY <1>1 DEF Uninstall
<1>7. cmd' \in CmdState /\ Touch(p) /\ UNCHANGED <<load, loaded, run>>
  BY DEF Uninstall, PluginInv
<1> QED BY <1>4, <1>5, <1>6, <1>7, DirStepInv

LEMMA MarkInv ==
    ASSUME PluginInv, Mark
    PROVE  PluginInv'
<1> DEFINE p == cmd.plugin
<1>1. MarksGood(dir) /\ changes \in 0 .. MaxChanges /\ cmd \in CmdState
  BY DEF PluginInv
<1>2. p \in Names /\ cmd.enable \in BOOLEAN
  BY <1>1 DEF CmdState
<1>3. dir \in [Names -> Directory] /\ dir[p] \in Directory
  BY <1>1, <1>2 DEF MarksGood
<1> DEFINE new == [dir[p] EXCEPT !.enabled = cmd.enable]
<1>4. new \in Directory /\ new.manifest = dir[p].manifest
  BY <1>2, <1>3 DEF Directory
<1>5. dir' = dir \/ (dir[p].manifest # None /\ dir' = [dir EXCEPT ![p] = new])
  BY DEF Mark, Installed
<1>6. /\ cmd' = IdleCmd /\ changes' = changes /\ Touch(p)
      /\ load' = load /\ loaded' = loaded /\ run' = run
  BY DEF Mark
<1> HIDE DEF new, p
<1>7. MarksGood(dir') /\ \A q \in Names \ {p} : dir'[q] = dir[q]
  <2>1. CASE dir' = dir
    BY <1>1, <2>1
  <2>2. CASE dir[p].manifest # None /\ dir' = [dir EXCEPT ![p] = new]
    <3>1. /\ dir' \in [Names -> Directory] /\ dir'[p] = new
          /\ \A q \in Names \ {p} : dir'[q] = dir[q]
      BY <1>2, <1>3, <1>4, <2>2
    <3> QED BY <1>1, <1>4, <2>2, <3>1 DEF MarksGood
  <2> QED BY <1>5, <2>1, <2>2
<1> QED BY <1>1, <1>2, <1>6, <1>7, IdleCmdType, DirStepInv

\* A step of the loading.
LEMMA LoadStepInv ==
    ASSUME PluginInv, UNCHANGED <<dir, changes, cmd, run>>, load' \in LoadState,
           loaded' \in Seq(Info), stable' \subseteq Names,
           ListGood(dir, load', stable'), LoadGood(dir, load', stable', loaded')
    PROVE  PluginInv'
<1>1. dir' = dir /\ changes' = changes /\ cmd' = cmd /\ run' = run
  OBVIOUS
<1> QED BY <1>1 DEF PluginInv

LEMMA LoadCallInv ==
    ASSUME PluginInv, LoadCall
    PROVE  PluginInv'
<1>1. MarksGood(dir) /\ loaded \in Seq(Info)
  BY DEF PluginInv
<1> DEFINE entries == {p \in Names : dir[p].manifest # None}
<1>2. /\ load' = [pc |-> "list", todo |-> entries, found |-> {}] /\ stable' = Names
      /\ loaded' = loaded /\ UNCHANGED <<dir, changes, cmd, run>>
  BY DEF LoadCall, Installed
<1>3. load' \in LoadState /\ load'.pc = "list" /\ load'.todo = entries /\ load'.found = {}
  <2>1. entries \in SUBSET Names
    OBVIOUS
  <2> HIDE DEF entries
  <2> QED BY <1>2, <2>1 DEF LoadState
<1>4. ListGood(dir, load', Names) /\ LoadGood(dir, load', Names, loaded)
  BY <1>1, <1>3, LoadCallGood
<1> QED BY <1>1, <1>2, <1>3, <1>4, LoadStepInv

LEMMA ListPluginInv ==
    ASSUME PluginInv, NEW p \in Names, ListPlugin(p)
    PROVE  PluginInv'
<1>1. /\ MarksGood(dir) /\ load \in LoadState /\ loaded \in Seq(Info) /\ stable \in SUBSET Names
      /\ ListGood(dir, load, stable)
  BY DEF PluginInv
<1>2. load.pc = "list" /\ p \in load.todo /\ UNCHANGED <<dir, changes, cmd, loaded, run>>
  BY DEF ListPlugin, NextEntry
<1> DEFINE found == IF dir[p].manifest # None /\ dir[p].enabled
                    THEN load.found \cup {Listed(dir, p)} ELSE load.found
<1>3. load' = [load EXCEPT !.todo = load.todo \ {p}, !.found = found] /\ stable' = stable
  BY DEF ListPlugin, Installed, Listed
<1>4. found \in SUBSET Info
  <2>1. load.found \in SUBSET Info
    BY <1>1 DEF LoadState
  <2>2. dir[p].manifest # None => Listed(dir, p) \in Info
    BY <1>1, InstalledInfo DEF Installed, Listed
  <2> QED BY <2>1, <2>2
<1>5. load'.pc = "list" /\ load'.todo = load.todo \ {p} /\ load'.found = found
  <2> HIDE DEF found
  <2> QED BY <1>1, <1>2, <1>3 DEF LoadState
<1>6. load' \in LoadState
  <2> HIDE DEF found
  <2> QED BY <1>1, <1>3, <1>4 DEF LoadState
<1>7. ListGood(dir, load', stable) /\ LoadGood(dir, load', stable, loaded)
  BY <1>1, <1>2, <1>5, ListPluginGood
<1> QED BY <1>1, <1>2, <1>3, <1>6, <1>7, LoadStepInv

LEMMA ListFailsInv ==
    ASSUME PluginInv, NEW p \in Names, ListFails(p)
    PROVE  PluginInv'
<1>1. loaded \in Seq(Info)
  BY DEF PluginInv
<1>2. /\ load' = [pc |-> "error", todo |-> {}, found |-> {}] /\ stable' = {}
      /\ UNCHANGED <<dir, changes, cmd, loaded, run>>
  BY DEF ListFails, NextEntry
<1>3. load' \in LoadState /\ load'.pc = "error"
  BY <1>2 DEF LoadState
<1>4. ListGood(dir, load', {}) /\ LoadGood(dir, load', {}, loaded)
  BY <1>3 DEF ListGood, LoadGood
<1> QED BY <1>1, <1>2, <1>3, <1>4, LoadStepInv

LEMMA LoadDoneInv ==
    ASSUME PluginInv, NEW plugins \in SetToSeqs(load.found), LoadDone(plugins)
    PROVE  PluginInv'
<1>1. load \in LoadState /\ stable \in SUBSET Names /\ ListGood(dir, load, stable)
  BY DEF PluginInv
<1>2. /\ load.pc = "list" /\ load.todo = {} /\ load' = [pc |-> "done", todo |-> {}, found |-> {}]
      /\ loaded' = plugins /\ stable' = stable /\ UNCHANGED <<dir, changes, cmd, run>>
  BY DEF LoadDone
<1>3. load' \in LoadState /\ load'.pc = "done"
  BY <1>2 DEF LoadState
<1>4. load.found \in SUBSET Info
  BY <1>1 DEF LoadState
<1>5. /\ plugins \in Seq(Info)
      /\ ListGood(dir, load', stable) /\ LoadGood(dir, load', stable, plugins)
  BY <1>1, <1>2, <1>3, <1>4, LoadDoneGood
<1> QED BY <1>1, <1>2, <1>3, <1>5, LoadStepInv

LEMMA CompressInv ==
    ASSUME PluginInv, NEW block \in Blocks, Compress(block)
    PROVE  PluginInv'
<1> DEFINE S == Matching(block)
<1>1. loaded \in Seq(Info) /\ S # {}
  BY DEF PluginInv, Compress
<1>2. S \in SUBSET Nat /\ \A n \in S : loaded[n] \in Info /\ CanCompress(loaded[n], block)
  BY <1>1 DEF Matching
<1> HIDE DEF S
<1>3. \E m \in S : \A k \in S : m <= k
  BY <1>1, <1>2, LeastNumber
<1>4. Min(S) \in S
  BY <1>3 DEF Min
<1>5. Enter("compress", block, loaded[Min(S)])
  BY DEF Compress, S
<1>6. RunGood(run')
  BY <1>2, <1>4, <1>5, EnterGood
<1>7. UNCHANGED <<dir, changes, cmd, load, loaded, stable>>
  BY DEF Compress, Begin
<1> QED BY <1>6, <1>7, RunStepInv

LEMMA TestPluginInv ==
    ASSUME PluginInv, NEW p \in Names, NEW block \in Blocks, TestPlugin(p, block)
    PROVE  PluginInv'
<1>1. MarksGood(dir) /\ Installed(p)
  BY DEF PluginInv, TestPlugin, Inspectable
<1>2. [dir |-> p, manifest |-> dir[p].manifest] \in Info
  BY <1>1, InstalledInfo
<1>3. Enter("test", block, [dir |-> p, manifest |-> dir[p].manifest])
  BY DEF TestPlugin
<1>4. RunGood(run')
  BY <1>2, <1>3, EnterGood
<1>5. UNCHANGED <<dir, changes, cmd, load, loaded, stable>>
  BY DEF TestPlugin, Begin
<1> QED BY <1>4, <1>5, RunStepInv

\* Every step keeps the invariant.
LEMMA PluginStepInv == PluginInv /\ [PluginNext]_pluginVars => PluginInv'
<1> SUFFICES ASSUME PluginInv, [PluginNext]_pluginVars PROVE PluginInv'
  OBVIOUS
<1>0. RunGood(run)
  BY DEF PluginInv
<1>1. CASE UNCHANGED pluginVars
  BY <1>0, <1>1, RunStepInv DEF pluginVars
<1>2. ASSUME NEW p \in Names, NEW m \in Manifests, NEW wasm \in BOOLEAN, Install(p, m, wasm)
      PROVE  PluginInv'
  BY <1>2, InstallInv
<1>3. ASSUME NEW p \in Names, Uninstall(p) PROVE PluginInv'
  BY <1>3, UninstallInv
<1>4. ASSUME NEW p \in Names, NEW enable \in BOOLEAN, SetEnabled(p, enable) PROVE PluginInv'
  <2>1. cmd' \in CmdState
    BY <1>4 DEF SetEnabled, CmdState
  <2>2. /\ dir' = dir /\ changes' = changes /\ load' = load /\ loaded' = loaded
        /\ stable' = stable /\ run' = run
    BY <1>4 DEF SetEnabled
  <2> QED BY <2>1, <2>2 DEF PluginInv
<1>5. CASE Mark
  BY <1>5, MarkInv
<1>6. CASE LoadCall
  BY <1>6, LoadCallInv
<1>7. ASSUME NEW p \in Names, ListPlugin(p) PROVE PluginInv'
  BY <1>7, ListPluginInv
<1>8. ASSUME NEW p \in Names, ListFails(p) PROVE PluginInv'
  BY <1>8, ListFailsInv
<1>9. ASSUME NEW plugins \in SetToSeqs(load.found), LoadDone(plugins) PROVE PluginInv'
  BY <1>9, LoadDoneInv
<1>10. ASSUME NEW block \in Blocks, Compress(block) PROVE PluginInv'
  BY <1>10, CompressInv
<1>11. ASSUME NEW block \in Blocks, CompressNothing(block) PROVE PluginInv'
  BY <1>11, RunEnds, RunStepInv DEF CompressNothing, Begin
<1>12. ASSUME NEW p \in Names, NEW block \in Blocks, TestPlugin(p, block) PROVE PluginInv'
  BY <1>12, TestPluginInv
<1>13. ASSUME NEW payload \in Payloads, OutputWrite(payload) PROVE PluginInv'
  <2>1. RunGood(run')
    BY <1>0, <1>13, OutputWriteGood
  <2> QED BY <1>13, <2>1, RunStepInv DEF OutputWrite, Running
<1>14. CASE PluginReturns \/ PluginFails \/ Deadline
  <2>1. PICK end \in {"returned", "error"} : Running /\ CallEnds(end)
    BY <1>14 DEF PluginReturns, PluginFails, Deadline, CallEnds
  <2>2. RunGood(run')
    BY <1>0, <2>1, CallEndsGood
  <2> QED BY <2>1, <2>2, RunStepInv DEF Running
<1>15. CASE CheckOutput
  <2>1. RunGood(run')
    BY <1>0, <1>15, CheckOutputGood
  <2> QED BY <1>15, <2>1, RunStepInv DEF CheckOutput, HostGoesOn
<1> QED
  BY <1>1, <1>2, <1>3, <1>4, <1>5, <1>6, <1>7, <1>8, <1>9, <1>10, <1>11, <1>12, <1>13, <1>14,
     <1>15, Zenon DEF PluginNext

LEMMA PluginAlways == PluginSpec => []PluginInv
<1>1. PluginInit => PluginInv
  BY PluginInitInv
<1>2. PluginInv /\ [PluginNext]_pluginVars => PluginInv'
  BY PluginStepInv
<1> QED BY <1>1, <1>2, PTL DEF PluginSpec

\* The directories, the commands, the listing and the run keep their types, whatever the
\* packages bring and the plugins write (lifecycle.go, host.go, wasm_compressor.go).
THEOREM PluginTyped == PluginSpec => []PluginTypeOK
<1>1. PluginInv => PluginTypeOK
  <2> SUFFICES ASSUME PluginInv PROVE PluginTypeOK
    OBVIOUS
  <2>1. run \in PluginRun /\ Len(run.writes) <= MaxWrites
    BY DEF PluginInv, RunGood
  <2>2. /\ run.pc \in {"idle", "run", "ended", "done"}
        /\ run.op \in {"compress", "test"} /\ run.block \in Blocks
        /\ run.info \in Info \cup {None}
        /\ run.output \in Payloads \cup {None}
        /\ run.writes \in Seq(Payloads)
        /\ run.end \in {"none", "returned", "error"}
        /\ run.reply \in PluginReply
    BY <2>1 DEF PluginRun
  <2> QED BY <2>1, <2>2 DEF PluginInv, PluginTypeOK, MarksGood, CmdState, LoadState, PluginReply
<1> QED BY <1>1, PluginAlways, PTL

\* What a run is taken at is the last write that fitted, a result meant as a
\* replacement, of a plugin that can handle the block and that returned in time: neither
\* a refused write nor a run that trapped or met the deadline brings in a text (host.go,
\* RunWASM; wasm_compressor.go, Compress).
THEOREM PluginAnswerHonest == PluginSpec => []AnswerHonest
<1>1. PluginInv => AnswerHonest
  <2> SUFFICES ASSUME PluginInv, run.reply \notin {"none", "error", "original"}
               PROVE  /\ run.end = "returned"
                      /\ Fitting(run) # {}
                      /\ run.writes[Max(Fitting(run))].text = run.reply
                      /\ run.writes[Max(Fitting(run))].form \in {"trailing", "result"}
                      /\ run.op = "compress" =>
                            /\ run.writes[Max(Fitting(run))].action = "replace"
                            /\ CanCompress(run.info, run.block)
    BY DEF AnswerHonest, Fitting
  <2>1. run \in PluginRun /\ Honest(run)
    BY DEF PluginInv, RunGood
  <2>2. PICK n \in Fitting(run) :
            /\ LastFitting(run, n)
            /\ run.writes[n].text = run.reply
            /\ run.writes[n].form \in {"trailing", "result"}
            /\ run.op = "compress" => run.writes[n].action = "replace"
            /\ Suited(run)
    BY <2>1 DEF Honest
  <2>3. run.writes \in Seq(Payloads)
    BY <2>1 DEF PluginRun
  <2>4. Fitting(run) \subseteq Nat
    BY <2>3 DEF Fitting
  <2>5. \A k \in Fitting(run) : n >= k
    BY <2>2, <2>4 DEF LastFitting
  <2>6. Max(Fitting(run)) = n
    <3> DEFINE S == Fitting(run)
    <3>1. n \in S /\ S \subseteq Nat /\ \A k \in S : n >= k
      BY <2>4, <2>5
    <3> HIDE DEF S
    <3>2. \A m \in S : (\A k \in S : m >= k) => m = n
      BY <3>1
    <3> QED BY <3>1, <3>2 DEF Max, S
  <2>7. run.end = "returned"
    BY <2>1 DEF Honest
  <2> QED BY <2>2, <2>6, <2>7 DEF Suited
<1> QED BY <1>1, PluginAlways, PTL

\* The loaded list is right about every directory nobody touched since the listing began,
\* with any number of plugins, packages and commands around it (lifecycle.go,
\* ListPlugins; wasm_compressor.go, LoadWASMCompressor).
THEOREM PluginLoadComplete == PluginSpec => []LoadComplete
<1>1. PluginInv => LoadComplete
  BY DEF PluginInv, LoadGood, LoadComplete, OfDir, Listed
<1> QED BY <1>1, PluginAlways, PTL
=============================================================================
