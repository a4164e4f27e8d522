----------------------- MODULE CodexIntegrationProofs -----------------------
(***************************************************************************)
(* Proofs about CodexIntegration: for every set of addresses, any number of *)
(* lines and of edits, the file has one of three shapes, and from that the  *)
(* plan removes exactly Cachy's lines.                                      *)
(***************************************************************************)
EXTENDS CodexIntegration, LoopProofs, Integers

-----------------------------------------------------------------------------
(* The shapes of the file.                                                   *)

Blocks == {RenderCodexManagedBlock(url, preserve) : url \in ProxyURLs, preserve \in BOOLEAN}

\* A torn write left a block, which starts at line b, without its END.
Open(lines, b) ==
    /\ b \in DOMAIN lines /\ lines[b] = "BEGIN"
    /\ \A n \in DOMAIN lines :
         /\ n < b => lines[n] \in UserLine
         /\ n > b => lines[n] \notin {"BEGIN", "END"}

\* The block stands from line b on, in one piece, and every other line is the user's.
Closed(lines, b, block) ==
    /\ b \in Nat /\ 1 <= b /\ (b + Len(block)) - 1 <= Len(lines)
    /\ \A i \in 1 .. Len(block) : lines[(b + i) - 1] = block[i]
    /\ \A n \in DOMAIN lines : n < b \/ n >= b + Len(block) => lines[n] \in UserLine

IsOpen(lines) == \E b \in DOMAIN lines : Open(lines, b)

IsClosed(lines) == \E b \in DOMAIN lines, block \in Blocks : Closed(lines, b, block)

Shape(lines) ==
    lines \in Seq(Line) /\ (lines \in Seq(UserLine) \/ IsOpen(lines) \/ IsClosed(lines))

\* What an install writes.
Installed(lines, url) ==
    \E cleaned \in Seq(UserLine) :
        lines = cleaned \o RenderCodexManagedBlock(url, HasTopLevelModelProvider(cleaned))

\* The plan that a command in progress carries.
Planned ==
    cmd.pc # "idle" =>
        IF cmd.action = "uninstall" THEN cmd.next \in Seq(UserLine) ELSE Installed(cmd.next, cmd.url)

\* Nothing of the user's is lost: neither in the file nor in the plan.
Kept ==
    ~disturbed =>
        /\ cmd.pc # "truncated" => ~IsOpen(file) /\ Only(file, UserLine) = user
        /\ cmd.pc # "idle" => Only(cmd.next, UserLine) = user

\* The inductive invariant.
CodexInv ==
    /\ TypeOK
    /\ Shape(file)
    /\ Shape(cmd.next)
    /\ Planned
    /\ Kept

-----------------------------------------------------------------------------
(* The block.                                                                *)

\* The block starts with BEGIN, ends with END, has neither in between and no line of
\* the user's, and names the table and the address.
BlockFacts(block) ==
    /\ block \in Seq(Line) /\ Len(block) \in Nat /\ Len(block) >= 2
    /\ block[1] = "BEGIN" /\ block[Len(block)] = "END"
    /\ \A i \in 2 .. Len(block) - 1 : block[i] \notin {"BEGIN", "END"}
    /\ \A i \in 1 .. Len(block) : block[i] \notin UserLine
    /\ \E i \in 1 .. Len(block) : block[i] = "cachy table"
    /\ \E i \in 1 .. Len(block) : block[i] \in ProxyURLs

\* st is s followed by t.
IsJoin(S, st, s, t) ==
    /\ st \in Seq(S) /\ Len(st) = Len(s) + Len(t)
    /\ \A i \in 1 .. Len(s) : st[i] = s[i]
    /\ \A i \in 1 .. Len(t) : st[Len(s) + i] = t[i]

LEMMA Join ==
    ASSUME NEW S, NEW s \in Seq(S), NEW t \in Seq(S)
    PROVE  IsJoin(S, s \o t, s, t)
BY DEF IsJoin

LEMMA FourOrFive ==
    ASSUME NEW c \in {0, 1}, NEW k, k = 4 + c
    PROVE  /\ k \in Nat /\ k >= 2 /\ 2 + c \in 1 .. k /\ 3 + c \in 1 .. k
           /\ \A i \in 2 .. k - 1 : i \in 1 .. k /\ i # 1 /\ i # 4 + c
           /\ \A i \in 1 .. k :
                \/ i = 1
                \/ i = 2 /\ c = 1
                \/ i = 2 + c
                \/ i = 3 + c
                \/ i = 4 + c
OBVIOUS

LEMMA Literals ==
    ASSUME NEW S, NEW x \in S, NEW y \in S, NEW z \in S, NEW p \in BOOLEAN
    PROVE  /\ <<x>> \in Seq(S) /\ Len(<<x>>) = 1 /\ <<x>>[1] = x
           /\ <<x, y, z>> \in Seq(S) /\ Len(<<x, y, z>>) = 3
           /\ <<x, y, z>>[1] = x /\ <<x, y, z>>[2] = y /\ <<x, y, z>>[3] = z
           /\ (IF p THEN <<>> ELSE <<x>>) \in Seq(S)
           /\ Len(IF p THEN <<>> ELSE <<x>>) \in {0, 1}
           /\ Len(IF p THEN <<>> ELSE <<x>>) = 1 => (IF p THEN <<>> ELSE <<x>>)[1] = x
OBVIOUS

\* The lines of a block in their places.
Assembled(block, first, choice, rest) ==
    /\ block \in Seq(Line) /\ Len(block) = 4 + Len(choice)
    /\ block[1] = first[1]
    /\ Len(choice) = 1 => block[2] = choice[1]
    /\ block[2 + Len(choice)] = rest[1]
    /\ block[3 + Len(choice)] = rest[2]
    /\ block[4 + Len(choice)] = rest[3]

LEMMA Assemble ==
    ASSUME NEW first \in Seq(Line), NEW choice \in Seq(Line), NEW rest \in Seq(Line),
           Len(first) = 1, Len(choice) \in {0, 1}, Len(rest) = 3,
           NEW head, IsJoin(Line, head, first, choice), NEW block, IsJoin(Line, block, head, rest)
    PROVE  Assembled(block, first, choice, rest)
<1>1. /\ Len(head) = 1 + Len(choice) /\ head[1] = first[1]
      /\ Len(choice) = 1 => head[2] = choice[1]
  BY DEF IsJoin
<1>2. /\ block[Len(head) + 1] = rest[1] /\ block[Len(head) + 2] = rest[2]
      /\ block[Len(head) + 3] = rest[3] /\ block[1] = head[1]
      /\ Len(choice) = 1 => block[2] = head[2]
  BY <1>1 DEF IsJoin
<1> QED BY <1>1, <1>2 DEF IsJoin, Assembled

\* The block with c lines for the choice of provider.
LEMMA Lines ==
    ASSUME NEW url \in ProxyURLs, NEW c \in {0, 1}, NEW block \in Seq(Line), Len(block) = 4 + c,
           block[1] = "BEGIN", c = 1 => block[2] = "select",
           block[2 + c] = "cachy table", block[3 + c] = url, block[4 + c] = "END"
    PROVE  BlockFacts(block)
<1>1. url \notin UserLine /\ url \notin {"BEGIN", "select", "cachy table", "END"}
  BY CodexAssumption
<1>2. /\ Len(block) \in Nat /\ Len(block) >= 2 /\ block[Len(block)] = "END"
      /\ 2 + c \in 1 .. Len(block) /\ 3 + c \in 1 .. Len(block)
      /\ \A i \in 2 .. Len(block) - 1 : i \in 1 .. Len(block) /\ i # 1 /\ i # 4 + c
  BY FourOrFive, Zenon
<1>3. ASSUME NEW i \in 1 .. Len(block)
      PROVE  /\ block[i] \notin UserLine
             /\ i \in 2 .. Len(block) - 1 => block[i] \notin {"BEGIN", "END"}
  <2>1. \/ i = 1
        \/ i = 2 /\ c = 1
        \/ i = 2 + c
        \/ i = 3 + c
        \/ i = 4 + c
    BY FourOrFive, Zenon
  <2>2. block[i] \in {"BEGIN", "select", "cachy table", "END", url}
    BY <2>1, Zenon
  <2>3. block[i] \notin UserLine
    BY <1>1, <2>2 DEF UserLine
  <2>4. i \in 2 .. Len(block) - 1 => block[i] \in {"select", "cachy table", url}
    BY <1>2, <2>1, Zenon
  <2> QED BY <1>1, <2>3, <2>4
<1> QED BY <1>2, <1>3, Zenon DEF BlockFacts

LEMMA BlockIs ==
    ASSUME NEW url \in ProxyURLs, NEW preserve \in BOOLEAN
    PROVE  BlockFacts(RenderCodexManagedBlock(url, preserve))
<1>1. url \in Line /\ {"BEGIN", "select", "cachy table", "END"} \subseteq Line
  BY DEF Line, ManagedLine
<1> DEFINE first == <<"BEGIN">>
           choice == IF preserve THEN <<>> ELSE <<"select">>
           rest == <<"cachy table", url, "END">>
           head == first \o choice
           block == head \o rest
<1>2. RenderCodexManagedBlock(url, preserve) = block
  BY DEF RenderCodexManagedBlock
<1>3. /\ first \in Seq(Line) /\ Len(first) = 1 /\ first[1] = "BEGIN"
      /\ rest \in Seq(Line) /\ Len(rest) = 3
      /\ rest[1] = "cachy table" /\ rest[2] = url /\ rest[3] = "END"
  BY <1>1, Literals, Zenon
<1>4. choice \in Seq(Line) /\ Len(choice) \in {0, 1} /\ (Len(choice) = 1 => choice[1] = "select")
  BY <1>1, Literals, Zenon
<1> HIDE DEF first, choice, rest
<1>5. IsJoin(Line, head, first, choice)
  BY <1>3, <1>4, Join, Zenon
<1> HIDE DEF head
<1>6. IsJoin(Line, block, head, rest)
  <2>1. head \in Seq(Line)
    BY <1>5 DEF IsJoin
  <2> QED BY <1>3, <2>1, Join, Zenon
<1> HIDE DEF block
<1>7. Assembled(block, first, choice, rest)
  BY <1>3, <1>4, <1>5, <1>6, Assemble, Zenon
<1>8. BlockFacts(block)
  BY <1>3, <1>4, <1>7, Lines, Zenon DEF Assembled
<1> QED BY <1>2, <1>8

LEMMA BlocksAre ==
    ASSUME NEW block \in Blocks
    PROVE  BlockFacts(block)
BY BlockIs DEF Blocks

LEMMA Markers == "BEGIN" \notin UserLine /\ "END" \notin UserLine /\ UserLine \subseteq Line
BY DEF UserLine, Line

-----------------------------------------------------------------------------
(* What the plan does.                                                       *)

\* Sequences by their elements.
LEMMA Piece ==
    ASSUME NEW S, NEW s \in Seq(S), NEW m \in Nat, NEW n \in Nat, 1 <= m, n <= Len(s), m <= n + 1
    PROVE  /\ SubSeq(s, m, n) \in Seq(S) /\ Len(SubSeq(s, m, n)) = (n - m) + 1
           /\ \A i \in 1 .. (n - m) + 1 : SubSeq(s, m, n)[i] = s[(m + i) - 1]
OBVIOUS

LEMMA SameItems ==
    ASSUME NEW S, NEW T, NEW s \in Seq(S), NEW t \in Seq(T), Len(s) = Len(t),
           \A i \in 1 .. Len(s) : s[i] = t[i]
    PROVE  s = t
OBVIOUS

LEMMA ItemsIn ==
    ASSUME NEW S, NEW T, NEW s \in Seq(S), \A i \in 1 .. Len(s) : s[i] \in T
    PROVE  s \in Seq(T)
OBVIOUS

LEMMA MinOnly ==
    ASSUME NEW b \in Nat
    PROVE  Min({b}) = b
BY DEF Min

\* The user's lines hold no marker.
LEMMA CleanMarkers ==
    ASSUME NEW lines \in Seq(UserLine)
    PROVE  lines \in Seq(Line) /\ Positions(lines, "BEGIN") = {} /\ Positions(lines, "END") = {}
<1>1. lines \in Seq(Line)
  BY Markers
<1>2. \A n \in DOMAIN lines : lines[n] \in UserLine
  OBVIOUS
<1> QED BY <1>1, <1>2, Markers, Zenon DEF Positions

LEMMA OpenMarkers ==
    ASSUME NEW lines \in Seq(Line), NEW b, Open(lines, b)
    PROVE  Positions(lines, "BEGIN") = {b} /\ \A n \in Positions(lines, "END") : FALSE
<1>1. DOMAIN lines = 1 .. Len(lines) /\ Len(lines) \in Nat /\ b \in DOMAIN lines
  BY DEF Open
<1>2. ASSUME NEW n \in DOMAIN lines, n # b
      PROVE  lines[n] \notin {"BEGIN", "END"}
  <2>1. n < b \/ n > b
    BY <1>1, <1>2
  <2> QED BY <1>2, <2>1, Markers, Zenon DEF Open
<1>3. lines[b] = "BEGIN" /\ lines[b] # "END"
  BY DEF Open
<1> QED BY <1>1, <1>2, <1>3, Zenon DEF Positions

LEMMA ClosedMarkers ==
    ASSUME NEW lines \in Seq(Line), NEW b, NEW block \in Blocks, Closed(lines, b, block)
    PROVE  /\ b \in DOMAIN lines /\ (b + Len(block)) - 1 \in DOMAIN lines
           /\ (b + Len(block)) - 1 > b
           /\ Positions(lines, "BEGIN") = {b}
           /\ Positions(lines, "END") = {(b + Len(block)) - 1}
<1>1. BlockFacts(block)
  BY BlocksAre
<1>2. /\ DOMAIN lines = 1 .. Len(lines) /\ Len(lines) \in Nat
      /\ b \in Nat /\ 1 <= b /\ (b + Len(block)) - 1 <= Len(lines)
      /\ Len(block) \in Nat /\ Len(block) >= 2
  <2>1. DOMAIN lines = 1 .. Len(lines) /\ Len(lines) \in Nat
    OBVIOUS
  <2> QED BY <1>1, <2>1, Zenon DEF Closed, BlockFacts
<1> DEFINE e == (b + Len(block)) - 1
<1>3. /\ b \in DOMAIN lines /\ e \in DOMAIN lines /\ e > b
      /\ 1 \in 1 .. Len(block) /\ Len(block) \in 1 .. Len(block)
      /\ (b + 1) - 1 = b
  BY <1>2
<1>4. lines[b] = "BEGIN" /\ lines[e] = "END"
  <2>1. lines[(b + 1) - 1] = block[1] /\ lines[(b + Len(block)) - 1] = block[Len(block)]
    BY <1>3, Zenon DEF Closed
  <2> QED BY <1>1, <1>3, <2>1 DEF BlockFacts
<1>5. ASSUME NEW n \in DOMAIN lines, n # b, n # e
      PROVE  lines[n] \notin {"BEGIN", "END"}
  <2>1. CASE n < b \/ n >= b + Len(block)
    BY <2>1, Markers, Zenon DEF Closed
  <2>2. CASE ~(n < b \/ n >= b + Len(block))
    <3>1. (n - b) + 1 \in 2 .. Len(block) - 1 /\ (n - b) + 1 \in 1 .. Len(block)
          /\ (b + ((n - b) + 1)) - 1 = n
      BY <1>2, <1>5, <2>2
    <3>2. lines[(b + ((n - b) + 1)) - 1] = block[(n - b) + 1]
      BY <3>1, Zenon DEF Closed
    <3>3. block[(n - b) + 1] \notin {"BEGIN", "END"}
      BY <1>1, <3>1, Zenon DEF BlockFacts
    <3> QED BY <3>1, <3>2, <3>3
  <2> QED BY <2>1, <2>2
<1> HIDE DEF e
<1>6. "BEGIN" # "END" /\ e # b
  BY <1>2, <1>3 DEF e
<1>7. Positions(lines, "BEGIN") = {b} /\ Positions(lines, "END") = {e}
  BY <1>3, <1>4, <1>5, <1>6, Zenon DEF Positions
<1> QED BY <1>3, <1>7 DEF e

-----------------------------------------------------------------------------
(* What removeManagedBlock leaves.                                           *)

LEMMA RemovesClean ==
    ASSUME NEW lines \in Seq(UserLine)
    PROVE  RemoveManagedBlock(lines) = lines
BY CleanMarkers DEF RemoveManagedBlock

LEMMA RemovesOpen ==
    ASSUME NEW lines \in Seq(Line), NEW b, Open(lines, b)
    PROVE  RemoveManagedBlock(lines) \in Seq(UserLine)
<1>1. Positions(lines, "BEGIN") = {b} /\ \A n \in Positions(lines, "END") : FALSE
  BY OpenMarkers
<1>2. b \in 1 .. Len(lines) /\ Len(lines) \in Nat /\ b \in Nat
  BY DEF Open
<1>3. {n \in Positions(lines, "END") : n > Min({b})} = {} /\ Min({b}) = b
  BY <1>1, <1>2, MinOnly
<1>4. RemoveManagedBlock(lines) = SubSeq(lines, 1, b - 1)
  BY <1>1, <1>3, Zenon DEF RemoveManagedBlock
<1>5. /\ SubSeq(lines, 1, b - 1) \in Seq(Line) /\ Len(SubSeq(lines, 1, b - 1)) = b - 1
      /\ \A i \in 1 .. b - 1 : SubSeq(lines, 1, b - 1)[i] = lines[i] /\ i < b /\ i \in DOMAIN lines
  BY <1>2
<1>6. \A i \in 1 .. b - 1 : SubSeq(lines, 1, b - 1)[i] \in UserLine
  BY <1>5, Zenon DEF Open
<1> QED BY <1>4, <1>5, <1>6, ItemsIn

\* The block, what stands before it and what follows.
LEMMA ClosedParts ==
    ASSUME NEW lines \in Seq(Line), NEW b, NEW block \in Blocks, Closed(lines, b, block)
    PROVE  /\ SubSeq(lines, 1, b - 1) \in Seq(UserLine)
           /\ SubSeq(lines, b + Len(block), Len(lines)) \in Seq(UserLine)
           /\ lines = SubSeq(lines, 1, b - 1) \o (block \o SubSeq(lines, b + Len(block), Len(lines)))
<1>1. BlockFacts(block) /\ block \in Seq(Line)
  BY BlocksAre DEF BlockFacts
<1>2. /\ DOMAIN lines = 1 .. Len(lines) /\ Len(lines) \in Nat
      /\ b \in Nat /\ 1 <= b /\ (b + Len(block)) - 1 <= Len(lines)
      /\ Len(block) \in Nat /\ Len(block) >= 2
  <2>1. DOMAIN lines = 1 .. Len(lines) /\ Len(lines) \in Nat
    OBVIOUS
  <2> QED BY <1>1, <2>1, Zenon DEF Closed, BlockFacts
<1> DEFINE pre == SubSeq(lines, 1, b - 1)
           from == b + Len(block)
           post == SubSeq(lines, from, Len(lines))
<1>3. /\ pre \in Seq(Line) /\ Len(pre) = b - 1
      /\ \A i \in 1 .. b - 1 : pre[i] = lines[i] /\ i \in DOMAIN lines /\ i < b
  BY <1>2
<1>4. /\ post \in Seq(Line) /\ Len(post) = (Len(lines) - from) + 1
      /\ \A i \in 1 .. (Len(lines) - from) + 1 :
           post[i] = lines[(from + i) - 1] /\ (from + i) - 1 \in DOMAIN lines /\ (from + i) - 1 >= from
  BY <1>2
<1>5. \A n \in DOMAIN lines : n < b \/ n >= from => lines[n] \in UserLine
  BY DEF Closed
<1>6. \A i \in 1 .. Len(block) : lines[(b + i) - 1] = block[i]
  BY DEF Closed
<1> HIDE DEF pre, post
<1>7. pre \in Seq(UserLine)
  <2>1. \A i \in 1 .. Len(pre) : pre[i] \in UserLine
    BY <1>3, <1>5, Zenon
  <2> QED BY <1>3, <2>1, ItemsIn
<1>8. post \in Seq(UserLine)
  <2>1. \A i \in 1 .. Len(post) : post[i] \in UserLine
    BY <1>4, <1>5, Zenon
  <2> QED BY <1>4, <2>1, ItemsIn
<1>9. lines = pre \o (block \o post)
  <2> DEFINE tail == block \o post
             all == pre \o tail
  <2>1. IsJoin(Line, tail, block, post)
    BY <1>1, <1>4, Join, Zenon
  <2> HIDE DEF tail
  <2>2. tail \in Seq(Line)
    BY <2>1 DEF IsJoin
  <2>3. IsJoin(Line, all, pre, tail)
    BY <1>3, <2>2, Join, Zenon
  <2> HIDE DEF all
  <2>4. /\ all \in Seq(Line) /\ Len(all) = Len(lines) /\ Len(tail) = Len(block) + Len(post)
        /\ Len(pre) = b - 1 /\ Len(post) = (Len(lines) - from) + 1
    BY <1>2, <1>3, <1>4, <2>1, <2>3 DEF IsJoin
  <2>5. ASSUME NEW n \in 1 .. Len(lines) PROVE lines[n] = all[n]
    <3>1. CASE n < b
      <4>1. n \in 1 .. Len(pre) /\ n \in 1 .. b - 1
        BY <1>2, <2>4, <3>1
      <4> QED BY <1>3, <2>3, <4>1, Zenon DEF IsJoin
    <3>2. CASE ~(n < b) /\ n < from
      <4> DEFINE i == (n - b) + 1
      <4>1. /\ i \in 1 .. Len(block) /\ i \in 1 .. Len(tail) /\ Len(pre) + i = n /\ (b + i) - 1 = n
        BY <1>2, <1>4, <2>4, <3>2
      <4>2. all[Len(pre) + i] = tail[i] /\ tail[i] = block[i] /\ lines[(b + i) - 1] = block[i]
        BY <1>6, <2>1, <2>3, <4>1, Zenon DEF IsJoin
      <4> QED BY <4>1, <4>2
    <3>3. CASE n >= from
      <4> DEFINE j == (n - from) + 1
                 i == Len(block) + j
      <4>1. /\ j \in 1 .. Len(post) /\ j \in 1 .. (Len(lines) - from) + 1 /\ i \in 1 .. Len(tail)
            /\ Len(pre) + i = n /\ (from + j) - 1 = n
        BY <1>2, <1>4, <2>4, <3>3
      <4>2. /\ all[Len(pre) + i] = tail[i] /\ tail[Len(block) + j] = post[j]
            /\ post[j] = lines[(from + j) - 1]
        BY <1>4, <2>1, <2>3, <4>1, Zenon DEF IsJoin
      <4> QED BY <4>1, <4>2
    <3> QED BY <1>2, <3>1, <3>2, <3>3
  <2>6. lines = all
    BY <2>4, <2>5, SameItems
  <2> QED BY <2>6 DEF all, tail
<1> QED BY <1>7, <1>8, <1>9 DEF pre, post

LEMMA RemovesClosed ==
    ASSUME NEW lines \in Seq(Line), NEW b, NEW block \in Blocks, Closed(lines, b, block)
    PROVE  RemoveManagedBlock(lines) =
             SubSeq(lines, 1, b - 1) \o SubSeq(lines, b + Len(block), Len(lines))
<1> DEFINE e == (b + Len(block)) - 1
<1>1. /\ b \in Nat /\ e \in Nat /\ e > b /\ e + 1 = b + Len(block)
      /\ Positions(lines, "BEGIN") = {b} /\ Positions(lines, "END") = {e}
  <2>1. BlockFacts(block)
    BY BlocksAre
  <2>2. b \in Nat /\ Len(block) \in Nat /\ Len(block) >= 2
    BY <2>1, Zenon DEF Closed, BlockFacts
  <2>3. Positions(lines, "BEGIN") = {b} /\ Positions(lines, "END") = {e}
    BY ClosedMarkers, Zenon
  <2> QED BY <2>2, <2>3
<1> HIDE DEF e
<1>2. {n \in Positions(lines, "END") : n > Min({b})} = {e} /\ Min({b}) = b /\ Min({e}) = e
  BY <1>1, MinOnly
<1>3. RemoveManagedBlock(lines) = SubSeq(lines, 1, b - 1) \o SubSeq(lines, e + 1, Len(lines))
  BY <1>1, <1>2, Zenon DEF RemoveManagedBlock
<1> QED BY <1>1, <1>3

\* removeManagedBlock leaves the user's lines, and loses none of them unless the block
\* has no END.
LEMMA Removes ==
    ASSUME NEW lines, Shape(lines)
    PROVE  /\ RemoveManagedBlock(lines) \in Seq(UserLine)
           /\ ~IsOpen(lines) => RemoveManagedBlock(lines) = Only(lines, UserLine)
<1>0. lines \in Seq(Line)
  BY DEF Shape
<1>1. CASE lines \in Seq(UserLine)
  BY <1>1, RemovesClean, OnlyAll
<1>2. CASE IsOpen(lines)
  BY <1>0, <1>2, RemovesOpen DEF IsOpen
<1>3. ASSUME NEW b \in DOMAIN lines, NEW block \in Blocks, Closed(lines, b, block)
      PROVE  /\ RemoveManagedBlock(lines) \in Seq(UserLine)
             /\ RemoveManagedBlock(lines) = Only(lines, UserLine)
  <2> DEFINE pre == SubSeq(lines, 1, b - 1)
             post == SubSeq(lines, b + Len(block), Len(lines))
  <2>1. pre \in Seq(UserLine) /\ post \in Seq(UserLine) /\ lines = pre \o (block \o post)
    BY <1>0, <1>3, ClosedParts, Zenon
  <2>2. RemoveManagedBlock(lines) = pre \o post
    BY <1>0, <1>3, RemovesClosed, Zenon
  <2> HIDE DEF pre, post
  <2>3. pre \in Seq(Line) /\ post \in Seq(Line)
    BY <2>1, Markers
  <2>4. block \in Seq(Line) /\ \A i \in DOMAIN block : block[i] \notin UserLine
    <3>1. BlockFacts(block)
      BY BlocksAre
    <3>2. block \in Seq(Line) /\ \A i \in 1 .. Len(block) : block[i] \notin UserLine
      BY <3>1, Zenon DEF BlockFacts
    <3> QED BY <3>2
  <2>5. Only(block, UserLine) = <<>>
    BY <2>4, OnlyNone, Zenon
  <2>6. Only(pre, UserLine) = pre /\ Only(post, UserLine) = post
    BY <2>1, OnlyAll
  <2>7. Only(block \o post, UserLine) = <<>> \o post
    <3>1. Only(block \o post, UserLine) = Only(block, UserLine) \o Only(post, UserLine)
      BY <2>3, <2>4, OnlyConcat
    <3> QED BY <2>5, <2>6, <3>1, Zenon
  <2>8. block \o post \in Seq(Line) /\ <<>> \o post = post
    BY <2>3, <2>4
  <2>9. Only(pre \o (block \o post), UserLine) = pre \o post
    <3>1. Only(pre \o (block \o post), UserLine) = Only(pre, UserLine) \o Only(block \o post, UserLine)
      <4> DEFINE tail == block \o post
      <4> HIDE DEF tail
      <4>1. tail \in Seq(Line)
        BY <2>8 DEF tail
      <4>2. Only(pre \o tail, UserLine) = Only(pre, UserLine) \o Only(tail, UserLine)
        BY <2>3, <4>1, OnlyConcat
      <4> QED BY <4>2 DEF tail
    <3> QED BY <2>6, <2>7, <2>8, <3>1, Zenon
  <2>10. pre \o post \in Seq(UserLine)
    BY <2>1
  <2> QED BY <2>1, <2>2, <2>9, <2>10, Zenon
<1> QED BY <1>1, <1>2, <1>3 DEF Shape, IsClosed

-----------------------------------------------------------------------------
(* The shapes exclude each other where it matters.                           *)

LEMMA OpenUnterminated ==
    ASSUME NEW lines \in Seq(Line), IsOpen(lines)
    PROVE  Unterminated(lines)
<1>1. PICK b \in DOMAIN lines : Open(lines, b)
  BY DEF IsOpen
<1>2. Positions(lines, "BEGIN") = {b} /\ \A n \in Positions(lines, "END") : FALSE
  BY <1>1, OpenMarkers
<1> QED BY <1>2, Zenon DEF Unterminated

LEMMA ClosedTerminated ==
    ASSUME NEW lines \in Seq(Line), NEW b, NEW block \in Blocks, Closed(lines, b, block)
    PROVE  ~Unterminated(lines) /\ ~IsOpen(lines)
<1> DEFINE e == (b + Len(block)) - 1
<1>1. /\ b \in DOMAIN lines /\ e \in DOMAIN lines /\ e > b
      /\ Positions(lines, "BEGIN") = {b} /\ Positions(lines, "END") = {e}
  BY ClosedMarkers, Zenon
<1> HIDE DEF e
<1>2. ~(e < b)
  BY <1>1
<1>3. ~Unterminated(lines)
  BY <1>1, <1>2, Zenon DEF Unterminated
<1> QED BY <1>3, OpenUnterminated, Zenon

\* The user's lines with a block behind them: removeManagedBlock gives the lines back.
LEMMA Appended ==
    ASSUME NEW cleaned \in Seq(UserLine), NEW block \in Blocks
    PROVE  /\ Shape(cleaned \o block) /\ ~IsOpen(cleaned \o block)
           /\ Closed(cleaned \o block, Len(cleaned) + 1, block)
           /\ Only(cleaned \o block, UserLine) = cleaned
           /\ RemoveManagedBlock(cleaned \o block) = cleaned
<1> DEFINE lines == cleaned \o block
           b == Len(cleaned) + 1
<1>1. BlockFacts(block)
  BY BlocksAre
<1>2. /\ block \in Seq(Line) /\ Len(block) \in Nat /\ Len(block) >= 2
      /\ \A i \in 1 .. Len(block) : block[i] \notin UserLine
  BY <1>1, Zenon DEF BlockFacts
<1>3. cleaned \in Seq(Line) /\ Len(cleaned) \in Nat /\ \A i \in 1 .. Len(cleaned) : cleaned[i] \in UserLine
  BY Markers
<1>4. IsJoin(Line, lines, cleaned, block)
  BY <1>2, <1>3, Join, Zenon
<1> HIDE DEF lines
<1>5. /\ lines \in Seq(Line) /\ Len(lines) = Len(cleaned) + Len(block)
      /\ DOMAIN lines = 1 .. Len(lines)
  BY <1>4 DEF IsJoin
<1>6. Closed(lines, b, block) /\ b \in DOMAIN lines
  <2>1. b \in Nat /\ 1 <= b /\ (b + Len(block)) - 1 <= Len(lines) /\ b \in DOMAIN lines
    BY <1>2, <1>3, <1>5
  <2>2. ASSUME NEW i \in 1 .. Len(block) PROVE lines[(b + i) - 1] = block[i]
    <3>1. lines[Len(cleaned) + i] = block[i]
      BY <1>4, Zenon DEF IsJoin
    <3>2. (b + i) - 1 = Len(cleaned) + i
      BY <1>3
    <3> QED BY <3>1, <3>2
  <2>3. ASSUME NEW n \in DOMAIN lines, n < b \/ n >= b + Len(block) PROVE lines[n] \in UserLine
    <3>1. n \in 1 .. Len(cleaned)
      BY <1>2, <1>3, <1>5, <2>3
    <3> QED BY <1>3, <1>4, <3>1, Zenon DEF IsJoin
  <2> QED BY <2>1, <2>2, <2>3, Zenon DEF Closed
<1>7. Shape(lines) /\ ~IsOpen(lines)
  BY <1>5, <1>6, ClosedTerminated, Zenon DEF Shape, IsClosed
<1>8. RemoveManagedBlock(lines) = Only(lines, UserLine)
  BY <1>7, Removes
<1>9. Only(lines, UserLine) = cleaned
  <2>1. Only(cleaned, UserLine) = cleaned
    BY OnlyAll
  <2>2. Only(block, UserLine) = <<>>
    <3>1. \A i \in DOMAIN block : block[i] \notin UserLine
      BY <1>2
    <3> QED BY <1>2, <3>1, OnlyNone, Zenon
  <2>3. Only(cleaned \o block, UserLine) = Only(cleaned, UserLine) \o Only(block, UserLine)
    BY <1>2, <1>3, OnlyConcat
  <2>4. cleaned \o <<>> = cleaned
    OBVIOUS
  <2> QED BY <2>1, <2>2, <2>3, <2>4, Zenon DEF lines
<1> QED BY <1>6, <1>7, <1>8, <1>9, Zenon DEF lines, b

-----------------------------------------------------------------------------
(* A torn write and the user's edits keep the shape.                         *)

\* The numbers that bound a closed block.
LEMMA ClosedBounds ==
    ASSUME NEW lines \in Seq(Line), NEW b, NEW block \in Blocks, Closed(lines, b, block)
    PROVE  /\ DOMAIN lines = 1 .. Len(lines) /\ Len(lines) \in Nat
           /\ b \in Nat /\ 1 <= b /\ (b + Len(block)) - 1 <= Len(lines)
           /\ Len(block) \in Nat /\ Len(block) >= 2 /\ b \in DOMAIN lines
<1>1. BlockFacts(block)
  BY BlocksAre
<1>2. DOMAIN lines = 1 .. Len(lines) /\ Len(lines) \in Nat
  OBVIOUS
<1>3. /\ b \in Nat /\ 1 <= b /\ (b + Len(block)) - 1 <= Len(lines)
      /\ Len(block) \in Nat /\ Len(block) >= 2
  BY <1>1, Zenon DEF Closed, BlockFacts
<1> QED BY <1>2, <1>3

\* Line i of the block.
LEMMA ClosedLine ==
    ASSUME NEW lines \in Seq(Line), NEW b, NEW block \in Blocks, Closed(lines, b, block),
           NEW n \in DOMAIN lines, b <= n, n < b + Len(block)
    PROVE  /\ lines[n] \notin UserLine
           /\ n > b /\ n < (b + Len(block)) - 1 => lines[n] \notin {"BEGIN", "END"}
           /\ n = b => lines[n] = "BEGIN"
<1>1. BlockFacts(block)
  BY BlocksAre
<1>2. /\ DOMAIN lines = 1 .. Len(lines) /\ Len(lines) \in Nat
      /\ b \in Nat /\ 1 <= b /\ Len(block) \in Nat /\ Len(block) >= 2
  BY ClosedBounds, Zenon
<1> DEFINE i == (n - b) + 1
<1>3. /\ i \in 1 .. Len(block) /\ (b + i) - 1 = n
      /\ n > b /\ n < (b + Len(block)) - 1 => i \in 2 .. Len(block) - 1
      /\ n = b => i = 1
  BY <1>2
<1> HIDE DEF i
<1>4. lines[(b + i) - 1] = block[i]
  BY <1>3, Zenon DEF Closed
<1>5. lines[n] = block[i]
  BY <1>3, <1>4
<1> QED BY <1>1, <1>3, <1>5, Zenon DEF BlockFacts

LEMMA PrefixShape ==
    ASSUME NEW lines, Shape(lines), NEW n \in 0 .. Len(lines)
    PROVE  Shape(SubSeq(lines, 1, n))
<1> DEFINE torn == SubSeq(lines, 1, n)
<1>0. lines \in Seq(Line)
  BY DEF Shape
<1>1. DOMAIN lines = 1 .. Len(lines) /\ Len(lines) \in Nat /\ n \in Nat /\ n <= Len(lines)
  BY <1>0
<1>2. /\ torn \in Seq(Line) /\ Len(torn) = n /\ DOMAIN torn = 1 .. n
      /\ \A i \in 1 .. n : torn[i] = lines[i] /\ i \in DOMAIN lines
  BY <1>0, <1>1
<1> SUFFICES Shape(torn)
  OBVIOUS
<1> HIDE DEF torn
<1>3. ASSUME \A i \in 1 .. n : lines[i] \in UserLine
      PROVE  Shape(torn)
  <2>1. \A i \in 1 .. Len(torn) : torn[i] \in UserLine
    BY <1>2, <1>3, Zenon
  <2>2. torn \in Seq(UserLine)
    BY <1>2, <2>1, ItemsIn
  <2> QED BY <1>2, <2>2 DEF Shape
<1>4. CASE lines \in Seq(UserLine)
  <2>1. \A i \in 1 .. n : lines[i] \in UserLine
    BY <1>1, <1>4
  <2> QED BY <1>3, <2>1, Zenon
<1>5. ASSUME NEW b \in DOMAIN lines, Open(lines, b)
      PROVE  Shape(torn)
  <2>1. CASE n < b
    <3>1. \A i \in 1 .. n : i \in DOMAIN lines /\ i < b
      BY <1>1, <2>1
    <3>2. \A i \in 1 .. n : lines[i] \in UserLine
      BY <1>5, <3>1, Zenon DEF Open
    <3> QED BY <1>3, <3>2
  <2>2. CASE n >= b
    <3>1. b \in 1 .. n
      BY <1>1, <2>2
    <3>2. Open(torn, b)
      BY <1>2, <1>5, <3>1, Zenon DEF Open
    <3> QED BY <1>2, <3>1, <3>2, Zenon DEF Shape, IsOpen
  <2> QED BY <1>1, <2>1, <2>2
<1>6. ASSUME NEW b \in DOMAIN lines, NEW block \in Blocks, Closed(lines, b, block)
      PROVE  Shape(torn)
  <2>0. /\ b \in Nat /\ 1 <= b /\ (b + Len(block)) - 1 <= Len(lines)
        /\ Len(block) \in Nat /\ Len(block) >= 2
    BY <1>0, <1>6, ClosedBounds, Zenon
  <2>1. CASE n < b
    <3>1. \A i \in 1 .. n : i \in DOMAIN lines /\ i < b
      BY <1>1, <2>0, <2>1
    <3>2. \A i \in 1 .. n : lines[i] \in UserLine
      BY <1>6, <3>1, Zenon DEF Closed
    <3> QED BY <1>3, <3>2
  <2>2. CASE b <= n /\ n < (b + Len(block)) - 1
    <3>1. b \in 1 .. n /\ b < b + Len(block) /\ b <= b
      BY <1>1, <2>0, <2>2
    <3>2. lines[b] = "BEGIN"
      BY <1>0, <1>6, <3>1, ClosedLine, Zenon
    <3>3. ASSUME NEW i \in 1 .. n
          PROVE  /\ i < b => lines[i] \in UserLine
                 /\ i > b => lines[i] \notin {"BEGIN", "END"}
      <4>1. i \in DOMAIN lines
        BY <1>2
      <4>2. i > b => b <= i /\ i < b + Len(block) /\ i < (b + Len(block)) - 1
        BY <1>1, <2>0, <2>2
      <4>3. i < b => lines[i] \in UserLine
        BY <1>6, <4>1, Zenon DEF Closed
      <4>4. ASSUME i > b PROVE lines[i] \notin {"BEGIN", "END"}
        BY <1>0, <1>6, <4>1, <4>2, <4>4, ClosedLine, Zenon
      <4> QED BY <4>3, <4>4
    <3>4. Open(torn, b)
      BY <1>2, <3>1, <3>2, <3>3, Zenon DEF Open
    <3> QED BY <1>2, <3>1, <3>4, Zenon DEF Shape, IsOpen
  <2>3. CASE n >= (b + Len(block)) - 1
    <3>1. b \in 1 .. n /\ (b + Len(block)) - 1 <= Len(torn) /\ \A i \in 1 .. Len(block) : (b + i) - 1 \in 1 .. n
      BY <1>1, <1>2, <2>0, <2>3
    <3>2. Closed(torn, b, block)
      BY <1>2, <1>6, <2>0, <3>1, Zenon DEF Closed
    <3> QED BY <1>2, <3>1, <3>2, Zenon DEF Shape, IsClosed
  <2> QED BY <1>1, <2>0, <2>1, <2>2, <2>3
<1> QED BY <1>4, <1>5, <1>6, Zenon DEF Shape, IsOpen, IsClosed

\* more is lines with a line put in at n.
IsInsert(more, lines, n, line) ==
    /\ more \in Seq(Line) /\ Len(more) = Len(lines) + 1 /\ DOMAIN more = 1 .. Len(lines) + 1
    /\ more[n] = line
    /\ \A i \in DOMAIN lines :
         /\ i < n => more[i] = lines[i]
         /\ i >= n => more[i + 1] = lines[i]
    /\ \A i \in DOMAIN more :
         /\ i < n => i \in DOMAIN lines /\ more[i] = lines[i]
         /\ i > n => i - 1 \in DOMAIN lines /\ more[i] = lines[i - 1]

LEMMA Inserts ==
    ASSUME NEW lines \in Seq(Line), NEW n \in 1 .. Len(lines) + 1, NEW line \in Line
    PROVE  IsInsert(InsertAt(lines, n, line), lines, n, line)
<1> DEFINE pre == SubSeq(lines, 1, n - 1)
           post == SubSeq(lines, n, Len(lines))
           head == pre \o <<line>>
           more == head \o post
<1>1. Len(lines) \in Nat /\ n \in Nat /\ 1 <= n /\ n <= Len(lines) + 1 /\ DOMAIN lines = 1 .. Len(lines)
  OBVIOUS
<1>2. /\ pre \in Seq(Line) /\ Len(pre) = n - 1
      /\ \A i \in 1 .. n - 1 : pre[i] = lines[i]
  BY <1>1
<1>3. /\ post \in Seq(Line) /\ Len(post) = (Len(lines) - n) + 1
      /\ \A i \in 1 .. (Len(lines) - n) + 1 : post[i] = lines[(n + i) - 1]
  BY <1>1
<1>4. <<line>> \in Seq(Line) /\ Len(<<line>>) = 1 /\ <<line>>[1] = line
  OBVIOUS
<1> HIDE DEF pre, post
<1>5. IsJoin(Line, head, pre, <<line>>)
  BY <1>2, <1>4, Join, Zenon
<1> HIDE DEF head
<1>6. /\ head \in Seq(Line) /\ Len(head) = n
      /\ \A i \in 1 .. n - 1 : head[i] = lines[i]
      /\ head[n] = line
  <2>1. head \in Seq(Line) /\ Len(head) = Len(pre) + 1 /\ \A i \in 1 .. Len(pre) : head[i] = pre[i]
    BY <1>4, <1>5 DEF IsJoin
  <2>2. head[Len(pre) + 1] = line
    <3>1. 1 \in 1 .. Len(<<line>>)
      BY <1>4
    <3> QED BY <1>4, <1>5, <3>1, Zenon DEF IsJoin
  <2>3. Len(pre) + 1 = n
    BY <1>1, <1>2
  <2> QED BY <1>2, <2>1, <2>2, <2>3, Zenon
<1>7. IsJoin(Line, more, head, post)
  BY <1>3, <1>6, Join, Zenon
<1>8. InsertAt(lines, n, line) = more
  BY DEF InsertAt, head, pre, post
<1> HIDE DEF more
<1>9. /\ more \in Seq(Line) /\ Len(more) = Len(lines) + 1 /\ DOMAIN more = 1 .. Len(lines) + 1
  BY <1>1, <1>3, <1>6, <1>7 DEF IsJoin
<1>10. ASSUME NEW i \in 1 .. n
       PROVE  more[i] = head[i]
  BY <1>6, <1>7, Zenon DEF IsJoin
<1>11. ASSUME NEW i \in n + 1 .. Len(lines) + 1
       PROVE  more[i] = lines[i - 1]
  <2>1. i - n \in 1 .. Len(post) /\ i - n \in 1 .. (Len(lines) - n) + 1 /\ n + (i - n) = i /\ (n + (i - n)) - 1 = i - 1
    BY <1>1, <1>3
  <2>2. more[n + (i - n)] = post[i - n] /\ post[i - n] = lines[(n + (i - n)) - 1]
    BY <1>3, <1>6, <1>7, <2>1, Zenon DEF IsJoin
  <2> QED BY <2>1, <2>2
<1>12. more[n] = line
  <2>1. n \in 1 .. n
    BY <1>1
  <2> QED BY <1>6, <1>10, <2>1, Zenon
<1>13. ASSUME NEW i \in 1 .. n - 1
       PROVE  more[i] = lines[i]
  <2>1. i \in 1 .. n
    BY <1>1
  <2> QED BY <1>6, <1>10, <2>1, Zenon
<1>14. ASSUME NEW i \in DOMAIN lines
       PROVE  /\ i < n => more[i] = lines[i]
              /\ i >= n => more[i + 1] = lines[i]
  <2>1. i < n => i \in 1 .. n - 1
    BY <1>1
  <2>2. i >= n => i + 1 \in n + 1 .. Len(lines) + 1 /\ (i + 1) - 1 = i
    BY <1>1
  <2>3. ASSUME i >= n PROVE more[i + 1] = lines[i]
    <3>1. more[i + 1] = lines[(i + 1) - 1]
      BY <1>11, <2>2, <2>3, Zenon
    <3> QED BY <2>2, <2>3, <3>1
  <2> QED BY <1>13, <2>1, <2>3, Zenon
<1>15. ASSUME NEW i \in DOMAIN more
       PROVE  /\ i < n => i \in DOMAIN lines /\ more[i] = lines[i]
              /\ i > n => i - 1 \in DOMAIN lines /\ more[i] = lines[i - 1]
  <2>1. /\ i < n => i \in 1 .. n - 1 /\ i \in DOMAIN lines
        /\ i > n => i \in n + 1 .. Len(lines) + 1 /\ i - 1 \in DOMAIN lines
    BY <1>1, <1>9
  <2> QED BY <1>11, <1>13, <2>1, Zenon
<1>16. IsInsert(more, lines, n, line)
  BY <1>9, <1>12, <1>14, <1>15, Zenon DEF IsInsert
<1> QED BY <1>8, <1>16

\* fewer is lines without its line n.
IsRemove(fewer, lines, n) ==
    /\ fewer \in Seq(Line) /\ Len(fewer) = Len(lines) - 1 /\ DOMAIN fewer = 1 .. Len(lines) - 1
    /\ \A i \in DOMAIN lines :
         /\ i < n => fewer[i] = lines[i]
         /\ i > n => fewer[i - 1] = lines[i]
    /\ \A i \in DOMAIN fewer :
         /\ i < n => i \in DOMAIN lines /\ fewer[i] = lines[i]
         /\ i >= n => i + 1 \in DOMAIN lines /\ fewer[i] = lines[i + 1]

LEMMA RemovesOne ==
    ASSUME NEW lines \in Seq(Line), NEW n \in DOMAIN lines
    PROVE  IsRemove(RemoveAt(lines, n), lines, n)
<1> DEFINE pre == SubSeq(lines, 1, n - 1)
           post == SubSeq(lines, n + 1, Len(lines))
           fewer == pre \o post
<1>1. Len(lines) \in Nat /\ n \in Nat /\ 1 <= n /\ n <= Len(lines) /\ DOMAIN lines = 1 .. Len(lines)
  OBVIOUS
<1>2. /\ pre \in Seq(Line) /\ Len(pre) = n - 1
      /\ \A i \in 1 .. n - 1 : pre[i] = lines[i]
  BY <1>1
<1>3. /\ post \in Seq(Line) /\ Len(post) = Len(lines) - n
      /\ \A i \in 1 .. Len(lines) - n : post[i] = lines[n + i]
  BY <1>1
<1> HIDE DEF pre, post
<1>4. IsJoin(Line, fewer, pre, post)
  BY <1>2, <1>3, Join, Zenon
<1>5. RemoveAt(lines, n) = fewer
  BY DEF RemoveAt, pre, post
<1> HIDE DEF fewer
<1>6. /\ fewer \in Seq(Line) /\ Len(fewer) = Len(lines) - 1 /\ DOMAIN fewer = 1 .. Len(lines) - 1
  BY <1>1, <1>2, <1>3, <1>4 DEF IsJoin
<1>7. ASSUME NEW i \in 1 .. n - 1
      PROVE  fewer[i] = lines[i]
  BY <1>2, <1>4, Zenon DEF IsJoin
<1>8. ASSUME NEW i \in n + 1 .. Len(lines)
      PROVE  fewer[i - 1] = lines[i]
  <2>1. i - n \in 1 .. Len(post) /\ i - n \in 1 .. Len(lines) - n /\ Len(pre) + (i - n) = i - 1 /\ n + (i - n) = i
    BY <1>1, <1>2, <1>3
  <2>2. fewer[Len(pre) + (i - n)] = post[i - n] /\ post[i - n] = lines[n + (i - n)]
    BY <1>3, <1>4, <2>1, Zenon DEF IsJoin
  <2> QED BY <2>1, <2>2
<1>9. ASSUME NEW i \in DOMAIN lines
      PROVE  /\ i < n => fewer[i] = lines[i]
             /\ i > n => fewer[i - 1] = lines[i]
  <2>1. (i < n => i \in 1 .. n - 1) /\ (i > n => i \in n + 1 .. Len(lines))
    BY <1>1
  <2> QED BY <1>7, <1>8, <2>1, Zenon
<1>10. ASSUME NEW i \in DOMAIN fewer
       PROVE  /\ i < n => i \in DOMAIN lines /\ fewer[i] = lines[i]
              /\ i >= n => i + 1 \in DOMAIN lines /\ fewer[i] = lines[i + 1]
  <2>1. /\ i < n => i \in 1 .. n - 1 /\ i \in DOMAIN lines
        /\ i >= n => i + 1 \in n + 1 .. Len(lines) /\ i + 1 \in DOMAIN lines /\ (i + 1) - 1 = i
    BY <1>1, <1>6
  <2>2. ASSUME i >= n PROVE fewer[i] = lines[i + 1]
    <3>1. fewer[(i + 1) - 1] = lines[i + 1]
      BY <1>8, <2>1, <2>2, Zenon
    <3> QED BY <2>1, <2>2, <3>1
  <2> QED BY <1>7, <2>1, <2>2, Zenon
<1>11. IsRemove(fewer, lines, n)
  BY <1>6, <1>9, <1>10, Zenon DEF IsRemove
<1> QED BY <1>5, <1>11

LEMMA InsertShape ==
    ASSUME NEW lines, Shape(lines), NEW n \in 1 .. Len(lines) + 1, NEW line \in UserLine,
           InBlock(lines, n) => Unterminated(lines)
    PROVE  Shape(InsertAt(lines, n, line))
<1> DEFINE more == InsertAt(lines, n, line)
<1>0. lines \in Seq(Line) /\ line \in Line
  BY Markers DEF Shape
<1>1. DOMAIN lines = 1 .. Len(lines) /\ Len(lines) \in Nat /\ n \in Nat /\ 1 <= n /\ n <= Len(lines) + 1
  BY <1>0
<1>2. IsInsert(more, lines, n, line)
  BY <1>0, Inserts
<1> SUFFICES Shape(more)
  OBVIOUS
<1> HIDE DEF more
<1>3. more \in Seq(Line) /\ Len(more) = Len(lines) + 1 /\ DOMAIN more = 1 .. Len(lines) + 1
  BY <1>2, Zenon DEF IsInsert
<1>4. CASE lines \in Seq(UserLine)
  <2>1. \A i \in DOMAIN lines : lines[i] \in UserLine
    BY <1>4
  <2>2. ASSUME NEW i \in 1 .. Len(more) PROVE more[i] \in UserLine
    <3>1. i \in DOMAIN more /\ (i < n \/ i = n \/ i > n)
      BY <1>1, <1>3
    <3> QED BY <1>2, <2>1, <3>1, Zenon DEF IsInsert
  <2>3. more \in Seq(UserLine)
    BY <1>3, <2>2, ItemsIn
  <2> QED BY <1>3, <2>3 DEF Shape
<1>5. ASSUME NEW b \in DOMAIN lines, Open(lines, b)
      PROVE  Shape(more)
  <2> DEFINE at == IF n <= b THEN b + 1 ELSE b
  <2>1. at \in DOMAIN more /\ more[at] = "BEGIN"
    <3>1. CASE n <= b
      <4>1. b >= n /\ b + 1 \in DOMAIN more /\ at = b + 1
        BY <1>1, <1>3, <3>1
      <4> QED BY <1>2, <1>5, <4>1, Zenon DEF IsInsert, Open
    <3>2. CASE ~(n <= b)
      <4>1. b < n /\ b \in DOMAIN more /\ at = b
        BY <1>1, <1>3, <3>2
      <4> QED BY <1>2, <1>5, <4>1, Zenon DEF IsInsert, Open
    <3> QED BY <3>1, <3>2
  <2>2. ASSUME NEW i \in DOMAIN more
        PROVE  /\ i < at => more[i] \in UserLine
               /\ i > at => more[i] \notin {"BEGIN", "END"}
    <3>1. CASE i < n
      <4>1. (i < at => i < b) /\ (i > at => i > b)
        BY <1>1, <1>3, <3>1
      <4> QED BY <1>2, <1>5, <3>1, <4>1, Zenon DEF IsInsert, Open
    <3>2. CASE i = n
      BY <1>2, <3>2, Markers, Zenon DEF IsInsert
    <3>3. CASE i > n
      <4>1. (i < at => i - 1 < b) /\ (i > at => i - 1 > b)
        BY <1>1, <1>3, <3>3
      <4> QED BY <1>2, <1>5, <3>3, <4>1, Zenon DEF IsInsert, Open
    <3> QED BY <1>1, <1>3, <3>1, <3>2, <3>3
  <2> HIDE DEF at
  <2>3. Open(more, at)
    BY <2>1, <2>2, Zenon DEF Open
  <2> QED BY <1>3, <2>1, <2>3, Zenon DEF Shape, IsOpen
<1>6. ASSUME NEW b \in DOMAIN lines, NEW block \in Blocks, Closed(lines, b, block)
      PROVE  Shape(more)
  <2>0. /\ b \in Nat /\ 1 <= b /\ (b + Len(block)) - 1 <= Len(lines)
        /\ Len(block) \in Nat /\ Len(block) >= 2
    BY <1>0, <1>6, ClosedBounds, Zenon
  <2>1. n <= b \/ n >= b + Len(block)
    <3> DEFINE e == (b + Len(block)) - 1
    <3>1. Positions(lines, "BEGIN") = {b} /\ Positions(lines, "END") = {e}
      BY <1>0, <1>6, ClosedMarkers, Zenon
    <3>2. ~InBlock(lines, n)
      BY <1>0, <1>6, ClosedTerminated, Zenon
    <3> HIDE DEF e
    <3>3. ~(b < n) \/ e < n
      BY <3>1, <3>2, Zenon DEF InBlock
    <3> QED BY <1>1, <2>0, <3>3 DEF e
  <2> DEFINE at == IF n <= b THEN b + 1 ELSE b
  <2>2. at \in DOMAIN more /\ at \in Nat /\ 1 <= at /\ (at + Len(block)) - 1 <= Len(more)
    BY <1>1, <1>3, <2>0, <2>1
  <2>3. ASSUME NEW i \in 1 .. Len(block) PROVE more[(at + i) - 1] = block[i]
    <3>1. lines[(b + i) - 1] = block[i]
      BY <1>6, Zenon DEF Closed
    <3> DEFINE j == (b + i) - 1
    <3>2. /\ j \in DOMAIN lines
          /\ (j < n /\ (at + i) - 1 = j) \/ (j >= n /\ (at + i) - 1 = j + 1)
      BY <1>1, <2>0, <2>1
    <3>3. (j < n => more[j] = lines[j]) /\ (j >= n => more[j + 1] = lines[j])
      BY <1>2, <3>2, Zenon DEF IsInsert
    <3> HIDE DEF at
    <3> QED BY <3>1, <3>2, <3>3
  <2>4. ASSUME NEW i \in DOMAIN more, i < at \/ i >= at + Len(block) PROVE more[i] \in UserLine
    <3>1. CASE i < n
      <4>1. i < b \/ i >= b + Len(block)
        BY <1>1, <1>3, <2>0, <2>1, <2>4, <3>1
      <4> QED BY <1>2, <1>6, <3>1, <4>1, Zenon DEF IsInsert, Closed
    <3>2. CASE i = n
      BY <1>2, <3>2, Zenon DEF IsInsert
    <3>3. CASE i > n
      <4>1. i - 1 < b \/ i - 1 >= b + Len(block)
        BY <1>1, <1>3, <2>0, <2>1, <2>4, <3>3
      <4> QED BY <1>2, <1>6, <3>3, <4>1, Zenon DEF IsInsert, Closed
    <3> QED BY <1>1, <1>3, <3>1, <3>2, <3>3
  <2> HIDE DEF at
  <2>5. Closed(more, at, block)
    BY <2>2, <2>3, <2>4, Zenon DEF Closed
  <2> QED BY <1>3, <2>2, <2>5, Zenon DEF Shape, IsClosed
<1> QED BY <1>4, <1>5, <1>6, Zenon DEF Shape, IsOpen, IsClosed

\* What a torn line leaves at the end of the file is as good as a line of the user's.
LEMMA TornShape ==
    ASSUME NEW lines, Shape(lines), NEW torn \in {<<>>, <<"key">>}
    PROVE  Shape(lines \o torn)
<1> DEFINE n == Len(lines) + 1
           longer == lines \o <<"key">>
           more == InsertAt(lines, n, "key")
<1>0. lines \in Seq(Line)
  BY DEF Shape
<1>1. Len(lines) \in Nat /\ n \in 1 .. Len(lines) + 1 /\ DOMAIN lines = 1 .. Len(lines)
  BY <1>0
<1>2. "key" \in UserLine /\ "key" \in Line
  BY DEF UserLine, Line
<1>3. <<"key">> \in Seq(Line) /\ Len(<<"key">>) = 1 /\ <<"key">>[1] = "key" /\ 1 \in 1 .. 1
  BY <1>2
<1>4. IsJoin(Line, longer, lines, <<"key">>)
  BY <1>0, <1>3, Join, Zenon
<1>5. IsInsert(more, lines, n, "key")
  BY <1>0, <1>1, <1>2, Inserts
<1>6. InBlock(lines, n) => Unterminated(lines)
  <2>1. \A e \in Positions(lines, "END") : e < n
    BY <1>1 DEF Positions
  <2> HIDE DEF n
  <2> QED BY <2>1, Zenon DEF InBlock, Unterminated
<1>7. Shape(more)
  BY <1>1, <1>2, <1>6, InsertShape
<1> HIDE DEF longer, more
<1>8. longer \in Seq(Line) /\ Len(longer) = n /\ more \in Seq(Line) /\ Len(more) = n
  BY <1>3, <1>4, <1>5 DEF IsJoin, IsInsert
<1>9. ASSUME NEW i \in 1 .. n PROVE longer[i] = more[i]
  <2>1. CASE i \in 1 .. Len(lines)
    <3>1. i \in DOMAIN lines /\ i < n
      BY <1>1, <2>1
    <3> QED BY <1>4, <1>5, <2>1, <3>1, Zenon DEF IsJoin, IsInsert
  <2>2. CASE i = n
    <3>1. longer[n] = "key"
      BY <1>3, <1>4, Zenon DEF IsJoin
    <3>2. more[n] = "key"
      BY <1>5, Zenon DEF IsInsert
    <3> QED BY <2>2, <3>1, <3>2
  <2>3. i \in 1 .. Len(lines) \/ i = n
    BY <1>1
  <2> QED BY <2>1, <2>2, <2>3, Zenon
<1>10. longer = more
  BY <1>8, <1>9, SameItems
<1>11. Shape(lines \o <<"key">>)
  BY <1>7, <1>10, Zenon DEF longer
<1>12. lines \o <<>> = lines
  BY <1>0
<1> QED BY <1>11, <1>12

LEMMA RemoveShape ==
    ASSUME NEW lines, Shape(lines), NEW n \in DOMAIN lines, lines[n] \in UserLine
    PROVE  Shape(RemoveAt(lines, n))
<1> DEFINE fewer == RemoveAt(lines, n)
<1>0. lines \in Seq(Line)
  BY DEF Shape
<1>1. DOMAIN lines = 1 .. Len(lines) /\ Len(lines) \in Nat /\ n \in Nat /\ 1 <= n /\ n <= Len(lines)
  BY <1>0
<1>2. IsRemove(fewer, lines, n)
  BY <1>0, RemovesOne
<1> SUFFICES Shape(fewer)
  OBVIOUS
<1> HIDE DEF fewer
<1>3. fewer \in Seq(Line) /\ Len(fewer) = Len(lines) - 1 /\ DOMAIN fewer = 1 .. Len(lines) - 1
  BY <1>2, Zenon DEF IsRemove
<1>4. CASE lines \in Seq(UserLine)
  <2>1. \A i \in DOMAIN lines : lines[i] \in UserLine
    BY <1>4
  <2>2. ASSUME NEW i \in 1 .. Len(fewer) PROVE fewer[i] \in UserLine
    <3>1. i \in DOMAIN fewer /\ (i < n \/ i >= n)
      BY <1>1, <1>3
    <3> QED BY <1>2, <2>1, <3>1, Zenon DEF IsRemove
  <2>3. fewer \in Seq(UserLine)
    BY <1>3, <2>2, ItemsIn
  <2> QED BY <1>3, <2>3 DEF Shape
<1>5. ASSUME NEW b \in DOMAIN lines, Open(lines, b)
      PROVE  Shape(fewer)
  <2>0. n # b
    BY <1>5, Markers, Zenon DEF Open
  <2> DEFINE at == IF n < b THEN b - 1 ELSE b
  <2>1. at \in DOMAIN fewer /\ fewer[at] = "BEGIN"
    <3>1. CASE n < b
      <4>1. b > n /\ b - 1 \in DOMAIN fewer /\ at = b - 1
        BY <1>1, <1>3, <3>1
      <4> QED BY <1>2, <1>5, <4>1, Zenon DEF IsRemove, Open
    <3>2. CASE ~(n < b)
      <4>1. b < n /\ b \in DOMAIN fewer /\ at = b
        BY <1>1, <1>3, <2>0, <3>2
      <4> QED BY <1>2, <1>5, <4>1, Zenon DEF IsRemove, Open
    <3> QED BY <3>1, <3>2
  <2>2. ASSUME NEW i \in DOMAIN fewer
        PROVE  /\ i < at => fewer[i] \in UserLine
               /\ i > at => fewer[i] \notin {"BEGIN", "END"}
    <3>1. CASE i < n
      <4>1. (i < at => i < b) /\ (i > at => i > b)
        BY <1>1, <1>3, <2>0, <3>1
      <4> QED BY <1>2, <1>5, <3>1, <4>1, Zenon DEF IsRemove, Open
    <3>2. CASE i >= n
      <4>1. (i < at => i + 1 < b) /\ (i > at => i + 1 > b)
        BY <1>1, <1>3, <2>0, <3>2
      <4> QED BY <1>2, <1>5, <3>2, <4>1, Zenon DEF IsRemove, Open
    <3> QED BY <1>1, <1>3, <3>1, <3>2
  <2> HIDE DEF at
  <2>3. Open(fewer, at)
    BY <2>1, <2>2, Zenon DEF Open
  <2> QED BY <1>3, <2>1, <2>3, Zenon DEF Shape, IsOpen
<1>6. ASSUME NEW b \in DOMAIN lines, NEW block \in Blocks, Closed(lines, b, block)
      PROVE  Shape(fewer)
  <2>0. /\ b \in Nat /\ 1 <= b /\ (b + Len(block)) - 1 <= Len(lines)
        /\ Len(block) \in Nat /\ Len(block) >= 2
    BY <1>0, <1>6, ClosedBounds, Zenon
  <2>1. n < b \/ n >= b + Len(block)
    <3>1. SUFFICES ASSUME b <= n, n < b + Len(block) PROVE FALSE
      BY <1>1, <2>0
    <3> QED BY <1>0, <1>6, <3>1, ClosedLine, Zenon
  <2> DEFINE at == IF n < b THEN b - 1 ELSE b
  <2>2. at \in DOMAIN fewer /\ at \in Nat /\ 1 <= at /\ (at + Len(block)) - 1 <= Len(fewer)
    BY <1>1, <1>3, <2>0, <2>1
  <2>3. ASSUME NEW i \in 1 .. Len(block) PROVE fewer[(at + i) - 1] = block[i]
    <3>1. lines[(b + i) - 1] = block[i]
      BY <1>6, Zenon DEF Closed
    <3> DEFINE j == (b + i) - 1
    <3>2. /\ j \in DOMAIN lines
          /\ (j < n /\ (at + i) - 1 = j) \/ (j > n /\ (at + i) - 1 = j - 1)
      BY <1>1, <2>0, <2>1
    <3>3. (j < n => fewer[j] = lines[j]) /\ (j > n => fewer[j - 1] = lines[j])
      BY <1>2, <3>2, Zenon DEF IsRemove
    <3> HIDE DEF at
    <3> QED BY <3>1, <3>2, <3>3
  <2>4. ASSUME NEW i \in DOMAIN fewer, i < at \/ i >= at + Len(block) PROVE fewer[i] \in UserLine
    <3>1. CASE i < n
      <4>1. i < b \/ i >= b + Len(block)
        BY <1>1, <1>3, <2>0, <2>1, <2>4, <3>1
      <4> QED BY <1>2, <1>6, <3>1, <4>1, Zenon DEF IsRemove, Closed
    <3>2. CASE i >= n
      <4>1. i + 1 < b \/ i + 1 >= b + Len(block)
        BY <1>1, <1>3, <2>0, <2>1, <2>4, <3>2
      <4> QED BY <1>2, <1>6, <3>2, <4>1, Zenon DEF IsRemove, Closed
    <3> QED BY <1>1, <1>3, <3>1, <3>2
  <2> HIDE DEF at
  <2>5. Closed(fewer, at, block)
    BY <2>2, <2>3, <2>4, Zenon DEF Closed
  <2> QED BY <1>3, <2>2, <2>5, Zenon DEF Shape, IsClosed
<1> QED BY <1>4, <1>5, <1>6, Zenon DEF Shape, IsOpen, IsClosed

-----------------------------------------------------------------------------
(* The plan.                                                                 *)

LEMMA Empty == Shape(<<>>) /\ <<>> \in Seq(UserLine)
BY DEF Shape

LEMMA CleanShape ==
    ASSUME NEW lines \in Seq(UserLine)
    PROVE  Shape(lines) /\ ~IsOpen(lines) /\ Only(lines, UserLine) = lines
<1>1. lines \in Seq(Line) /\ Positions(lines, "BEGIN") = {}
  BY CleanMarkers
<1>2. ~IsOpen(lines)
  BY <1>1, Zenon DEF IsOpen, Open, Positions
<1>3. Only(lines, UserLine) = lines
  BY OnlyAll
<1> QED BY <1>1, <1>2, <1>3, Zenon DEF Shape

\* The block that goes with the user's lines.
LEMMA InstallBlock ==
    ASSUME NEW cleaned, NEW url \in ProxyURLs
    PROVE  RenderCodexManagedBlock(url, HasTopLevelModelProvider(cleaned)) \in Blocks
<1>1. HasTopLevelModelProvider(cleaned) \in BOOLEAN
  BY DEF HasTopLevelModelProvider
<1> QED BY <1>1 DEF Blocks

\* What an install wrote is settled: it plans itself again.
LEMMA InstalledSettles ==
    ASSUME NEW lines, NEW url \in ProxyURLs, Installed(lines, url), NEW action, action # "uninstall"
    PROVE  Shape(lines) /\ ~IsOpen(lines) /\ PlanCodexConfig(lines, action, url) = lines
<1>1. PICK cleaned \in Seq(UserLine) :
        lines = cleaned \o RenderCodexManagedBlock(url, HasTopLevelModelProvider(cleaned))
  BY DEF Installed
<1> DEFINE block == RenderCodexManagedBlock(url, HasTopLevelModelProvider(cleaned))
<1>2. block \in Blocks
  BY InstallBlock
<1> HIDE DEF block
<1>3. Shape(lines) /\ ~IsOpen(lines) /\ RemoveManagedBlock(lines) = cleaned
  BY <1>1, <1>2, Appended DEF block
<1>4. PlanCodexConfig(lines, action, url) = cleaned \o block
  BY <1>3, Zenon DEF PlanCodexConfig, block
<1> QED BY <1>1, <1>3, <1>4 DEF block

\* A plan from a file of any shape, and one from a file whose block is not torn.
LEMMA PlanIs ==
    ASSUME NEW lines, Shape(lines), NEW action, NEW url \in ProxyURLs
    PROVE  LET next == PlanCodexConfig(lines, action, url)
           IN /\ Shape(next)
              /\ action = "uninstall" => next \in Seq(UserLine)
              /\ action # "uninstall" => Installed(next, url)
              /\ ~IsOpen(lines) => Only(next, UserLine) = Only(lines, UserLine)
<1> DEFINE cleaned == RemoveManagedBlock(lines)
           block == RenderCodexManagedBlock(url, HasTopLevelModelProvider(cleaned))
           next == PlanCodexConfig(lines, action, url)
<1>1. cleaned \in Seq(UserLine) /\ (~IsOpen(lines) => cleaned = Only(lines, UserLine))
  BY Removes
<1>2. block \in Blocks
  BY InstallBlock
<1>3. next = IF action = "uninstall" THEN cleaned ELSE cleaned \o block
  BY DEF PlanCodexConfig
<1>4. action # "uninstall" => Installed(next, url)
  BY <1>1, <1>3, Zenon DEF Installed
<1> HIDE DEF block, cleaned, next
<1>5. CASE action = "uninstall"
  BY <1>1, <1>3, <1>5, CleanShape, Zenon DEF next
<1>6. CASE action # "uninstall"
  <2>1. next = cleaned \o block
    BY <1>3, <1>6
  <2>2. Shape(cleaned \o block) /\ Only(cleaned \o block, UserLine) = cleaned
    BY <1>1, <1>2, Appended, Zenon
  <2> QED BY <1>1, <1>4, <1>6, <2>1, <2>2, Zenon DEF next
<1> QED BY <1>5, <1>6

-----------------------------------------------------------------------------
(* The inductive invariant.                                                  *)

LEMMA IdleTyped ==
    /\ Idle.pc = "idle" /\ Idle.next = <<>>
    /\ Idle \in [pc : {"idle", "planned", "truncated"}, action : Action, url : ProxyURLs,
                 next : Seq(Line)]
<1>1. (CHOOSE u \in ProxyURLs : TRUE) \in ProxyURLs
  BY CodexAssumption
<1> QED BY <1>1 DEF Idle, Action

LEMMA CodexInit == Init => CodexInv
<1> SUFFICES ASSUME Init PROVE CodexInv
  OBVIOUS
<1>1. file \in Seq(UserLine)
  <2>1. PICK m \in 0 .. MaxLines : file \in [1 .. m -> UserLine]
    BY DEF Init, BoundedSeq, SeqOf
  <2>2. MaxLines \in Nat
    BY CodexAssumption, Zenon
  <2>3. m \in Nat
    BY <2>2
  <2> QED BY <2>1, <2>3
<1>2. Shape(file) /\ ~IsOpen(file) /\ Only(file, UserLine) = file
  BY <1>1, CleanShape
<1>3. cmd.pc = "idle" /\ cmd.next = <<>>
  BY IdleTyped DEF Init
<1>4. TypeOK
  <2>0. MaxEdits \in Nat
    BY CodexAssumption, Zenon
  <2>1. edits \in 0 .. MaxEdits
    BY <2>0 DEF Init
  <2>2. file \in Seq(Line)
    BY <1>2 DEF Shape
  <2>3. disturbed \in BOOLEAN /\ user \in Seq(UserLine)
    BY <1>1, Zenon DEF Init
  <2> QED BY <2>1, <2>2, <2>3, IdleTyped, Zenon DEF Init, TypeOK
<1>5. Shape(cmd.next)
  BY <1>3, Empty
<1>6. Planned /\ Kept
  BY <1>2, <1>3 DEF Init, Planned, Kept
<1> QED BY <1>2, <1>4, <1>5, <1>6 DEF CodexInv

CmdType == [pc : {"idle", "planned", "truncated"}, action : Action, url : ProxyURLs, next : Seq(Line)]

LEMMA CommandStep ==
    ASSUME CodexInv, NEW action \in Action, NEW url \in ProxyURLs, NEW dryRun \in BOOLEAN,
           Command(action, url, dryRun)
    PROVE  CodexInv'
<1> DEFINE next == PlanCodexConfig(file, action, url)
<1>1. cmd.pc = "idle" /\ UNCHANGED <<file, user, disturbed, edits>>
  BY DEF Command
<1>2. CASE cmd' = cmd
  BY <1>1, <1>2 DEF CodexInv, TypeOK, Planned, Kept
<1>3. CASE cmd' # cmd
  <2>1. cmd' = [pc |-> "planned", action |-> action, url |-> url, next |-> next]
    BY <1>3 DEF Command
  <2>2. /\ Shape(next)
        /\ action = "uninstall" => next \in Seq(UserLine)
        /\ action # "uninstall" => Installed(next, url)
        /\ ~IsOpen(file) => Only(next, UserLine) = Only(file, UserLine)
    BY PlanIs, Zenon DEF CodexInv
  <2> HIDE DEF next
  <2>3. next \in Seq(Line)
    BY <2>2 DEF Shape
  <2>4. /\ cmd'.pc = "planned" /\ cmd'.action = action /\ cmd'.url = url /\ cmd'.next = next
        /\ cmd' \in CmdType
    BY <2>1, <2>3 DEF CmdType
  <2>5. TypeOK'
    BY <1>1, <2>4, Zenon DEF CodexInv, TypeOK, CmdType
  <2>6. Shape(file') /\ Shape(cmd'.next)
    BY <1>1, <2>2, <2>4 DEF CodexInv
  <2>7. Planned'
    BY <2>2, <2>4 DEF Planned
  <2>8. Kept'
    BY <1>1, <2>2, <2>4 DEF CodexInv, Kept
  <2> QED BY <2>5, <2>6, <2>7, <2>8 DEF CodexInv
<1> QED BY <1>2, <1>3

LEMMA TruncateStep ==
    ASSUME CodexInv, Truncate
    PROVE  CodexInv'
<1>1. /\ cmd.pc = "planned" /\ file' = <<>> /\ UNCHANGED <<user, disturbed, edits>>
      /\ cmd' = [cmd EXCEPT !.pc = "truncated"] /\ cmd \in CmdType
  BY DEF Truncate, CodexInv, TypeOK, CmdType
<1>2. /\ cmd'.pc = "truncated" /\ cmd'.action = cmd.action /\ cmd'.url = cmd.url
      /\ cmd'.next = cmd.next /\ cmd' \in CmdType
  BY <1>1 DEF CmdType
<1>3. Shape(file') /\ file' \in Seq(Line)
  BY <1>1, Empty DEF Shape
<1>4. TypeOK'
  BY <1>1, <1>2, <1>3, Zenon DEF CodexInv, TypeOK, CmdType
<1>5. Shape(cmd'.next)
  BY <1>2 DEF CodexInv
<1>6. Planned' /\ Kept'
  BY <1>1, <1>2 DEF CodexInv, Planned, Kept
<1> QED BY <1>3, <1>4, <1>5, <1>6 DEF CodexInv

\* What a command in progress will write is not torn.
LEMMA PlannedWhole ==
    ASSUME CodexInv, cmd.pc # "idle"
    PROVE  Shape(cmd.next) /\ ~IsOpen(cmd.next)
<1>1. cmd.url \in ProxyURLs
  BY DEF CodexInv, TypeOK
<1>2. CASE cmd.action = "uninstall"
  <2>1. cmd.next \in Seq(UserLine)
    BY <1>2 DEF CodexInv, Planned
  <2> QED BY <2>1, CleanShape
<1>3. CASE cmd.action # "uninstall"
  <2>1. Installed(cmd.next, cmd.url)
    BY <1>3 DEF CodexInv, Planned
  <2> QED BY <1>1, <1>3, <2>1, InstalledSettles, Zenon
<1> QED BY <1>2, <1>3

LEMMA WriteStep ==
    ASSUME CodexInv, Write
    PROVE  CodexInv'
<1>1. /\ cmd.pc = "truncated" /\ file' = cmd.next /\ UNCHANGED <<user, disturbed, edits>>
      /\ cmd' = [cmd EXCEPT !.pc = "idle"] /\ cmd \in CmdType
  BY DEF Write, CodexInv, TypeOK, CmdType
<1>2. cmd'.pc = "idle" /\ cmd'.next = cmd.next /\ cmd' \in CmdType
  BY <1>1 DEF CmdType
<1>3. Shape(file') /\ file' \in Seq(Line) /\ ~IsOpen(file')
  BY <1>1, PlannedWhole DEF Shape
<1>4. TypeOK'
  BY <1>1, <1>2, <1>3, Zenon DEF CodexInv, TypeOK, CmdType
<1>5. Shape(cmd'.next)
  BY <1>2 DEF CodexInv
<1>6. Planned'
  BY <1>2 DEF Planned
<1>7. Kept'
  BY <1>1, <1>2, <1>3 DEF CodexInv, Kept
<1> QED BY <1>3, <1>4, <1>5, <1>6, <1>7 DEF CodexInv

LEMMA CrashStep ==
    ASSUME CodexInv, CrashBefore \/ \E n \in 0 .. Len(cmd.next), torn \in {<<>>, <<"key">>} : CrashTorn(n, torn)
    PROVE  CodexInv'
<1>1. cmd' = Idle /\ UNCHANGED user
  BY DEF CrashBefore, CrashTorn
<1>2. cmd'.pc = "idle" /\ cmd'.next = <<>> /\ cmd' \in CmdType
  BY <1>1, IdleTyped DEF CmdType
<1>3. Shape(cmd'.next)
  BY <1>2, Empty
<1>4. Planned'
  BY <1>2 DEF Planned
<1>5. CASE CrashBefore
  <2>1. cmd.pc = "planned" /\ UNCHANGED <<file, disturbed, edits>>
    BY <1>5 DEF CrashBefore
  <2>2. TypeOK'
    BY <1>1, <1>2, <2>1, Zenon DEF CodexInv, TypeOK, CmdType
  <2>3. Kept'
    BY <1>1, <1>2, <2>1 DEF CodexInv, Kept
  <2> QED BY <1>3, <1>4, <2>1, <2>2, <2>3 DEF CodexInv
<1>6. ASSUME NEW n \in 0 .. Len(cmd.next), NEW torn \in {<<>>, <<"key">>}, CrashTorn(n, torn)
      PROVE  CodexInv'
  <2> DEFINE whole == SubSeq(cmd.next, 1, n)
  <2>1. file' = whole \o torn /\ disturbed' = TRUE
    BY <1>6 DEF CrashTorn
  <2>0. Shape(whole)
    BY PrefixShape DEF CodexInv
  <2>2. Shape(file')
    <3> HIDE DEF whole
    <3> QED BY <2>0, <2>1, TornShape
  <2>6. edits' \in 0 .. MaxEdits
    <3>1. MaxEdits \in Nat /\ edits \in 0 .. MaxEdits
      BY CodexAssumption, Zenon DEF CodexInv, TypeOK
    <3>2. CASE torn = <<>>
      BY <1>6, <3>1, <3>2 DEF CrashTorn
    <3>3. CASE torn # <<>>
      <4>1. torn = <<"key">> /\ Len(<<"key">>) = 1
        BY <3>3
      <4> QED BY <1>6, <3>1, <3>3, <4>1 DEF CrashTorn
    <3> QED BY <3>2, <3>3
  <2>3. file' \in Seq(Line)
    BY <2>2 DEF Shape
  <2>4. TypeOK'
    BY <1>1, <1>2, <2>1, <2>3, <2>6, Zenon DEF CodexInv, TypeOK, CmdType
  <2>5. Kept'
    BY <2>1 DEF Kept
  <2> QED BY <1>3, <1>4, <2>2, <2>4, <2>5 DEF CodexInv
<1> QED BY <1>5, <1>6

LEMMA EditStep ==
    ASSUME CodexInv, NEW lines, Shape(lines), Edit(lines)
    PROVE  CodexInv'
<1>1. /\ file' = lines /\ cmd' = cmd /\ user' = Only(lines, UserLine)
      /\ disturbed' = (cmd.pc # "idle" \/ Unterminated(lines))
      /\ edits < MaxEdits /\ edits' = edits + 1
  BY DEF Edit
<1>2. lines \in Seq(Line)
  BY DEF Shape
<1>3. user' \in Seq(UserLine)
  <2>1. Only(lines, UserLine) \in Seq(Line) /\ \E e : Places(e, Only(lines, UserLine), lines, UserLine, Len(lines))
    BY <1>2, OnlyPlaces
  <2>2. \A i \in DOMAIN Only(lines, UserLine) : Only(lines, UserLine)[i] \in UserLine
    BY <2>1, Zenon DEF Places
  <2>3. \A i \in 1 .. Len(Only(lines, UserLine)) : Only(lines, UserLine)[i] \in UserLine
    BY <2>1, <2>2
  <2> QED BY <1>1, <2>1, <2>3, ItemsIn
<1>4. edits' \in 0 .. MaxEdits
  <2>1. MaxEdits \in Nat
    BY CodexAssumption, Zenon
  <2>2. edits \in 0 .. MaxEdits
    BY DEF CodexInv, TypeOK
  <2> QED BY <1>1, <2>1, <2>2
<1>5. disturbed' \in BOOLEAN
  BY <1>1, Zenon
<1>6. TypeOK'
  BY <1>1, <1>2, <1>3, <1>4, <1>5, Zenon DEF CodexInv, TypeOK
<1>7. Shape(file') /\ Shape(cmd'.next) /\ Planned'
  BY <1>1 DEF CodexInv, Planned
<1>8. Kept'
  <2>1. ~disturbed' => cmd.pc = "idle" /\ ~Unterminated(lines)
    BY <1>1, Zenon
  <2>2. ~disturbed' => ~IsOpen(lines)
    BY <1>2, <2>1, OpenUnterminated
  <2> QED BY <1>1, <2>1, <2>2, Zenon DEF Kept
<1> QED BY <1>6, <1>7, <1>8 DEF CodexInv

LEMMA CodexStep == CodexInv /\ [Next]_vars => CodexInv'
<1> SUFFICES ASSUME CodexInv, [Next]_vars PROVE CodexInv'
  OBVIOUS
<1>1. ASSUME NEW n \in 1 .. Len(file) + 1, NEW line \in UserLine, UserInserts(n, line)
      PROVE  CodexInv'
  <2>1. Shape(InsertAt(file, n, line))
    BY <1>1, InsertShape DEF CodexInv, UserInserts
  <2> QED BY <1>1, <2>1, EditStep DEF UserInserts
<1>2. ASSUME NEW n \in DOMAIN file, UserRemoves(n)
      PROVE  CodexInv'
  <2>1. Shape(RemoveAt(file, n))
    BY <1>2, RemoveShape DEF CodexInv, UserRemoves
  <2> QED BY <1>2, <2>1, EditStep DEF UserRemoves
<1>3. CASE UNCHANGED vars
  BY <1>3 DEF vars, CodexInv, TypeOK, Planned, Kept
<1> QED BY <1>1, <1>2, <1>3, CommandStep, TruncateStep, WriteStep, CrashStep DEF Next

LEMMA CodexInvariant == Spec => []CodexInv
BY CodexInit, CodexStep, PTL DEF Spec

-----------------------------------------------------------------------------
(* What follows.                                                             *)

\* Every state has the type the module declares, for every set of addresses.
THEOREM CodexTyped == Spec => []TypeOK
<1>1. CodexInv => TypeOK
  BY DEF CodexInv
<1> QED BY <1>1, CodexInvariant, PTL

LEMMA ShapeOneBlock ==
    ASSUME NEW lines, Shape(lines), NEW marker \in {"BEGIN", "END"},
           NEW m \in Positions(lines, marker), NEW n \in Positions(lines, marker)
    PROVE  m = n
<1>0. lines \in Seq(Line)
  BY DEF Shape
<1>1. CASE lines \in Seq(UserLine)
  BY <1>1, CleanMarkers
<1>2. ASSUME NEW b \in DOMAIN lines, Open(lines, b)
      PROVE  m = n
  <2>1. Positions(lines, "BEGIN") = {b} /\ \A k \in Positions(lines, "END") : FALSE
    BY <1>0, <1>2, OpenMarkers
  <2> QED BY <2>1
<1>3. ASSUME NEW b \in DOMAIN lines, NEW block \in Blocks, Closed(lines, b, block)
      PROVE  m = n
  <2>1. Positions(lines, "BEGIN") = {b} /\ Positions(lines, "END") = {(b + Len(block)) - 1}
    BY <1>0, <1>3, ClosedMarkers, Zenon
  <2> QED BY <2>1
<1> QED BY <1>1, <1>2, <1>3, Zenon DEF Shape, IsOpen, IsClosed

\* Neither the file nor a plan ever holds a second block, whatever commands, edits,
\* kills and torn writes led to it.
THEOREM CodexOneBlock == Spec => []OneBlock
<1>1. CodexInv => OneBlock
  <2> SUFFICES ASSUME CodexInv, NEW lines \in {file, cmd.next}, NEW marker \in {"BEGIN", "END"},
                      NEW m \in Positions(lines, marker), NEW n \in Positions(lines, marker)
               PROVE  m = n
    BY DEF OneBlock
  <2>1. Shape(lines)
    BY DEF CodexInv
  <2> QED BY <2>1, ShapeOneBlock
<1> QED BY <1>1, CodexInvariant, PTL

\* Unless a command was killed or the user edited the file under a running one, the
\* file holds the user's lines, all of them and in their order.
THEOREM CodexUserLinesSurvive == Spec => []UserLinesSurvive
<1>1. CodexInv => UserLinesSurvive
  BY DEF CodexInv, Kept, UserLinesSurvive
<1> QED BY <1>1, CodexInvariant, PTL

\* The two verdicts of `cachy doctor` about the markers.
LEMMA Verdict ==
    ASSUME NEW lines
    PROVE  /\ CheckCodexIntegration(lines) = "OK" <=>
                /\ Positions(lines, "BEGIN") # {} /\ Positions(lines, "END") # {}
                /\ Positions(lines, "cachy table") # {}
                /\ \E url \in ProxyURLs : Positions(lines, url) # {}
           /\ CheckCodexIntegration(lines) = "not configured" <=>
                Positions(lines, "BEGIN") = {} /\ Positions(lines, "END") = {}
BY DEF CheckCodexIntegration

LEMMA ClosedVerdict ==
    ASSUME NEW lines \in Seq(Line), NEW b, NEW block \in Blocks, Closed(lines, b, block)
    PROVE  CheckCodexIntegration(lines) = "OK"
<1>1. BlockFacts(block)
  BY BlocksAre
<1>2. /\ DOMAIN lines = 1 .. Len(lines) /\ Len(lines) \in Nat
      /\ b \in Nat /\ 1 <= b /\ (b + Len(block)) - 1 <= Len(lines)
      /\ Len(block) \in Nat /\ Len(block) >= 2
  BY ClosedBounds, Zenon
<1>3. \A i \in 1 .. Len(block) : (b + i) - 1 \in DOMAIN lines
  BY <1>2
<1>4. \A i \in 1 .. Len(block) : (b + i) - 1 \in Positions(lines, block[i])
  BY <1>3, Zenon DEF Closed, Positions
<1>5. Positions(lines, "BEGIN") # {} /\ Positions(lines, "END") # {}
  BY ClosedMarkers, Zenon
<1>6. Positions(lines, "cachy table") # {} /\ \E url \in ProxyURLs : Positions(lines, url) # {}
  BY <1>1, <1>4, Zenon DEF BlockFacts
<1> QED BY <1>5, <1>6, Verdict, Zenon

\* A closed block stands in the file in one piece.
LEMMA ClosedInOnePiece ==
    ASSUME NEW lines \in Seq(Line), NEW b, NEW block \in Blocks, Closed(lines, b, block)
    PROVE  IsPrefix(block, SubSeq(lines, b, Len(lines)))
<1>1. /\ DOMAIN lines = 1 .. Len(lines) /\ Len(lines) \in Nat
      /\ b \in Nat /\ 1 <= b /\ (b + Len(block)) - 1 <= Len(lines)
      /\ Len(block) \in Nat /\ Len(block) >= 2
  BY ClosedBounds, Zenon
<1>2. block \in Seq(Line)
  BY BlocksAre, Zenon DEF BlockFacts
<1> DEFINE rest == SubSeq(lines, b, Len(lines))
<1>3. /\ rest \in Seq(Line) /\ Len(rest) = (Len(lines) - b) + 1
      /\ \A i \in 1 .. (Len(lines) - b) + 1 : rest[i] = lines[(b + i) - 1]
  BY <1>1
<1> HIDE DEF rest
<1>4. Len(block) <= Len(rest)
  BY <1>1, <1>3
<1>5. ASSUME NEW i \in 1 .. Len(block) PROVE block[i] = rest[i]
  <2>1. i \in 1 .. (Len(lines) - b) + 1
    BY <1>1
  <2> QED BY <1>3, <2>1, Zenon DEF Closed
<1>6. /\ SubSeq(block, 1, Len(block)) \in Seq(Line) /\ SubSeq(rest, 1, Len(block)) \in Seq(Line)
      /\ Len(SubSeq(block, 1, Len(block))) = Len(block)
      /\ Len(SubSeq(rest, 1, Len(block))) = Len(block)
      /\ \A i \in 1 .. Len(block) :
           SubSeq(block, 1, Len(block))[i] = block[i] /\ SubSeq(rest, 1, Len(block))[i] = rest[i]
  BY <1>1, <1>2, <1>3, <1>4
<1>7. SubSeq(block, 1, Len(block)) = SubSeq(rest, 1, Len(block))
  BY <1>5, <1>6, SameItems
<1> QED BY <1>4, <1>7 DEF IsPrefix, rest

\* What `cachy doctor` says is so in every state, and the commands it recommends make
\* it content, after torn writes and in the middle of a command too.
THEOREM CodexDoctorTruthful == Spec => []DoctorTruthful
<1>1. CodexInv => DoctorTruthful
  <2> SUFFICES ASSUME CodexInv PROVE DoctorTruthful
    OBVIOUS
  <2>0. Shape(file) /\ file \in Seq(Line)
    BY DEF CodexInv, Shape
  <2>1. ASSUME CheckCodexIntegration(file) = "OK"
        PROVE  \E url \in ProxyURLs, preserve \in BOOLEAN, n \in DOMAIN file :
                 IsPrefix(RenderCodexManagedBlock(url, preserve), SubSeq(file, n, Len(file)))
    <3>1. Positions(file, "BEGIN") # {} /\ Positions(file, "END") # {}
      BY <2>1, Verdict, Zenon
    <3>2. file \notin Seq(UserLine)
      BY <3>1, CleanMarkers
    <3>3. ~IsOpen(file)
      BY <2>0, <3>1, OpenMarkers, Zenon DEF IsOpen
    <3>4. PICK b \in DOMAIN file, block \in Blocks : Closed(file, b, block)
      BY <2>0, <3>2, <3>3 DEF Shape, IsClosed
    <3>5. IsPrefix(block, SubSeq(file, b, Len(file)))
      BY <2>0, <3>4, ClosedInOnePiece
    <3>6. PICK url \in ProxyURLs, preserve \in BOOLEAN : block = RenderCodexManagedBlock(url, preserve)
      BY DEF Blocks
    <3> QED BY <3>5, <3>6, Zenon
  <2>2. ASSUME CheckCodexIntegration(file) = "not configured"
        PROVE  file \in Seq(UserLine)
    <3>1. Positions(file, "BEGIN") = {} /\ Positions(file, "END") = {}
      BY <2>2, Verdict, Zenon
    <3>2. ~IsOpen(file)
      BY <2>0, <3>1, OpenMarkers, Zenon DEF IsOpen
    <3>3. ~IsClosed(file)
      <4>1. ASSUME NEW b \in DOMAIN file, NEW block \in Blocks, Closed(file, b, block) PROVE FALSE
        <5>1. Positions(file, "BEGIN") = {b}
          BY <2>0, <4>1, ClosedMarkers, Zenon
        <5> QED BY <3>1, <5>1, Zenon
      <4> QED BY <4>1, Zenon DEF IsClosed
    <3> QED BY <2>0, <3>2, <3>3 DEF Shape
  <2>3. ASSUME NEW url \in ProxyURLs
        PROVE  CheckCodexIntegration(PlanCodexConfig(file, "repair", url)) = "OK"
    <3> DEFINE next == PlanCodexConfig(file, "repair", url)
    <3>1. Installed(next, url)
      BY <2>0, PlanIs
    <3> HIDE DEF next
    <3>2. PICK cleaned \in Seq(UserLine) :
            next = cleaned \o RenderCodexManagedBlock(url, HasTopLevelModelProvider(cleaned))
      BY <3>1 DEF Installed
    <3> DEFINE block == RenderCodexManagedBlock(url, HasTopLevelModelProvider(cleaned))
    <3>3. block \in Blocks
      BY InstallBlock
    <3>4. next = cleaned \o block
      BY <3>2
    <3> HIDE DEF block
    <3>5. Shape(cleaned \o block) /\ Closed(cleaned \o block, Len(cleaned) + 1, block)
      BY <3>3, Appended, Zenon
    <3>6. CheckCodexIntegration(cleaned \o block) = "OK"
      <4>1. cleaned \o block \in Seq(Line)
        BY <3>5 DEF Shape
      <4> QED BY <3>3, <3>5, <4>1, ClosedVerdict, Zenon
    <3> QED BY <3>4, <3>6 DEF next
  <2>4. ASSUME NEW url \in ProxyURLs
        PROVE  CheckCodexIntegration(PlanCodexConfig(file, "uninstall", url)) = "not configured"
    <3>1. PlanCodexConfig(file, "uninstall", url) \in Seq(UserLine)
      BY <2>0, PlanIs
    <3> QED BY <3>1, CleanMarkers, Verdict, Zenon
  <2> QED BY <2>1, <2>2, <2>3, <2>4, Zenon DEF DoctorTruthful
<1> QED BY <1>1, CodexInvariant, PTL

\* A completed uninstall leaves the user's lines and no other, and a completed install
\* or repair leaves a file that it would plan again as it is.
THEOREM CodexCommandsExact == Spec => CommandsExact
<1>1. CodexInv /\ Write => UninstallReverses /\ InstallSettles
  <2> SUFFICES ASSUME CodexInv, Write PROVE UninstallReverses /\ InstallSettles
    OBVIOUS
  <2>0. cmd.pc = "truncated" /\ file' = cmd.next /\ cmd.url \in ProxyURLs
    BY DEF Write, CodexInv, TypeOK
  <2>1. ASSUME cmd.action = "uninstall", ~disturbed PROVE file' = user
    <3>1. cmd.next \in Seq(UserLine) /\ Only(cmd.next, UserLine) = user
      BY <2>0, <2>1 DEF CodexInv, Planned, Kept
    <3> QED BY <2>0, <3>1, OnlyAll
  <2>2. ASSUME cmd.action # "uninstall" PROVE PlanCodexConfig(file', cmd.action, cmd.url) = file'
    <3>1. Installed(cmd.next, cmd.url)
      BY <2>0, <2>2 DEF CodexInv, Planned
    <3>2. PlanCodexConfig(cmd.next, cmd.action, cmd.url) = cmd.next
      BY <2>0, <2>2, <3>1, InstalledSettles, Zenon
    <3> QED BY <2>0, <3>2
  <2> QED BY <2>1, <2>2, Zenon DEF UninstallReverses, InstallSettles
<1>2. CodexInv /\ [Next]_vars => [UninstallReverses /\ InstallSettles]_vars
  BY <1>1, Zenon DEF UninstallReverses, InstallSettles
<1> QED BY <1>2, CodexInvariant, PTL DEF Spec, CommandsExact
=============================================================================
