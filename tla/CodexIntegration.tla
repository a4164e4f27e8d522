--------------------------- MODULE CodexIntegration -------------------------
(***************************************************************************)
(* ApplyCodexIntegration of internal/install: the `cachy integrations       *)
(* codex` commands keep a marked block of lines in the user's config.toml.  *)
(* The file is a sequence of lines.  As in ClaudeIntegration a command      *)
(* reads, plans and then writes in place; the user edits the same file, and *)
(* a command may be killed.                                                 *)
(***************************************************************************)
EXTENDS Naturals, Sequences, SequencesExt, Selection

CONSTANTS
    ProxyURLs,      \* what --proxy-base-url may say
    MaxLines,       \* bound: the user's lines in the first file
    MaxEdits        \* bound: the user's edits and the lines torn by a failing write

\* A user's line: a setting or a comment, the header of a table, or a choice of
\* model_provider.
UserLine == {"key", "table", "provider"}

\* A line Cachy writes.  "select" is its model_provider line; the base_url line is
\* named by the URL.
ManagedLine == {"BEGIN", "select", "cachy table", "END"} \cup ProxyURLs

Line == UserLine \cup ManagedLine

ASSUME CodexAssumption ==
    /\ MaxLines \in Nat /\ MaxEdits \in Nat
    /\ ProxyURLs # {} /\ ProxyURLs \cap (UserLine \cup {"BEGIN", "select", "cachy table", "END"}) = {}

VARIABLES
    file,
    cmd,        \* the command in progress
    user,       \* history: the user's lines as the user last left them
    disturbed,  \* history: a command was killed, or the user edited the file while one
                \* was in progress, and the user has not put the file right since
    edits

vars == <<file, cmd, user, disturbed, edits>>

Action == {"install", "repair", "uninstall"}

Idle == [pc |-> "idle", action |-> "install", url |-> CHOOSE u \in ProxyURLs : TRUE, next |-> <<>>]

TypeOK ==
    /\ file \in Seq(Line)
    /\ cmd \in [pc : {"idle", "planned", "truncated"}, action : Action, url : ProxyURLs,
                next : Seq(Line)]
    /\ user \in Seq(UserLine)
    /\ disturbed \in BOOLEAN
    /\ edits \in 0 .. MaxEdits

Init ==
    /\ file \in BoundedSeq(UserLine, MaxLines)
    /\ cmd = Idle
    /\ user = file
    /\ disturbed = FALSE
    /\ edits = 0

-----------------------------------------------------------------------------
(* The plan.                                                                 *)

Positions(lines, line) == {n \in DOMAIN lines : lines[n] = line}

\* Mutant: the text before the block is all that is kept.
RemoveManagedTail(lines) ==
    LET begins == Positions(lines, "BEGIN")
    IN IF begins = {} THEN lines ELSE SubSeq(lines, 1, Min(begins) - 1)

\* Mutant: a block without an END line is left alone.
RemoveManagedClosed(lines) ==
    LET begins == Positions(lines, "BEGIN")
        start == Min(begins)
        ends == {n \in Positions(lines, "END") : n > start}
    IN IF begins = {} \/ ends = {} THEN lines
       ELSE SubSeq(lines, 1, start - 1) \o SubSeq(lines, Min(ends) + 1, Len(lines))

\* removeManagedBlock: the first block goes; one without an END line takes the rest
\* of the file with it.
RemoveManagedBlock(lines) ==
    LET begins == Positions(lines, "BEGIN")
        start == Min(begins)
        ends == {n \in Positions(lines, "END") : n > start}
    IN IF begins = {} THEN lines
       ELSE IF ends = {} THEN SubSeq(lines, 1, start - 1)
       ELSE SubSeq(lines, 1, start - 1) \o SubSeq(lines, Min(ends) + 1, Len(lines))

\* hasTopLevelModelProvider: tables are not told apart from the top level.
HasTopLevelModelProvider(lines) ==
    Positions(lines, "provider") # {} \/ Positions(lines, "select") # {}

\* Mutant: the base_url is lost.
RenderCodexNoURL(url, preserveProvider) ==
    <<"BEGIN">> \o (IF preserveProvider THEN <<>> ELSE <<"select">>)
                \o <<"cachy table", "", "END">>

RenderCodexManagedBlock(url, preserveProvider) ==
    <<"BEGIN">> \o (IF preserveProvider THEN <<>> ELSE <<"select">>)
                \o <<"cachy table", url, "END">>

\* Mutant: the block's own model_provider is taken for the user's.
PlanCodexConfigStale(lines, action, url) ==
    LET cleaned == RemoveManagedBlock(lines)
    IN IF action = "uninstall" THEN cleaned
       ELSE cleaned \o RenderCodexManagedBlock(url, HasTopLevelModelProvider(lines))

\* Mutant: uninstall is treated as repair.
PlanCodexConfigAnyAction(lines, action, url) ==
    LET cleaned == RemoveManagedBlock(lines)
    IN cleaned \o RenderCodexManagedBlock(url, HasTopLevelModelProvider(cleaned))

\* planCodexConfig: the block is removed wherever it stood and appended at the end.
PlanCodexConfig(lines, action, url) ==
    LET cleaned == RemoveManagedBlock(lines)
    IN IF action = "uninstall" THEN cleaned
       ELSE cleaned \o RenderCodexManagedBlock(url, HasTopLevelModelProvider(cleaned))

\* Mutant: the END line is not looked for.
CheckCodexOpenBlock(lines) ==
    LET has(line) == Positions(lines, line) # {}
    IN CASE ~has("BEGIN") -> "not configured"
         [] has("BEGIN") /\ has("cachy table") /\ (\E url \in ProxyURLs : has(url)) -> "OK"
         [] OTHER -> "incomplete"

\* checkCodexIntegration of `cachy doctor`, which only reads: the lines of the block are
\* looked for anywhere in the file.
CheckCodexIntegration(lines) ==
    LET has(line) == Positions(lines, line) # {}
    IN CASE ~has("BEGIN") /\ ~has("END") -> "not configured"
         [] /\ has("BEGIN") /\ has("END") /\ has("cachy table")
            /\ \E url \in ProxyURLs : has(url) -> "OK"
         [] OTHER -> "incomplete"

-----------------------------------------------------------------------------
(* The command and the user.                                                 *)

\* A plan that changes nothing, and a dry run, end here.
Command(action, url, dryRun) ==
    LET next == PlanCodexConfig(file, action, url)
    IN /\ cmd.pc = "idle"
       /\ cmd' = IF dryRun \/ next = file THEN cmd
                 ELSE [pc |-> "planned", action |-> action, url |-> url, next |-> next]
       /\ UNCHANGED <<file, user, disturbed, edits>>

\* os.WriteFile opens the file with O_TRUNC.
Truncate ==
    /\ cmd.pc = "planned"
    /\ cmd' = [cmd EXCEPT !.pc = "truncated"]
    /\ file' = <<>>
    /\ UNCHANGED <<user, disturbed, edits>>

Write ==
    /\ cmd.pc = "truncated"
    /\ cmd' = [cmd EXCEPT !.pc = "idle"]
    /\ file' = cmd.next
    /\ UNCHANGED <<user, disturbed, edits>>

CrashBefore ==
    /\ cmd.pc = "planned"
    /\ cmd' = Idle
    /\ UNCHANGED <<file, user, disturbed, edits>>

\* The command is killed, or the write fails, after the first n lines, or inside the
\* next one: what is left of that is taken for a setting or a comment like any other.
CrashTorn(n, torn) ==
    /\ cmd.pc = "truncated"
    /\ torn # <<>> => n < Len(cmd.next) /\ edits < MaxEdits
    /\ cmd' = Idle
    /\ file' = SubSeq(cmd.next, 1, n) \o torn
    /\ disturbed' = TRUE
    /\ edits' = edits + Len(torn)
    /\ UNCHANGED user

Unterminated(lines) ==
    \E b \in Positions(lines, "BEGIN") : \A e \in Positions(lines, "END") : e < b

\* Line n stands strictly between the markers, or the block has no end.
InBlock(lines, n) ==
    /\ \E b \in Positions(lines, "BEGIN") : b < n
    /\ ~\E e \in Positions(lines, "END") : e < n

Edit(lines) ==
    /\ edits < MaxEdits
    /\ edits' = edits + 1
    /\ file' = lines
    /\ user' = Only(lines, UserLine)
    /\ disturbed' = (cmd.pc # "idle" \/ Unterminated(lines))
    /\ UNCHANGED cmd

\* The user keeps out of a block that shows where it ends.
UserInserts(n, line) ==
    /\ InBlock(file, n) => Unterminated(file)
    /\ Edit(InsertAt(file, n, line))

UserRemoves(n) ==
    /\ file[n] \in UserLine
    /\ Edit(RemoveAt(file, n))

Next ==
    \/ \E action \in Action, url \in ProxyURLs, dryRun \in BOOLEAN : Command(action, url, dryRun)
    \/ Truncate
    \/ Write
    \/ CrashBefore
    \/ \E n \in 0 .. Len(cmd.next), torn \in {<<>>, <<"key">>} : CrashTorn(n, torn)
    \/ \E n \in 1 .. Len(file) + 1, line \in UserLine : UserInserts(n, line)
    \/ \E n \in DOMAIN file : UserRemoves(n)

Spec == Init /\ [][Next]_vars

-----------------------------------------------------------------------------
(* Properties.                                                               *)

\* There is never more than one block, through repeated installs, edits around it,
\* kills and torn writes, so that removing the first one removes all of Cachy
\* (codex.go, removeManagedBlock).
OneBlock ==
    \A lines \in {file, cmd.next}, marker \in {"BEGIN", "END"} :
        \A m, n \in Positions(lines, marker) : m = n

\* The user's lines stay, all of them and in their order, wherever the user put them
\* around the block, whatever sequence of commands is run
\* (docs/agent-integrations.md: "preserves unrelated Codex configuration").
UserLinesSurvive ==
    cmd.pc # "truncated" /\ ~disturbed => Only(file, UserLine) = user

\* `cachy doctor` is right whenever it is run, after torn writes and in the middle of a
\* command too: OK means that the whole block stands in the file, in one piece, and
\* "not configured" that there is no line of Cachy's but a torn one; and after the repair it recommends
\* it is content, after an uninstall it finds nothing (doctor.go, checkCodexIntegration;
\* codex.go, planCodexConfig).
DoctorTruthful ==
    /\ CheckCodexIntegration(file) = "OK" =>
         \E url \in ProxyURLs, preserve \in BOOLEAN, n \in DOMAIN file :
             IsPrefix(RenderCodexManagedBlock(url, preserve), SubSeq(file, n, Len(file)))
    /\ CheckCodexIntegration(file) = "not configured" => file \in Seq(UserLine)
    /\ \A url \in ProxyURLs :
         /\ CheckCodexIntegration(PlanCodexConfig(file, "repair", url)) = "OK"
         /\ CheckCodexIntegration(PlanCodexConfig(file, "uninstall", url)) = "not configured"

\* A completed uninstall gives the file back: the user's lines and no other.
UninstallReverses ==
    Write /\ cmd.action = "uninstall" /\ ~disturbed => file' = user

\* A repeated install finds nothing to do: its second plan is the file it wrote, so
\* the block's own model_provider is never taken for the user's.
InstallSettles ==
    Write /\ cmd.action # "uninstall" =>
        PlanCodexConfig(file', cmd.action, cmd.url) = file'

\* No command leaves a trace that the next one would have to clear away (codex.go,
\* planCodexConfig).
CommandsExact == [][UninstallReverses /\ InstallSettles]_vars

-----------------------------------------------------------------------------
(* docs/agent-integrations.md: "Install and repair add or replace only the   *)
(* managed Cachy block ... preserves unrelated Codex configuration."         *)

\* Cachy's lines do not end up inside a table of the user's: in TOML a setting after
\* a table's header belongs to that table.
UserTablesKept ==
    \A n \in Positions(file, "select") : ~\E t \in Positions(file, "table") : t < n
=============================================================================
