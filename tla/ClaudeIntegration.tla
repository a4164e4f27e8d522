--------------------------- MODULE ClaudeIntegration ------------------------
(***************************************************************************)
(* ApplyClaudeIntegration of internal/install: the `cachy integrations      *)
(* claude` commands edit the user's own settings.json.  A command reads the *)
(* file, plans the new settings and writes the file in place, in two steps  *)
(* of the operating system (truncate, then write); the user edits the same  *)
(* file at any time, and the command may be killed at any step.             *)
(***************************************************************************)
EXTENDS Naturals

CONSTANTS
    UserURLs,       \* what the user sets ANTHROPIC_BASE_URL to
    ProxyURLs,      \* what --anthropic-base-url may say
    NoURL,
    MaxEdits        \* bound: the user's edits

ASSUME ClaudeAssumption == NoURL \notin UserURLs \cup ProxyURLs /\ MaxEdits \in Nat

URL == UserURLs \cup ProxyURLs \cup {NoURL}

\* What settings.json says: env.ANTHROPIC_BASE_URL, whether env has other
\* variables, the cachy metadata's anthropic_base_url, and whether there are
\* settings that have nothing to do with Cachy.
Settings == [url : URL, envRest : BOOLEAN, cachy : URL, rest : BOOLEAN]

\* An absent file and an empty one both read as no settings.
Empty == [url |-> NoURL, envRest |-> FALSE, cachy |-> NoURL, rest |-> FALSE]

Action == {"install", "repair", "uninstall"}

VARIABLES
    file,       \* the settings in the file
    garbled,    \* the file is not JSON: a write was cut short
    cmd,        \* the command in progress
    user,       \* history: the settings as the user last left them, Cachy's part aside
    disturbed,  \* history: since the user's last undisturbed edit, a command was killed or
                \* the user edited the file while one was in progress
    edits

vars == <<file, garbled, cmd, user, disturbed, edits>>

Idle == [pc |-> "idle", action |-> "install", next |-> Empty]

TypeOK ==
    /\ file \in Settings
    /\ garbled \in BOOLEAN
    /\ cmd \in [pc : {"idle", "planned", "truncated"}, action : Action, next : Settings]
    /\ user \in Settings
    /\ disturbed \in BOOLEAN
    /\ edits \in 0 .. MaxEdits

Init ==
    /\ file \in {s \in Settings : s.cachy = NoURL /\ s.url \in UserURLs \cup {NoURL}}
    /\ garbled = FALSE
    /\ cmd = Idle
    /\ user = file
    /\ disturbed = FALSE
    /\ edits = 0

-----------------------------------------------------------------------------
(* The plan.                                                                 *)

\* Mutant: a URL of the user's is taken over.
PlanInstallOverwrites(settings, url) == [settings EXCEPT !.url = url, !.cachy = url]

\* planClaudeSettings, install and repair: a URL that is not the one Cachy recorded
\* stays; the metadata is written in either case.
PlanInstall(settings, url) ==
    IF settings.url # NoURL /\ settings.url # settings.cachy
    THEN [settings EXCEPT !.cachy = url]
    ELSE [settings EXCEPT !.url = url, !.cachy = url]

\* Mutant: the metadata goes, the URL stays.
PlanUninstallMetadata(settings) == [settings EXCEPT !.cachy = NoURL]

\* Mutant: the URL goes, the metadata stays.
PlanUninstallURL(settings) ==
    [settings EXCEPT !.url = IF settings.cachy # NoURL /\ settings.url = settings.cachy
                             THEN NoURL ELSE settings.url]

\* Uninstall: the URL goes if it is the one Cachy recorded.
PlanUninstall(settings) ==
    [settings EXCEPT !.url = IF settings.cachy # NoURL /\ settings.url = settings.cachy
                             THEN NoURL ELSE settings.url,
                     !.cachy = NoURL]

Plan(settings, action, url) ==
    IF action = "uninstall" THEN PlanUninstall(settings) ELSE PlanInstall(settings, url)

\* Mutant: only Cachy's metadata is looked at.
CheckClaudeMetadata(settings, parses) ==
    IF parses /\ settings.cachy # NoURL THEN "OK" ELSE "WARN"

\* checkClaudeIntegration of `cachy doctor`, which only reads.
CheckClaudeIntegration(settings, parses) ==
    IF parses /\ settings.url # NoURL /\ settings.cachy # NoURL /\ settings.url = settings.cachy
    THEN "OK" ELSE "WARN"

-----------------------------------------------------------------------------
(* The command.                                                              *)

\* A plan that changes nothing, and a dry run, end here.
Command(action, url, dryRun) ==
    LET next == Plan(file, action, url)
    IN /\ cmd.pc = "idle"
       /\ ~garbled
       /\ cmd' = IF dryRun \/ next = file THEN cmd
                 ELSE [pc |-> "planned", action |-> action, next |-> next]
       /\ UNCHANGED <<file, garbled, user, disturbed, edits>>

\* Settings that do not parse are an error: nothing is written.
CommandRefused ==
    /\ cmd.pc = "idle"
    /\ garbled
    /\ UNCHANGED vars

\* os.WriteFile opens the file with O_TRUNC.
Truncate ==
    /\ cmd.pc = "planned"
    /\ cmd' = [cmd EXCEPT !.pc = "truncated"]
    /\ file' = Empty
    /\ garbled' = FALSE
    /\ UNCHANGED <<user, disturbed, edits>>

Write ==
    /\ cmd.pc = "truncated"
    /\ cmd' = [cmd EXCEPT !.pc = "idle"]
    /\ file' = cmd.next
    /\ garbled' = FALSE
    /\ UNCHANGED <<user, disturbed, edits>>

\* The command is killed, or a write fails.  Part of the text may be in the file.
Crash(partial) ==
    /\ cmd.pc # "idle"
    /\ partial => cmd.pc = "truncated"
    /\ cmd' = Idle
    /\ garbled' = (garbled \/ partial)
    /\ disturbed' = TRUE
    /\ UNCHANGED <<file, user, edits>>

\* The user sets or removes the URL and other settings, and repairs a file that
\* does not parse; Cachy's metadata is not the user's to edit.
UserEdits(url, envRest, rest) ==
    /\ edits < MaxEdits
    /\ edits' = edits + 1
    /\ file' = [file EXCEPT !.url = url, !.envRest = envRest, !.rest = rest]
    /\ user' = [Empty EXCEPT !.url = url, !.envRest = envRest, !.rest = rest]
    /\ garbled' = FALSE
    /\ disturbed' = (cmd.pc # "idle")
    /\ UNCHANGED cmd

Next ==
    \/ \E action \in Action, url \in ProxyURLs, dryRun \in BOOLEAN : Command(action, url, dryRun)
    \/ CommandRefused
    \/ Truncate
    \/ Write
    \/ \E partial \in BOOLEAN : Crash(partial)
    \/ \E url \in UserURLs \cup {NoURL}, envRest, rest \in BOOLEAN : UserEdits(url, envRest, rest)

Spec == Init /\ [][Next]_vars

-----------------------------------------------------------------------------
(* Properties.                                                               *)

\* No URL of Cachy's is left behind: as long as Claude is pointed at the proxy by a
\* URL the user never sets, the metadata names that URL, so that repair can replace
\* it and uninstall remove it; through edits at any moment, kills and half-written
\* files (claude.go, planClaudeSettings).
ManagedURLRecorded == file.url \in ProxyURLs \ UserURLs => file.cachy = file.url

\* Between commands, the user's settings are as the user left them: a URL the user
\* set is neither replaced nor removed by any sequence of install, repair and
\* uninstall, and neither is anything else ("removes only Cachy-managed settings
\* during uninstall", docs/agent-integration-mvp-readiness.md).
UserSettingsSurvive ==
    cmd.pc # "truncated" /\ ~disturbed =>
        /\ file.envRest = user.envRest /\ file.rest = user.rest
        /\ user.url # NoURL => file.url = user.url

\* `cachy doctor` is right whenever it is run, in the middle of a command too: OK means
\* that Claude is pointed at a proxy and the user wanted no other URL; and in a file
\* that parses, the repair it recommends satisfies it if and only if the user's own URL
\* does not stand in the way (doctor.go, checkClaudeIntegration; claude.go,
\* planClaudeSettings).
DoctorTruthful ==
    /\ CheckClaudeIntegration(file, ~garbled) = "OK" =>
         /\ file.url \in ProxyURLs
         /\ ~disturbed => user.url = NoURL
    /\ ~garbled => \A url \in ProxyURLs :
         /\ CheckClaudeIntegration(Plan(file, "repair", url), TRUE) = "OK"
              <=> file.url \notin UserURLs
         /\ CheckClaudeIntegration(Plan(file, "uninstall", url), TRUE) = "WARN"

\* A completed uninstall gives the file back: what is left is the user's alone
\* (README.md: "Reversible Codex and Claude Code integration").
UninstallReverses ==
    [][Write /\ cmd.action = "uninstall" /\ ~disturbed =>
            file' = [user EXCEPT !.cachy = NoURL]]_vars
=============================================================================
