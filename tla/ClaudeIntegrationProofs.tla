---------------------- MODULE ClaudeIntegrationProofs -----------------------
(***************************************************************************)
(* Machine-checked proofs about ClaudeIntegration, for any sets of URLs and *)
(* any number of edits.                                                     *)
(***************************************************************************)
EXTENDS ClaudeIntegration, TLAPS

\* Settings whose metadata can be trusted.
Recorded(s) ==
    /\ s.cachy \in ProxyURLs \cup {NoURL}
    /\ s.url \in ProxyURLs \ UserURLs => s.cachy = s.url

\* The file, and what a command in progress will write to it.
RecordedInv == Recorded(file) /\ (cmd.pc # "idle" => Recorded(cmd.next))

\* The file is written whole from a plan made before, so both must be kept sound.
LEMMA RecordedInductive ==
    ASSUME TypeOK, RecordedInv, [Next]_vars
    PROVE  TypeOK' /\ RecordedInv'
<1> USE ClaudeAssumption DEF TypeOK, RecordedInv, Recorded, URL, Settings, Action
<1>1. ASSUME NEW action \in Action, NEW url \in ProxyURLs, NEW dryRun \in BOOLEAN,
             Command(action, url, dryRun)
      PROVE  TypeOK' /\ RecordedInv'
    <2> DEFINE next == Plan(file, action, url)
    <2>1. next \in Settings /\ Recorded(next)
        BY DEF Plan, PlanInstall, PlanUninstall
    <2> HIDE DEF next
    <2>2. cmd' = cmd \/ cmd' = [pc |-> "planned", action |-> action, next |-> next]
        BY <1>1 DEF Command, next
    <2>3. UNCHANGED <<file, garbled, user, disturbed, edits>> /\ cmd.pc = "idle"
        BY <1>1 DEF Command
    <2> QED BY <2>1, <2>2, <2>3
<1>2. CASE Truncate
    BY <1>2 DEF Truncate, Empty
<1>3. CASE Write
    <2>1. file' = cmd.next /\ cmd'.pc = "idle" /\ Recorded(cmd.next)
        BY <1>3 DEF Write
    <2>2. cmd'.action = cmd.action /\ cmd'.next = cmd.next
          /\ cmd' \in [pc : {"idle", "planned", "truncated"}, action : Action, next : Settings]
        BY <1>3 DEF Write
    <2>3. garbled' \in BOOLEAN /\ UNCHANGED <<user, disturbed, edits>>
        BY <1>3 DEF Write
    <2> QED BY <2>1, <2>2, <2>3
<1>4. ASSUME NEW partial \in BOOLEAN, Crash(partial)
      PROVE  TypeOK' /\ RecordedInv'
    BY <1>4 DEF Crash, Idle, Empty
<1>5. ASSUME NEW url \in UserURLs \cup {NoURL}, NEW envRest \in BOOLEAN, NEW rest \in BOOLEAN,
             UserEdits(url, envRest, rest)
      PROVE  TypeOK' /\ RecordedInv'
    <2>1. file' \in Settings /\ user' \in Settings
        BY <1>5 DEF UserEdits, Empty
    <2>2. edits' \in 0 .. MaxEdits
        BY <1>5 DEF UserEdits
    <2>3. garbled' \in BOOLEAN /\ disturbed' \in BOOLEAN /\ cmd' = cmd
        BY <1>5 DEF UserEdits
    <2>4. Recorded(file')
        BY <1>5 DEF UserEdits
    <2> QED BY <2>1, <2>2, <2>3, <2>4
<1>6. CASE UNCHANGED vars \/ CommandRefused
    BY <1>6 DEF vars, CommandRefused
<1> QED BY <1>1, <1>2, <1>3, <1>4, <1>5, <1>6 DEF Next

LEMMA RecordedInvariance == Spec => [](TypeOK /\ RecordedInv)
<1>1. ASSUME Init PROVE TypeOK /\ RecordedInv
    <2>1. file \in Settings /\ user \in Settings /\ Empty \in Settings
        BY <1>1 DEF Init, Empty, Settings, URL
    <2>2. cmd = Idle /\ garbled = FALSE /\ disturbed = FALSE /\ edits \in 0 .. MaxEdits
        BY <1>1, ClaudeAssumption DEF Init
    <2>3. Recorded(file)
        BY <1>1, ClaudeAssumption DEF Init, Recorded, Settings
    <2> QED BY <2>1, <2>2, <2>3 DEF TypeOK, RecordedInv, Idle, Action
<1>2. TypeOK /\ RecordedInv /\ [Next]_vars => (TypeOK /\ RecordedInv)'
    BY RecordedInductive
<1> QED BY <1>1, <1>2, PTL DEF Spec

\* A URL of Cachy's is never in the settings without the metadata that names it,
\* for any URLs, edits, kills and torn writes (claude.go).
THEOREM ClaudeURLRecorded == Spec => []ManagedURLRecorded
<1>1. RecordedInv => ManagedURLRecorded
    BY DEF RecordedInv, Recorded, ManagedURLRecorded
<1> QED BY <1>1, RecordedInvariance, PTL

-----------------------------------------------------------------------------
(* What is the user's.                                                       *)

\* Settings that hold the user's own, and beside them a URL of Cachy's at most.
Agrees(s) ==
    /\ s.envRest = user.envRest /\ s.rest = user.rest
    /\ user.url # NoURL => s.url = user.url
    /\ user.url = NoURL => s.url \in {NoURL, s.cachy}

Reversed(s) == s.cachy = NoURL /\ s.url = user.url

UserInv ==
    /\ user.url \in UserURLs \cup {NoURL} /\ user.cachy = NoURL
    /\ ~disturbed =>
        /\ cmd.pc # "truncated" => Agrees(file)
        /\ cmd.pc = "truncated" => file.url = NoURL
        /\ cmd.pc # "idle" => /\ Agrees(cmd.next)
                              /\ cmd.action = "uninstall" => Reversed(cmd.next)

\* The URLs of the two sides must differ: the code tells its own URL from the user's
\* by its value alone.
LEMMA UserInductive ==
    ASSUME UserURLs \cap ProxyURLs = {}, TypeOK, RecordedInv, UserInv, [Next]_vars
    PROVE  UserInv'
<1> USE ClaudeAssumption DEF UserInv, Agrees, Reversed, TypeOK, URL, Settings, Action
<1>1. ASSUME NEW action \in Action, NEW url \in ProxyURLs, NEW dryRun \in BOOLEAN,
             Command(action, url, dryRun)
      PROVE  UserInv'
    <2> DEFINE next == Plan(file, action, url)
    <2>1. cmd.pc = "idle" /\ UNCHANGED <<file, garbled, user, disturbed, edits>>
        BY <1>1 DEF Command
    <2>2. next \in Settings
        BY DEF Plan, PlanInstall, PlanUninstall
    <2>3. ~disturbed => Agrees(next)
        BY <2>1 DEF Plan, PlanInstall, PlanUninstall, RecordedInv, Recorded
    <2>4. ~disturbed /\ action = "uninstall" => Reversed(next)
        BY <2>1 DEF Plan, PlanUninstall, RecordedInv, Recorded
    <2>5. cmd' = cmd \/ cmd' = [pc |-> "planned", action |-> action, next |-> next]
        BY <1>1 DEF Command
    <2> HIDE DEF next
    <2> QED BY <2>1, <2>2, <2>3, <2>4, <2>5
<1>2. CASE Truncate
    BY <1>2 DEF Truncate, Empty
<1>3. CASE Write
    BY <1>3 DEF Write
<1>4. ASSUME NEW partial \in BOOLEAN, Crash(partial)
      PROVE  UserInv'
    BY <1>4 DEF Crash, Idle
<1>5. ASSUME NEW url \in UserURLs \cup {NoURL}, NEW envRest \in BOOLEAN, NEW rest \in BOOLEAN,
             UserEdits(url, envRest, rest)
      PROVE  UserInv'
    BY <1>5 DEF UserEdits, Empty
<1>6. CASE UNCHANGED vars \/ CommandRefused
    BY <1>6 DEF vars, CommandRefused
<1> QED BY <1>1, <1>2, <1>3, <1>4, <1>5, <1>6 DEF Next

LEMMA UserInvariance ==
    ASSUME UserURLs \cap ProxyURLs = {}
    PROVE  Spec => []UserInv
<1>1. Init => UserInv
    BY ClaudeAssumption DEF Init, Idle, Empty, UserInv, Agrees, Reversed
<1>2. TypeOK /\ RecordedInv /\ UserInv /\ [Next]_vars => UserInv'
    BY UserInductive
<1> QED BY <1>1, <1>2, RecordedInvariance, PTL DEF Spec

\* If the user's URLs are none of the proxy's, no sequence of install, repair and
\* uninstall touches what the user set (claude.go, planClaudeSettings).
THEOREM ClaudeUserSettingsSurvive ==
    ASSUME UserURLs \cap ProxyURLs = {}
    PROVE  Spec => []UserSettingsSurvive
<1>1. UserInv => UserSettingsSurvive
    BY DEF UserInv, UserSettingsSurvive, Agrees
<1> QED BY <1>1, UserInvariance, PTL

\* And an uninstall gives back exactly the user's settings.
THEOREM ClaudeUninstallReverses ==
    ASSUME UserURLs \cap ProxyURLs = {}
    PROVE  Spec => UninstallReverses
<1>1. TypeOK /\ UserInv /\ [Next]_vars
        => [Write /\ cmd.action = "uninstall" /\ ~disturbed =>
                file' = [user EXCEPT !.cachy = NoURL]]_vars
    <2> SUFFICES ASSUME TypeOK, UserInv, Write, cmd.action = "uninstall", ~disturbed
                 PROVE  file' = [user EXCEPT !.cachy = NoURL]
        OBVIOUS
    <2>1. file' = cmd.next /\ Agrees(cmd.next) /\ Reversed(cmd.next)
        BY DEF Write, UserInv
    <2>2. cmd.next \in Settings /\ user \in Settings
        BY DEF TypeOK
    <2> QED BY <2>1, <2>2 DEF Agrees, Reversed, Settings
<1> QED BY <1>1, UserInvariance, RecordedInvariance, PTL DEF Spec, UninstallReverses

\* `cachy doctor` is right about Claude Code at any moment, and the repair it recommends
\* satisfies it unless the user has a URL of their own (doctor.go).
THEOREM ClaudeDoctorTruthful ==
    ASSUME UserURLs \cap ProxyURLs = {}
    PROVE  Spec => []DoctorTruthful
<1>1. TypeOK /\ RecordedInv /\ UserInv => DoctorTruthful
    <2> SUFFICES ASSUME TypeOK, RecordedInv, UserInv PROVE DoctorTruthful
        OBVIOUS
    <2> USE ClaudeAssumption
    <2>0. file \in Settings /\ Recorded(file)
        BY DEF TypeOK, RecordedInv
    <2>1. ASSUME CheckClaudeIntegration(file, ~garbled) = "OK"
          PROVE  file.url \in ProxyURLs /\ (~disturbed => user.url = NoURL)
        <3>1. file.url = file.cachy /\ file.url # NoURL
            BY <2>1 DEF CheckClaudeIntegration
        <3>2. file.url \in ProxyURLs
            BY <2>0, <3>1 DEF Recorded
        <3> QED BY <3>1, <3>2 DEF UserInv, Agrees, TypeOK, Empty
    <2>2. ASSUME NEW url \in ProxyURLs
          PROVE  CheckClaudeIntegration(Plan(file, "repair", url), TRUE) = "OK"
                    <=> file.url \notin UserURLs
        <3>1. Plan(file, "repair", url) = PlanInstall(file, url)
            BY DEF Plan
        <3>2. CASE file.url # NoURL /\ file.url # file.cachy
            <4>1. file.url \in UserURLs
                BY <2>0, <3>2 DEF Recorded, Settings, URL
            <4>2. PlanInstall(file, url).url # PlanInstall(file, url).cachy
                BY <2>0, <3>2, <4>1 DEF PlanInstall, Settings
            <4> QED BY <3>1, <4>1, <4>2 DEF CheckClaudeIntegration
        <3>3. CASE ~(file.url # NoURL /\ file.url # file.cachy)
            <4>1. file.url \notin UserURLs
                BY <2>0, <3>3 DEF Recorded
            <4>2. PlanInstall(file, url).url = url /\ PlanInstall(file, url).cachy = url
                BY <2>0, <3>3 DEF PlanInstall, Settings
            <4> QED BY <3>1, <4>1, <4>2 DEF CheckClaudeIntegration
        <3> QED BY <3>2, <3>3
    <2>3. ASSUME NEW url \in ProxyURLs
          PROVE  CheckClaudeIntegration(Plan(file, "uninstall", url), TRUE) = "WARN"
        BY <2>0 DEF Plan, PlanUninstall, CheckClaudeIntegration, Settings
    <2> QED BY <2>1, <2>2, <2>3 DEF DoctorTruthful
<1> QED BY <1>1, UserInvariance, RecordedInvariance, PTL
=============================================================================
