------------------------------ MODULE MCPanels ------------------------------
(* Model-checking instance of Panels.                                        *)
EXTENDS Panels

CONSTANTS a, aSlash, b, odd, empty

\* "odd" is a URL for new URL() but has no host for url.Parse, like "http:host".
MCTexts == {a, aSlash, b, odd, empty}
MCTrimRight == [t \in MCTexts |-> IF t = aSlash THEN a ELSE t]
MCValidURL == {a, aSlash, b}
MCHTTPURL == {a, aSlash, b, odd}

MCTyping == {aSlash, odd}

MCOutcomes ==
    {[req |-> "r", status |-> 500, latency |-> 4, startedAt |-> 1, kind |-> "upstream_status"]}

\* What the diagnostics panel asks, and a client that is refused or changes the target.
MCOtherRequests == {Get("diagnostics"), Put(b), Get("metrics"),
                    [Put(b) EXCEPT !.token = FALSE]}
=============================================================================
