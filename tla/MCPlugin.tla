------------------------------ MODULE MCPlugin ------------------------------
(* Model-checking instance of Plugin.                                        *)
EXTENDS Plugin

Package(name, api, compress, maxInput, maxOutput) ==
    [name |-> name, version |-> "semver", api |-> api, compress |-> compress, deferred |-> FALSE,
     timeout |-> 1, memory |-> 1, maxInput |-> maxInput, maxOutput |-> maxOutput]

\* A plugin for logs, a larger one for logs and text, and one from the future.
MCManifests ==
    {Package(1, "v1", {"log"}, 1, 1), Package(2, "v1", {"log", "text"}, 2, 2),
     Package(2, "v2", {"log"}, 2, 2)}

Write(bytes, form, action, text) ==
    [bytes |-> bytes, form |-> form, action |-> action, text |-> text]

MCPayloads ==
    {Write(1, "trailing", "replace", "A"), Write(2, "result", "keep", "B"),
     Write(1, "undecodable", "keep", "")}

MCBlocks == {[type |-> "log", size |-> 1], [type |-> "text", size |-> 2]}
=============================================================================
