----------------------------- MODULE CCRMarkers -----------------------------
(***************************************************************************)
(* CCR markers (internal/ccr, marker.go): the line that stands for a stored *)
(* original, and how it leads back to it, from whatever text comes back     *)
(* from a provider.  A text is the record of its fields.                    *)
(***************************************************************************)
EXTENDS CCRStore, Integers

CONSTANTS
    Numbers,    \* the sizes a text may name
    FoldsCase   \* the file system does not tell upper from lower case

ASSUME MarkerAssumption ==
    /\ Numbers \subseteq Int
    /\ \A c \in Content : Size[c] \in Numbers
    /\ FoldsCase \in BOOLEAN

\* The hash of an original as a text may spell it; "cut" is not 64 hex digits.
Hex == [of : Content, form : {"lower", "upper", "cut"}]

Address == [algorithm : {"sha256", "md5"}, hex : Hex, bytes : Numbers]

\* "framed": the brackets, the three fields and the label of the size are there.
\* "numeral": how the size is written, such as 12, 012 and 1k.
Text == [framed : BOOLEAN, version : {"v1", "v2"}, address : Address,
         numeral : {"plain", "padded", "none"}]

ErrInvalid == [error |-> "ErrInvalidAddress"]

\* hex.DecodeString takes both cases.
ValidAddress(address) ==
    /\ address # ErrInvalid
    /\ address.algorithm = "sha256"
    /\ address.bytes >= 0
    /\ address.hex.form # "cut"

AddressForContent(c) ==
    [algorithm |-> "sha256", hex |-> [of |-> c, form |-> "lower"], bytes |-> Size[c]]

\* The longest marker of a valid address is within MaxMarkerLength.
RenderMarker(address) ==
    IF ValidAddress(address)
    THEN [framed |-> TRUE, version |-> "v1", address |-> address, numeral |-> "plain"]
    ELSE ErrInvalid

ParseMarker(text) ==
    IF /\ text.framed
       /\ text.version = "v1"
       /\ text.numeral # "none"
       /\ ValidAddress(text.address)
    THEN text.address
    ELSE ErrInvalid

\* Mutant: what was read is not compared with the whole address.
GetAddressByHash(address) ==
    LET c == address.hex.of
    IN CASE ~ValidAddress(address) -> "ErrInvalidAddress"
         [] ValidAddress(address) /\ ~Exists(c) -> "ErrNotFound"
         [] OTHER -> IF Intact(file[c], c) THEN "content" ELSE "ErrCorrupt"

\* Get of any address: the path follows the spelling of the hash, and what is read
\* there must have exactly this address.
GetAddress(address) ==
    LET c == address.hex.of
        found == (address.hex.form = "lower" \/ FoldsCase) /\ Exists(c)
    IN CASE ~ValidAddress(address) -> "ErrInvalidAddress"
         [] ValidAddress(address) /\ ~found -> "ErrNotFound"
         [] OTHER -> IF Intact(file[c], c) /\ address = AddressForContent(c)
                     THEN "content" ELSE "ErrCorrupt"

Retrieve(text) ==
    IF ParseMarker(text) = ErrInvalid THEN "ErrInvalidAddress" ELSE GetAddress(ParseMarker(text))

-----------------------------------------------------------------------------

\* The marker of an original leads back to it as long as no Cleanup and no damage took
\* it away, while others store and remove; no text, however it came to be changed, ever
\* leads to anything but the original whose marker it spells; and what the marker of an
\* original says is missing or corrupt is (marker.go, RenderMarker and ParseMarker;
\* store.go, Put and Get).
MarkersHonest ==
    /\ \A c \in acked \ damaged : Retrieve(RenderMarker(AddressForContent(c))) = "content"
    /\ \A text \in Text :
         LET c == text.address.hex.of
             marker == RenderMarker(AddressForContent(c))
         IN /\ Retrieve(text) = "content" =>
                 RenderMarker(ParseMarker(text)) = marker /\ Get(c) = "content"
            /\ text = marker /\ Retrieve(text) = "ErrCorrupt" => c \in damaged
=============================================================================
