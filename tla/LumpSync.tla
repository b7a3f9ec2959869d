-------------------------------- MODULE LumpSync --------------------------------
(***************************************************************************)
(* The announcement of a LUMP device and what the engine makes of it       *)
(* (lump_sync and lump_parse_msg of stm32_legoport_lump.c).  The device    *)
(* announces its type, its number of modes, its speed and version, then    *)
(* the name and the format of every mode from the last one down, and ends  *)
(* with an ACK; it starts over when nobody answers.  The line may garble   *)
(* any frame, which the engine skips.  The device is external.             *)
(***************************************************************************)
EXTENDS Naturals

CONSTANTS
  MaxModes,   \* LUMP_MAX_MODES
  Devices,    \* the numbers of modes a device may have
  MaxBad,     \* type frames the engine takes for bad before it gives up
  MaxRounds   \* bound: announcements

SyncAssumption ==
  /\ MaxModes \in Nat \ {0} /\ Devices \subseteq Nat \ {0}
  /\ MaxBad \in Nat /\ MaxRounds \in Nat

VARIABLES
  modes,      \* the modes the device has
  left,       \* what is left of the announcement: the next frame
  rounds,     \* bounded by MaxRounds
  state,      \* search, info, synced, failed
  flags,      \* info_flags
  newMode,    \* new_mode
  numModes,   \* info.num_modes
  named, formatted,  \* the modes with a name, and with a format, in info
  bad         \* err_count

heard == <<flags, newMode, numModes, named, formatted>>
line == <<modes, left, rounds>>
vars == <<line, state, heard, bad>>

Frame(kind, m) == [kind |-> kind, mode |-> m]
Required == {"TYPE", "MODES", "NAME", "FORMAT"}

Init ==
  /\ modes \in Devices /\ left = Frame("TYPE", 0) /\ rounds = 0
  /\ state = "search" /\ flags = {} /\ newMode = 0 /\ numModes = 0
  /\ named = {} /\ formatted = {} /\ bad = 0

\* The device goes on to its next frame.
Goes ==
  /\ left' = CASE left.kind = "TYPE"    -> Frame("MODES", 0)
               [] left.kind = "MODES"   -> Frame("SPEED", 0)
               [] left.kind = "SPEED"   -> Frame("VERSION", 0)
               [] left.kind = "VERSION" -> Frame("NAME", modes - 1)
               [] left.kind = "NAME"    -> Frame("FORMAT", left.mode)
               [] left.kind = "FORMAT"  -> IF left.mode = 0 THEN Frame("ACK", 0)
                                           ELSE Frame("NAME", left.mode - 1)
               [] OTHER                 -> Frame("TYPE", 0)
  /\ rounds < MaxRounds
  /\ rounds' = IF left.kind = "ACK" THEN rounds + 1 ELSE rounds
  /\ UNCHANGED modes

Fails == state' = "failed"

\* The header search: nothing but a good type frame ends it.
SearchSkips ==
  /\ state = "search" /\ Goes
  /\ UNCHANGED <<state, heard, bad>>

SearchBad ==
  /\ state = "search" /\ left.kind = "TYPE" /\ Goes
  /\ bad' = bad + 1
  /\ IF bad' > MaxBad THEN Fails ELSE UNCHANGED state
  /\ UNCHANGED heard

SearchEnds ==
  /\ state = "search" /\ left.kind = "TYPE" /\ Goes
  /\ state' = "info" /\ flags' = flags \cup {"TYPE"}
  /\ UNCHANGED <<newMode, numModes, named, formatted, bad>>

\* The INFO loop: a garbled frame is skipped ...
InfoSkips ==
  /\ state = "info" /\ Goes
  /\ UNCHANGED <<state, heard, bad>>

\* ... and the silence of a device that was pulled out ends the session.
InfoTimeout ==
  /\ state = "info" /\ Fails
  /\ UNCHANGED <<line, heard, bad>>

Info(kind) == state = "info" /\ left.kind = kind /\ Goes /\ UNCHANGED bad

\* A second type frame only repeats the first.
InfoType ==
  /\ Info("TYPE")
  /\ UNCHANGED <<state, heard>>

\* What must not come twice: an error that ends the session.
InfoTwice(kind) ==
  /\ Info(kind) /\ kind \in flags
  /\ Fails /\ UNCHANGED heard

\* The number of modes is cut to what the engine can hold.
InfoModes ==
  /\ Info("MODES") /\ "MODES" \notin flags
  /\ numModes' = IF modes > MaxModes THEN MaxModes ELSE modes
  /\ newMode' = numModes' - 1
  /\ flags' = flags \cup {"MODES"}
  /\ UNCHANGED <<state, named, formatted>>

InfoOnce(kind) ==
  /\ Info(kind) /\ kind \notin flags
  /\ flags' = flags \cup {kind}
  /\ UNCHANGED <<state, newMode, numModes, named, formatted>>

\* Frames of modes the engine cannot hold are dropped before they are looked at.
InfoDropped ==
  /\ Info(left.kind) /\ left.kind \in {"NAME", "FORMAT"} /\ left.mode >= MaxModes
  /\ UNCHANGED <<state, heard>>

InfoName ==
  /\ Info("NAME") /\ left.mode < MaxModes
  /\ flags' = flags \cup {"NAME"} /\ newMode' = left.mode
  /\ named' = named \cup {left.mode}
  /\ UNCHANGED <<state, numModes, formatted>>

\* A format closes the mode its name opened, and makes way for the one below.
FormatFits == newMode = left.mode /\ flags \cap Required = Required \ {"FORMAT"}

InfoFormatMutant ==
  /\ Info("FORMAT") /\ left.mode < MaxModes /\ FormatFits
  /\ formatted' = formatted \cup {left.mode}
  /\ flags' = flags \cup {"FORMAT"} /\ UNCHANGED newMode
  /\ UNCHANGED <<state, numModes, named>>

InfoFormat ==
  /\ Info("FORMAT") /\ left.mode < MaxModes /\ FormatFits
  /\ formatted' = formatted \cup {left.mode}
  /\ IF newMode > 0
     THEN newMode' = newMode - 1 /\ flags' = flags \ {"NAME", "FORMAT"}
     ELSE flags' = flags \cup {"FORMAT"} /\ UNCHANGED newMode
  /\ UNCHANGED <<state, numModes, named>>

InfoFormatUnfit ==
  /\ Info("FORMAT") /\ left.mode < MaxModes /\ ~FormatFits
  /\ Fails /\ UNCHANGED heard

\* The ACK ends it, once everything required was heard.
InfoAck ==
  /\ Info("ACK")
  /\ state' = IF Required \subseteq flags THEN "synced" ELSE "failed"
  /\ UNCHANGED heard

Next ==
  \/ SearchSkips \/ SearchBad \/ SearchEnds
  \/ InfoSkips \/ InfoTimeout \/ InfoType \/ InfoModes
  \/ \E k \in {"SPEED", "VERSION"} : InfoOnce(k)
  \/ \E k \in {"MODES", "SPEED", "VERSION"} : InfoTwice(k)
  \/ InfoDropped \/ InfoName \/ InfoFormat \/ InfoFormatUnfit \/ InfoAck

Spec == Init /\ [][Next]_vars

-----------------------------------------------------------------------------
(* Properties *)

Modes == 0 .. MaxModes - 1

\* Every variable keeps its type.
TypeOK ==
  /\ modes \in Devices /\ rounds \in Nat
  /\ left \in [kind : Required \cup {"SPEED", "VERSION", "ACK"}, mode : Nat]
  /\ state \in {"search", "info", "synced", "failed"}
  /\ flags \subseteq Required \cup {"SPEED", "VERSION"}
  /\ newMode \in Modes /\ numModes \in 0 .. MaxModes
  /\ named \subseteq Modes /\ formatted \subseteq Modes
  /\ bad \in Nat

\* Whatever the line loses, a device that is SYNCED has told its modes, and the mode
\* selected for it by default, mode 0, has its name and its format.
DefaultModeDescribed ==
  state = "synced" => numModes > 0 /\ 0 \in named /\ 0 \in formatted

=============================================================================
