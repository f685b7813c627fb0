------------------------------- MODULE MCParts -------------------------------
(***************************************************************************)
(* Five parts that share nothing with each other, in one run: Init chooses *)
(* a part, and a behaviour is one of that part's, in which the variables   *)
(* of the other parts keep their initial values.                           *)
(***************************************************************************)
EXTENDS MCSettings, EventTable, CanFrames, UnsentFile, Crc

VARIABLE part

Part == {"settings", "table", "frames", "unsent", "crc"}

\* Bytes that reach every entry of the tables, from several states.
MCMessage ==
  TypedIn \cup {<<b>> : b \in 0..255} \cup ({0, 1, 127, 128, 255} \X (0..255))

\* Of a part with more than one initial state, those of the others have one.
PartsInit ==
  /\ part \in Part
  /\ SettingsInit /\ (part # "settings" => page = "com")
  /\ TableInit /\ FramesInit /\ UnsentInit
  /\ message \in IF part = "crc" THEN Message ELSE {event_right_response_data}
  /\ CrcInit

PartsNext ==
  \/ /\ part = "settings" /\ SettingsNext
     /\ UNCHANGED <<part, tableVars, framesVars, unsentVars, crcVars>>
  \/ /\ part = "table" /\ TableNext
     /\ UNCHANGED <<part, settingsVars, framesVars, unsentVars, crcVars>>
  \/ /\ part = "frames" /\ FramesNext
     /\ UNCHANGED <<part, settingsVars, tableVars, unsentVars, crcVars>>
  \/ /\ part = "unsent" /\ UnsentNext
     /\ UNCHANGED <<part, settingsVars, tableVars, framesVars, crcVars>>
  \/ /\ part = "crc" /\ CrcNext
     /\ UNCHANGED <<part, settingsVars, tableVars, framesVars, unsentVars>>

partsVars ==
  <<part, settingsVars, tableVars, framesVars, unsentVars, crcVars>>

PartsSpec == PartsInit /\ [][PartsNext]_partsVars
===============================================================================
