------------------------------ MODULE MCWindow -------------------------------
(* Two keys for Select, and Up, which shares its wire from the other half. *)
EXTENDS Window

MCKeys == {"up", "backspace", "rshift"}
MCButtons == {"Up", "Select"}
MCBound == "up" :> "Up" @@ "backspace" :> "Select" @@ "rshift" :> "Select"
MCHalf == "Up" :> "direction" @@ "Select" :> "action"
MCWire == "Up" :> 2 @@ "Select" :> 2
=============================================================================
