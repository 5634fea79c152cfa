------------------------------ MODULE Actuators ------------------------------
(***************************************************************************)
(* emb::actuator::discrete: a two-position actuator, driven through an     *)
(* output pin and sensed through an input pin, as the composition of the   *)
(* generic actuator::unmonitored, feedback and monitored with encoders and *)
(* decoders, drivers and sensors, and the pins of emb::gpio.               *)
(*                                                                         *)
(* The pins' polarities are the board's; the actuator is wired for the     *)
(* pins and for the kind that it is. It follows its command late.          *)
(***************************************************************************)
VARIABLES
  kind,        \* of the actuator: "normally_closed" or "normally_open"
  contact,     \* of the feedback: a "break" or a "make" auxiliary contact
  polarity,    \* of the pins: [control |-> , feedback |-> ]
  desired_,
  pin,         \* the level of the control pin
  actual       \* the position that the actuator is really in

actuatorVars == <<kind, contact, polarity, desired_, pin, actual>>

Positions == {"closed", "open"}
Other(p) == IF p = "closed" THEN "open" ELSE "closed"

-----------------------------------------------------------------------------
(* gpio.                                                                   *)

to_state(level, p) ==
  IF (level = "high") = (p = "active_high") THEN "active" ELSE "inactive"

to_level(state, p) ==
  IF (state = "active") = (p = "active_high") THEN "high" ELSE "low"

-----------------------------------------------------------------------------
(* normally_closed and normally_open, as encoders and as decoders.         *)

\* At rest the actuator is in this position.
Rest(k) == IF k = "normally_closed" THEN "closed" ELSE "open"

encode(k, position) == IF position # Rest(k) THEN "active" ELSE "inactive"

\* Faulty decode: an active contact means open, whatever the actuator is.
decode_closed(k, signal) == IF signal = "active" THEN "open" ELSE "closed"

decode(k, signal) == IF signal = "active" THEN Other(Rest(k)) ELSE Rest(k)

\* The decoder that goes with a contact that is active when open, or closed.
Decoder == IF contact = "break" THEN "normally_closed" ELSE "normally_open"

-----------------------------------------------------------------------------
(* The hardware.                                                           *)

\* Where the actuator goes, energized or not.
Driven(level) ==
  IF to_state(level, polarity.control) = "active" THEN Other(Rest(kind)) ELSE Rest(kind)

\* The level of the feedback pin.
Sensed ==
  to_level(IF (actual = "open") = (contact = "break") THEN "active" ELSE "inactive",
           polarity.feedback)

Moves ==
  /\ actual # Driven(pin)
  /\ actual' = Driven(pin)
  /\ UNCHANGED <<kind, contact, polarity, desired_, pin>>

\* By itself, or by hand.
Disturbed ==
  /\ actual' = Other(actual)
  /\ UNCHANGED <<kind, contact, polarity, desired_, pin>>

-----------------------------------------------------------------------------
\* The constructor of unmonitored drives the initial position.
Init ==
  /\ kind \in {"normally_closed", "normally_open"}
  /\ contact \in {"break", "make"}
  /\ polarity \in [{"control", "feedback"} -> {"active_low", "active_high"}]
  /\ desired_ \in Positions
  /\ pin = to_level(encode(kind, desired_), polarity.control)
  /\ actual \in Positions

\* The encoder, gpio_driver, and set of the pin.
command(s) ==
  /\ desired_' = s
  /\ pin' = to_level(encode(kind, s), polarity.control)
  /\ UNCHANGED <<kind, contact, polarity, actual>>

\* feedback::read: gpio_sensor and the decoder.
ReadActual == decode(Decoder, to_state(Sensed, polarity.feedback))

in_sync == ReadActual = desired_

Next == (\E s \in Positions : command(s)) \/ Moves \/ Disturbed

Spec == Init /\ [][Next]_actuatorVars

-----------------------------------------------------------------------------
\* The actuator is driven to the desired position, from construction on, and in_sync
\* says whether it is there, whatever the kind, the contact and the polarities
\* (command, in_sync, the encoders and decoders, to_level, to_state).
InSyncMeansThere ==
  /\ Driven(pin) = desired_
  /\ in_sync <=> actual = desired_
=============================================================================
