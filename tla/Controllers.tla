----------------------------- MODULE Controllers -----------------------------
(***************************************************************************)
(* emb/controller.hpp and the integrator of emb/math.hpp: proportional and *)
(* proportional-integral controllers with a limited output, whose gains    *)
(* and limits may change between pushes.  Numbers are integers; the        *)
(* integral gain comes multiplied by the time step.                        *)
(***************************************************************************)
EXTENDS Integers

CONSTANTS
  Errors,       \* differences of a reference and a measurement
  Gains,        \* what kp may be
  kiTs,         \* ki * ts, an even number
  AntiWindupGains,  \* 1, or 0: what kc of a backcalc_pi_controller may be
  Limits,       \* [lower, upper] that the output may be given
  FloatMax      \* numeric_limits<value_type>::max()

VARIABLES
  controller,   \* "p", "backcalc", "clamping" or "integrator"
  inverting,    \* the policy
  kp_,
  kc_,          \* the anti-windup gain of a backcalc controller
  limits,       \* lower_limit_ and upper_limit_, or output_range
  out_i_,       \* the integral, of the integrator its sum_
  error_,       \* of the last push, of a clamping controller
  out_,
  fresh         \* ghost: the limits are those of the last push; of an
                \* integrator also those of its last reset

controllerVars == <<controller, inverting, kp_, kc_, limits, out_i_, error_, out_, fresh>>

clamp(x, lo, hi) == IF x < lo THEN lo ELSE IF hi < x THEN hi ELSE x
ToLimits(x) == clamp(x, limits.lower, limits.upper)
ToFloats(x) == clamp(x, -FloatMax, FloatMax)

error(difference) == IF inverting THEN -difference ELSE difference

Init ==
  /\ controller \in {"p", "backcalc", "clamping", "integrator"}
  /\ inverting \in BOOLEAN
  /\ kp_ \in Gains
  /\ kc_ \in IF controller = "backcalc" THEN AntiWindupGains ELSE {1}
  /\ limits \in Limits
  /\ out_i_ = IF controller = "integrator" THEN ToLimits(0) ELSE 0
  /\ error_ = 0
  /\ out_ = out_i_
  /\ fresh = (controller = "integrator")

PushP(e) ==
  /\ controller = "p"
  /\ out_' = ToLimits(kp_ * e)
  /\ UNCHANGED <<out_i_, error_>>

PushBackcalc(e) ==
  /\ controller = "backcalc"
  /\ LET out == ToFloats(e * kp_ + out_i_) IN
     /\ out_' = ToLimits(out)
     /\ out_i_' = ToFloats(out_i_ + kiTs * e - kc_ * (out - out_'))
  /\ UNCHANGED error_

\* The limit that the output is at, and whether the proportional part alone is
\* within it.
Beyond(out) == IF out > limits.upper THEN limits.upper ELSE limits.lower
Within(out_p, out) == IF out > limits.upper THEN out_p < limits.upper
                                            ELSE out_p > limits.lower

\* Faulty PushClamping: the integral goes on while the output is limited.
PushUnclamped(e) ==
  /\ controller = "clamping"
  /\ LET out_p == e * kp_
         out_i == ((e + error_) * kiTs) \div 2 + out_i_
         out == out_p + out_i
     IN
     /\ out_' = ToLimits(out)
     /\ out_i_' = out_i
  /\ error_' = e

PushClamping(e) ==
  /\ controller = "clamping"
  /\ LET out_p == e * kp_
         out_i == ((e + error_) * kiTs) \div 2 + out_i_
         out == out_p + out_i
     IN
     /\ out_' = ToLimits(out)
     /\ out_i_' = IF out = out_' THEN out_i
                  ELSE IF Within(out_p, out) THEN Beyond(out) - out_p
                  ELSE out_i_
  /\ error_' = e

\* The integrator's push, of a value times its time step, and its add.
PushIntegrator(v) ==
  /\ controller = "integrator"
  /\ out_i_' = ToLimits(out_i_ + v)
  /\ out_' = out_i_'
  /\ UNCHANGED error_

push ==
  /\ \E difference \in Errors :
       LET e == error(difference) IN
       PushP(e) \/ PushBackcalc(e) \/ PushClamping(e) \/ PushIntegrator(difference)
  /\ fresh' = TRUE
  /\ UNCHANGED <<controller, inverting, kp_, kc_, limits>>

\* An integrator starts again from its initial value, within its range.
reset ==
  /\ out_i_' = IF controller = "integrator" THEN ToLimits(0) ELSE 0
  /\ error_' = 0
  /\ out_' = out_i_'
  /\ fresh' = (controller = "integrator")
  /\ UNCHANGED <<controller, inverting, kp_, kc_, limits>>

\* set_lower_limit and set_upper_limit, or the range of the integrator.
set_limits ==
  /\ \E l \in Limits \ {limits} : limits' = l
  /\ fresh' = FALSE
  /\ UNCHANGED <<controller, inverting, kp_, kc_, out_i_, error_, out_>>

set_kp ==
  /\ \E k \in Gains \ {kp_} : kp_' = k
  /\ UNCHANGED <<controller, inverting, kc_, limits, out_i_, error_, out_, fresh>>

Next == push \/ reset \/ set_limits \/ set_kp

Spec == Init /\ [][Next]_controllerVars

-----------------------------------------------------------------------------
GreatestP == CHOOSE p \in {k * e : k \in Gains, e \in Errors} :
               \A k \in Gains, e \in Errors : k * e <= p
LowestLimit == CHOOSE l \in {r.lower : r \in Limits} : \A r \in Limits : l <= r.lower
HighestLimit == CHOOSE l \in {r.upper : r \in Limits} : \A r \in Limits : r.upper <= l

\* One push adds no more than this to the integral of a backcalc controller.
OnePush == IF controller = "backcalc" THEN kiTs * GreatestP ELSE 0

\* The output is within its limits after a push, and however long it was at one of
\* them, the integral has not grown beyond what the proportional part can take back:
\* it does not wind up, also when the gain and the limits change. A backcalc
\* controller without an anti-windup gain winds up, to FloatMax (push).
NoWindup ==
  /\ fresh => out_ \in limits.lower .. limits.upper
  /\ out_i_ \in -FloatMax .. FloatMax
  /\ kc_ # 0 =>
       out_i_ \in LowestLimit - GreatestP - OnePush .. HighestLimit + GreatestP + OnePush
=============================================================================
