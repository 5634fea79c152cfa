--------------------------------- MODULE Data ---------------------------------
(***************************************************************************)
(* The parts of the library that hold and compute data: the containers,    *)
(* the filters, the sensors, the registry of parameters, the mirror of a   *)
(* trouble registry, the triggered action, the triple buffer and the       *)
(* functions of math.hpp.  They share nothing.                             *)
(***************************************************************************)
EXTENDS Containers, Integers

CONSTANTS
  Inputs, Window, MaxPushes,
  N, Codes, Depth, Average, Median,
  Layouts, ValuesOf, default_value, HashSize, CrcSize, Blank, Zero,
  delay_, MaxTime, MaxPolls,
  Statuses, LevelCount,
  Words, MaxValue,
  MantissaBits, Exponents, WideBits, Turn

VARIABLES
  class, filter, factor, start, samples,
  queue, cores, pc, raw, phase, absorbed,
  layout, memory, call, todo, value, field, erased, candidates, intact,
  time, trigger_detected_, trigger_timepoint_, executed, polls,
  flags_,
  buf, shared, write, read, wpc, desired, wleft, rpc, rleft, snapshot,
  result, committed, fresh, took, owed

containerVars == vars

Filters == INSTANCE Filters
Sensor == INSTANCE SensorPipeline
Nvm == INSTANCE NvmRegistry
Action == INSTANCE TriggeredAction
Mirror == INSTANCE RegistryMirror
Triple == INSTANCE TripleBuffer
Math == INSTANCE Arithmetic

-----------------------------------------------------------------------------
\* The assertions of registry: no name occurs twice in a layout, and every layout
\* fits in the storage.  A value is sizeof(value_type) bytes; one that is not a CRC's
\* is not taken for one.
ASSUME LayoutsAssumption ==
  /\ HashSize \in Nat \ {0} /\ CrcSize \in Nat \ {0}
  /\ Layouts \in Seq(Nvm!Firmwares) /\ Layouts # <<>>
  /\ \A l \in Nvm!Firmwares :
       /\ l \in Seq(Nvm!Names) /\ l # <<>>
       /\ \A i, j \in DOMAIN l : l[i] = l[j] => i = j
       /\ Nvm!size(l) <= Nvm!size(Layouts[Len(Layouts)])
  /\ \A p \in Nvm!Names : \A v \in Nvm!Settable(p) :
       v \in Seq(Nvm!Plain) /\ Len(v) = Nvm!sizes(p)
  /\ Zero \in Blank
  /\ \A b \in Nvm!Plain : b \notin {"crc"} \X Nvm!Names \X Seq(Nvm!Bytes) \X (1 .. CrcSize)

ASSUME FilterAssumption ==
  /\ Inputs \subseteq Int /\ MaxPushes \in Nat
  /\ Window \in Nat \ {0}

\* Codes are counted in a unit so small that an average of them, and what a converter makes
\* of it, is a whole number.
ASSUME SensorAssumption ==
  /\ N \in Nat \ {0} /\ Depth \in Nat \ {0}
  /\ Average \in Nat \ {0} /\ Median \in Nat /\ Median % 2 = 1
  /\ Codes \subseteq Nat /\ \E c \in Codes : \A d \in Codes : d <= c
  /\ \A c \in Codes : \A k \in 1 .. Average : c % (2 * k) = 0

ASSUME ActionAssumption == delay_ \in Nat /\ MaxTime \in Nat /\ MaxPolls \in Nat

ASSUME MirrorAssumption == LevelCount \in Nat

ASSUME TripleBufferAssumption == Words # {} /\ MaxValue \in Nat

\* A float can be the least value of the wide type, and the largest one is a float or
\* nearer to one of its neighbours than to the other, as those of float and double are for
\* 32 and 64 bits.
ASSUME FloatAssumption ==
  /\ MantissaBits \in Nat \ {0} /\ WideBits \in Nat \ (0 .. 3)
  /\ MantissaBits # WideBits - 2
  /\ Exponents \subseteq Nat
  /\ \E last \in Exponents : /\ Exponents = 0 .. last /\ last >= 2
                             /\ MantissaBits + last > WideBits + 1

ASSUME AngleAssumption == Turn \in Nat \ {0} /\ Turn % 2 = 0

-----------------------------------------------------------------------------
\* Properties of the instances, stated there: of the values that a polyphase sensor
\* has (process), of the parameters (get, set), and of the triple buffer (load,
\* store).
ValuesOfOneInstant == Sensor!ValuesOfOneInstant
GetReturnsWhatWasSet == Nvm!GetReturnsWhatWasSet
NoTornLoad == Triple!NoTornLoad
NewValueSeen == Triple!NewValueSeen
=============================================================================
