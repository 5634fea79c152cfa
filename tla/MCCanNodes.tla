----------------------------- MODULE MCCanNodes -----------------------------
\* Behaviours of the SDO server, and of the raw node; the others stay as they are.
EXTENDS CanNodes

sdoVars == <<dictionary, store, tsdo_queue, window, lost>>
rawVars == <<ran, added, addedTx, gap, lastRx, timedOut, lastTx, rx_queue, step, at,
             queued, heardOf, dropped>>
allVars == <<vars, sdoVars, rawVars>>

-----------------------------------------------------------------------------
\* A dictionary with every access right, an entry that declares another type than
\* its variable has, one without a variable, and several entries of one variable.
Entry(key, access, type, var, default) ==
  [key |-> key, access |-> access, type |-> type, var |-> var, default |-> default]

\* None of SdoServer.
NoDefault == [cs |-> "none"]

MCDictionary ==
  << Entry(<<3, 1>>, "ro", "uint8", "speed", NoDefault),
     Entry(<<2, 2>>, "rw", "uint8", "mode", [of |-> "uint8", bytes |-> <<1, 0>>]),
     Entry(<<2, 1>>, "wo", "exec", "speed", NoDefault),
     Entry(<<2, 3>>, "rw", "float32", "mode", [of |-> "uint8", bytes |-> <<0, 0>>]),
     Entry(<<3, 2>>, "const", "uint8", "mode", [of |-> "uint8", bytes |-> <<0, 0>>]),
     Entry(<<1, 1>>, "rw", "string", "none", NoDefault),
     Entry(<<3, 3>>, "rw", "boolean", "enabled", [of |-> "boolean", bytes |-> <<1, 0>>]) >>

MCVariables ==
  [v \in {"speed", "mode", "enabled"} |->
     CASE v = "speed" -> "uint32" [] v = "mode" -> "uint8" [] v = "enabled" -> "boolean"]
MCRestoreKey == <<1, 4>>

\* A first slot that does not time out, and takes one identifier away from the
\* second, that does.
MCRxSlots ==
  << [accepts |-> {"a"}, timeout |-> 0],
     [accepts |-> {"a", "b"}, timeout |-> 3] >>
MCTxPeriods == <<2>>
MCPeriods == [t \in Timers |-> {0}]

-----------------------------------------------------------------------------
\* The server and one of the others do nothing.
Still == UNCHANGED vars
MCInit == Init /\ Sdo!Init /\ Raw!Init

SdoNext == Still /\ UNCHANGED rawVars /\ Sdo!Next
SdoSpec == MCInit /\ [][SdoNext]_allVars

RawNext == Still /\ UNCHANGED sdoVars /\ Raw!Next
RawInit == MCInit /\ window = CHOOSE w \in Windows : TRUE

\* run is called again and again, and the clock runs.
RawFairness ==
  /\ WF_allVars(Still /\ UNCHANGED sdoVars /\ Raw!Run)
  /\ WF_allVars(Still /\ UNCHANGED sdoVars /\ Raw!Tick)
RawSpec == RawInit /\ [][RawNext]_allVars /\ RawFairness
=============================================================================
