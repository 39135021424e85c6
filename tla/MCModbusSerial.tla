--------------------------- MODULE MCModbusSerial ---------------------------
(***************************************************************************)
(* Instances of ModbusSerial for TLC.                                      *)
(***************************************************************************)
EXTENDS ModbusSerial, TLC

CONSTANTS poll, setpoint

\* Every poll of the registers is the same byte string, and so is every write
\* of the same setpoint.
FrameByKind == [r \in Requests |-> IF r \in Writes THEN setpoint ELSE poll]

\* Request objects only differ by the frame they carry.
Symmetry ==
  Permutations(Requests \ Writes) \cup Permutations(Writes) \cup Permutations(Resets)

=============================================================================
