--------------------------- MODULE MCModbusAscii ---------------------------
(***************************************************************************)
(* Instances of ModbusAscii for TLC: the setpoint and the reading of the   *)
(* master, and frames that it does not send.                               *)
(***************************************************************************)
EXTENDS ModbusAscii

\* :010600003FC0.. CR LF
Write3FC0 ==
  <<58, 48, 49, 48, 54, 48, 48, 48, 48, 51, 70, 67, 48, 70, 65, 13,
    10>>

\* :010300000005.. CR LF
ReadAll ==
  <<58, 48, 49, 48, 51, 48, 48, 48, 48, 48, 48, 48, 53, 70, 55, 13,
    10>>

\* :010600010800.. CR LF
WriteOther ==
  <<58, 48, 49, 48, 54, 48, 48, 48, 49, 48, 56, 48, 48, 70, 48, 13,
    10>>

\* :010400000001.. CR LF
Unknown ==
  <<58, 48, 49, 48, 52, 48, 48, 48, 48, 48, 48, 48, 49, 70, 65, 13,
    10>>

\* Frames that are answered with an error are among them.
MCFrames == {Write3FC0, ReadAll, WriteOther, Unknown}
MCWrites == {Write3FC0}

\* A colon, a carriage return, a line feed, and a hexadecimal digit.
MCNoise == {58, 13, 10, 49}
\* A letter beyond F.
MCNoHex == {88}

=============================================================================
