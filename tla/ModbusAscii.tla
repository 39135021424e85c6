----------------------------- MODULE ModbusAscii -----------------------------
(***************************************************************************)
(* The Modbus ASCII receiver of the U1 firmware (modbus_ascii.c with the   *)
(* setpoint register of modbus.c and app.c).                               *)
(*                                                                         *)
(* The USART1 interrupt collects the characters of a frame in ma.buffer    *)
(* and hands it to the main loop by the event BUSY.  The main loop decodes *)
(* it in place, executes it, answers, and gives the buffer back.           *)
(*                                                                         *)
(* Characters are their ASCII codes.  The line delivers the frames of the  *)
(* master and spoils at most one character of each: it is lost or replaced *)
(* by one of Noise.  The debug registers, which show the variables of the  *)
(* program from address 1024 on, are not addressed by these frames.        *)
(***************************************************************************)
EXTENDS Integers, Sequences

CONSTANTS
  BufSize,   \* GLOBAL_MODBUS_ASCII_BUFSIZE
  Frames,    \* what the master sends, each with its CR LF
  Noise,     \* what a character may become
  MaxFrames, \* frames that are sent
  Junk,      \* what a variable may hold that was never set
  MaxErr     \* where the error counters stop (2^8 - 1)

Byte == 0..255
Words == 0..(256 * 256 - 1)

ASSUME BufferAssumption == BufSize \in Nat /\ BufSize >= 14 /\ BufSize % 2 = 0
ASSUME LineAssumption   == Frames \subseteq Seq(Byte) /\ Noise \subseteq Byte
ASSUME CountAssumption  == MaxFrames \in Nat /\ MaxErr \in Nat \ {0}
ASSUME JunkAssumption   == Junk \subseteq Words /\ Junk # {}

VARIABLES
  line,         \* characters on their way to the receiver
  spoilt,       \* one of them has been lost or replaced
  sent,         \* the frames the master has sent
  buffer,       \* ma.buffer
  bIndex,       \* ma.bIndex
  isLastByteCR, \* the static variable of the receiver
  heard,        \* the characters since the last colon or end of a frame
  busy,         \* the event BUSY is pending
  at,           \* where the main loop is
  err,          \* the error counters lrcError and byteWhileBusy
  setpoint,     \* hold register 0
  answer        \* the bytes of the last answer

lineVars == <<line, spoilt, sent>>
recvVars == <<buffer, bIndex, isLastByteCR, heard>>
execVars == <<setpoint, answer>>
vars == <<lineVars, recvVars, busy, at, err, execVars>>

COLON == 58
CR    == 13
LF    == 10
DeviceAddr == 1

Labels == {"poll", "frame", "reset", "clear"}

TypeOK ==
  /\ line \in Seq(Byte)
  /\ spoilt \in BOOLEAN
  /\ sent \in Seq(Frames)
  /\ buffer \in [0..(BufSize - 1) -> Byte]
  /\ bIndex \in 0..BufSize
  /\ isLastByteCR \in BOOLEAN
  /\ heard \in Seq(Byte)
  /\ busy \in BOOLEAN
  /\ at \in Labels
  /\ err \in [{"lrcError", "byteWhileBusy"} -> 0..MaxErr]
  /\ setpoint \in Words
  /\ answer \in Seq(Byte)

Init ==
  /\ line = <<>> /\ spoilt = FALSE /\ sent = <<>>
  /\ buffer = [i \in 0..(BufSize - 1) |-> 0]
  /\ bIndex = 0
  /\ isLastByteCR = FALSE
  /\ heard = <<>>
  /\ busy = FALSE
  /\ at = "poll"
  /\ err = [c \in {"lrcError", "byteWhileBusy"} |-> 0]
  /\ setpoint = 0
  /\ answer = <<>>

\* sys_inc8BitCnt()
Incremented(c) == [err EXCEPT ![c] = IF @ < MaxErr THEN @ + 1 ELSE @]

-----------------------------------------------------------------------------
(* The line.                                                               *)

MasterSends ==
  /\ line = <<>> /\ Len(sent) < MaxFrames
  /\ \E f \in Frames : line' = f /\ sent' = Append(sent, f)
  /\ spoilt' = FALSE
  /\ UNCHANGED <<recvVars, busy, at, err, execVars>>

CharacterLost ==
  /\ line # <<>> /\ ~spoilt
  /\ line' = Tail(line)
  /\ spoilt' = TRUE
  /\ UNCHANGED <<sent, recvVars, busy, at, err, execVars>>

CharacterReplaced ==
  /\ line # <<>> /\ ~spoilt
  /\ \E c \in Noise : line' = <<c>> \o Tail(line)
  /\ spoilt' = TRUE
  /\ UNCHANGED <<sent, recvVars, busy, at, err, execVars>>

-----------------------------------------------------------------------------
(* The USART1 interrupt.                                                   *)

\* Changed programs: the end of the buffer is missed by one.
IsFullEarly(i) == i >= BufSize - 1
IsFullLate(i)  == i > BufSize

\* No room is left in the buffer.
IsFull(i) == i >= BufSize

\* The character goes to the end of the buffer, as far as it holds i before.
Store(c, i) ==
  IF IsFull(i)
  THEN bIndex' = i /\ UNCHANGED buffer
  ELSE bIndex' = i + 1 /\ buffer' = [buffer EXCEPT ![i] = c]

\* A colon starts the frame anew.
Restarts(c) == IF c = COLON THEN 0 ELSE bIndex

\* A changed program: the colon is not counted.
EndsOnEven == isLastByteCR /\ bIndex % 2 = 0

\* A frame is a colon and pairs of characters.
FrameEnds == isLastByteCR /\ bIndex % 2 = 1

Hears(c) == heard' = IF c = COLON THEN <<c>> ELSE Append(heard, c)

\* modbusAscii_handleModbusAsciiByte(c)
ByteWhileBusy ==
  /\ busy
  /\ err' = Incremented("byteWhileBusy")
  /\ UNCHANGED <<recvVars, busy>>

FirstByte(c) ==
  /\ ~busy /\ bIndex = 0 /\ c # COLON
  /\ Store(c, 0)
  /\ Hears(c)
  /\ UNCHANGED <<isLastByteCR, busy, err>>

LineFeed ==
  /\ ~busy /\ bIndex > 0
  /\ IF FrameEnds THEN busy' = TRUE /\ UNCHANGED bIndex
                  ELSE bIndex' = 0 /\ UNCHANGED busy
  /\ isLastByteCR' = FALSE
  /\ heard' = <<>>
  /\ UNCHANGED <<buffer, err>>

CarriageReturn ==
  /\ ~busy /\ bIndex > 0
  /\ isLastByteCR' = TRUE
  /\ UNCHANGED <<buffer, bIndex, heard, busy, err>>

FrameByte(c) ==
  /\ ~busy /\ (bIndex > 0 \/ c = COLON) /\ c \notin {CR, LF}
  /\ Store(c, Restarts(c))
  /\ isLastByteCR' = (isLastByteCR /\ c # COLON)
  /\ Hears(c)
  /\ UNCHANGED <<busy, err>>

UartByte ==
  /\ line # <<>>
  /\ LET c == Head(line)
     IN \/ ByteWhileBusy
        \/ FirstByte(c)
        \/ c = LF /\ LineFeed
        \/ c = CR /\ CarriageReturn
        \/ FrameByte(c)
  /\ line' = Tail(line)
  /\ UNCHANGED <<spoilt, sent, at, execVars>>

-----------------------------------------------------------------------------
(* The main loop.                                                          *)

\* modbusAscii_hex2nibble()
IsHex(c)  == c \in 48..57 \/ c \in 65..70
Nibble(c) == IF c <= 57 THEN c - 48 ELSE c - 55

\* modbusAscii_hexBuffer2BinBuffer(&buffer[1], &buffer[0], bIndex - 1): the
\* pairs are decoded in place up to the first one that is not hexadecimal.
Pairs   == bIndex \div 2
Good(k) == \A j \in 0..k : IsHex(buffer[2*j + 1]) /\ IsHex(buffer[2*j + 2])
Decoded ==
  [i \in 0..(BufSize - 1) |->
     IF i < Pairs /\ Good(i)
     THEN Nibble(buffer[2*i + 1]) * 16 + Nibble(buffer[2*i + 2])
     ELSE buffer[i]]
DecodedSize == IF Good(Pairs - 1) THEN Pairs ELSE -1

\* The byte b[i]; in front of the buffer are the last two error counters.
ByteAt(b, i) ==
  IF i >= 0 THEN b[i] ELSE IF i = -1 THEN err["byteWhileBusy"] ELSE err["lrcError"]

Lrc(b, n) ==
  LET sum[i \in 0..n] == IF i = 0 THEN 0 ELSE sum[i - 1] + b[i - 1]
  IN  (256 - ((IF n > 0 THEN sum[n] ELSE 0) % 256)) % 256

\* A changed program: the checksum is not compared.
TakenUnchecked(b, n) == TRUE

LrcOk(b, n) == Lrc(b, n - 1) = ByteAt(b, n - 1)

Word(b, i) == b[i] * 256 + b[i + 1]

\* modbusAscii_sendResponse(n)
SendResponse(b, n) == buffer' = b /\ answer' = [i \in 1..n |-> b[i - 1]]

\* x | y
BitOr(x, y) ==
  LET Bit(n) == IF (x \div n) % 2 = 1 \/ (y \div n) % 2 = 1 THEN n ELSE 0
  IN  Bit(1) + Bit(2) + Bit(4) + Bit(8) + Bit(16) + Bit(32) + Bit(64) + Bit(128)

\* modbusAscii_sendErrorResponse(code)
SendErrorResponse(b, code) ==
  SendResponse([b EXCEPT ![1] = BitOr(@, 128), ![2] = BitOr(@, code)], 3)

\* modbus_readHoldRegister(): 5 registers, the ones of the sensors being 0.  An
\* address from 1024 on that belongs to no variable of the program succeeds and
\* leaves the value as it is: it was never set.
Register(a, junk) == IF a = 0 THEN setpoint ELSE IF a < 1024 THEN 0 ELSE junk

\* The buffer after n registers have been read.
WithRegisters(b, n, junk) ==
  [i \in DOMAIN b |->
     IF i = 2 THEN (Word(b, 4) * 2) % 256
     ELSE IF i \in 3..(2*n + 2)
          THEN LET v == Register(Word(b, 2) + (i - 3) \div 2, junk)
               IN IF i % 2 = 1 THEN v \div 256 ELSE v % 256
          ELSE b[i]]

ReadHoldRegisters(b) ==
  LET addr == Word(b, 2)
      size == Word(b, 4)
      known == IF addr >= 1024 THEN size ELSE IF addr > 4 THEN 0 ELSE 5 - addr
  IN /\ IF size < 1 \/ size > 125 \/ size > BufSize - 2
        THEN SendErrorResponse(b, 3)
        ELSE \E junk \in Junk :
               IF size <= known
               THEN SendResponse(WithRegisters(b, size, junk), 2*size + 3)
               ELSE SendErrorResponse(WithRegisters(b, known, junk), 3)
     /\ UNCHANGED setpoint

\* modbus_writeHoldRegister(): there is one register to write; for others below
\* 1024 the function ends without a value.
WriteHoldRegister(b) ==
  \/ Word(b, 2) = 0 /\ setpoint' = Word(b, 4) /\ SendResponse(b, 6)
  \/ Word(b, 2) \in 1..1023 /\ UNCHANGED setpoint /\ SendResponse(b, 6)
  \/ Word(b, 2) # 0 /\ UNCHANGED setpoint /\ SendErrorResponse(b, 2)

Execute(b) ==
  \/ b[1] = 3 /\ ReadHoldRegisters(b)
  \/ b[1] = 6 /\ WriteHoldRegister(b)
  \/ b[1] \notin {3, 6} /\ SendErrorResponse(b, 1) /\ UNCHANGED setpoint

MainPoll ==
  /\ at = "poll" /\ busy
  /\ at' = "frame"
  /\ UNCHANGED <<lineVars, recvVars, busy, err, execVars>>

\* With switch SW2 on the counters are cleared.
MainSwitch ==
  /\ at = "poll"
  /\ \E c \in DOMAIN err : err[c] # 0
  /\ err' = [c \in DOMAIN err |-> 0]
  /\ UNCHANGED <<lineVars, recvVars, busy, at, execVars>>

\* modbusAscii_handleFrame()
HandleFrame ==
  /\ at = "frame"
  /\ IF ~LrcOk(Decoded, DecodedSize)
     THEN /\ err' = Incremented("lrcError")
          /\ buffer' = Decoded
          /\ UNCHANGED execVars
     ELSE /\ IF Decoded[0] = DeviceAddr THEN Execute(Decoded)
                                        ELSE buffer' = Decoded /\ UNCHANGED execVars
          /\ UNCHANGED err
  /\ at' = "reset"
  /\ UNCHANGED <<lineVars, bIndex, isLastByteCR, heard, busy>>

\* The index is reset, then BUSY is cleared.
GiveBack ==
  /\ at \in {"reset", "clear"}
  /\ IF at = "reset" THEN bIndex' = 0 /\ at' = "clear" /\ UNCHANGED busy
                     ELSE busy' = FALSE /\ at' = "poll" /\ UNCHANGED bIndex
  /\ UNCHANGED <<lineVars, buffer, isLastByteCR, heard, err, execVars>>

MainStep == MainPoll \/ MainSwitch \/ HandleFrame \/ GiveBack

LineStep == MasterSends \/ CharacterLost \/ CharacterReplaced

Next == LineStep \/ UartByte \/ MainStep

Spec == Init /\ [][Next]_vars

-----------------------------------------------------------------------------
(* Safety.                                                                 *)

\* A frame that is handed over is all that was heard since its beginning: none
\* of its characters is missing, cut off at the end of the buffer, or left over
\* from an earlier one.
FrameWhole ==
  [][~busy /\ busy' =>
       /\ bIndex' = Len(heard)
       /\ \A i \in 1..Len(heard) : buffer'[i - 1] = heard[i]]_vars

\* A frame that was sent and heard from its colon on as it was sent is handed
\* over, whatever noise came before and however the main loop interleaves.
CleanFrameTaken ==
  [][line = <<LF>> /\ line' = <<>> /\ ~spoilt'
     /\ heard = SubSeq(sent[Len(sent)], 1, Len(sent[Len(sent)]) - 2)
       => busy']_vars

\* The value that a frame of the master writes to the setpoint.
HexValue(f, i) == Nibble(f[i]) * 16 + Nibble(f[i + 1])
Writes(f) ==
  IF Len(f) = 17 /\ HexValue(f, 4) = 6
  THEN {HexValue(f, 10) * 256 + HexValue(f, 12)} ELSE {}

\* The heater gets no setpoint that was not sent, as long as the characters
\* that arrive are hexadecimal and no more than one of a frame is wrong.
SetpointSent ==
  setpoint # 0 => \E i \in 1..Len(sent) : setpoint \in Writes(sent[i])

\* Nothing is executed but frames that decode and have the right checksum.
OnlyCheckedFrames ==
  [][setpoint' # setpoint =>
       \A i \in 1..(bIndex - 1) : IsHex(buffer[i])]_vars

=============================================================================
