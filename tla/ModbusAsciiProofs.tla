------------------------- MODULE ModbusAsciiProofs -------------------------
(***************************************************************************)
(* Proofs about ModbusAscii for any buffer of even length, any frames and  *)
(* any noise; those about the setpoint for requests of the master and      *)
(* noise that consists of digits and line ends.                            *)
(***************************************************************************)
EXTENDS ModbusAscii, TLAPS

IsBuffer(b) == b = [i \in 0..(BufSize - 1) |-> b[i]]

Typed ==
  /\ line \in Seq(Byte)
  /\ heard \in Seq(Byte)
  /\ IsBuffer(buffer)
  /\ bIndex \in 0..BufSize
  /\ busy \in BOOLEAN
  /\ at \in Labels

\* From the moment a frame is handed over until the buffer is given back, the
\* main loop owns it; it gives it back empty.
Owned ==
  /\ at # "poll" => busy
  /\ at = "clear" => bIndex = 0
  /\ busy => heard = <<>>

\* The buffer holds what was heard since the beginning of the frame, up to the
\* end of the buffer.
Collected ==
  ~busy =>
    /\ bIndex = Len(heard) \/ (bIndex = BufSize /\ Len(heard) >= BufSize)
    /\ \A i \in 1..bIndex : buffer[i - 1] = heard[i]

IInv == Typed /\ Owned /\ Collected

-----------------------------------------------------------------------------
(* Sequences of characters and buffers.                                    *)

LEMMA Sizes == BufSize \in Nat /\ BufSize >= 14
BY BufferAssumption

LEMMA EvenSize == BufSize % 2 = 0
BY BufferAssumption

LEMMA Sent == /\ \A f \in Frames : f \in Seq(Byte)
              /\ \A c \in Noise : c \in Byte
BY LineAssumption, Zenon

LEMMA TailOfLine ==
  ASSUME NEW s \in Seq(Byte), s # <<>>
  PROVE  Head(s) \in Byte /\ Tail(s) \in Seq(Byte)
OBVIOUS

LEMMA AppendByte ==
  ASSUME NEW s \in Seq(Byte), NEW c \in Byte
  PROVE  /\ Append(s, c) \in Seq(Byte)
         /\ Len(Append(s, c)) = Len(s) + 1
         /\ Append(s, c)[Len(s) + 1] = c
         /\ \A i \in 1..Len(s) : Append(s, c)[i] = s[i]
OBVIOUS

LEMMA OneByte ==
  ASSUME NEW c \in Byte
  PROVE  <<c>> \in Seq(Byte) /\ Len(<<c>>) = 1 /\ <<c>>[1] = c
OBVIOUS

\* Whatever the main loop does to the buffer, it remains a buffer.
LEMMA BufferStays ==
  ASSUME Typed, HandleFrame
  PROVE  IsBuffer(buffer')
<1>1. IsBuffer(Decoded)
  BY DEF IsBuffer, Decoded
<1>2. ASSUME NEW b, IsBuffer(b), NEW code, SendErrorResponse(b, code)
      PROVE  IsBuffer(buffer')
  BY <1>2 DEF SendErrorResponse, SendResponse, IsBuffer
<1>3. ASSUME NEW b, IsBuffer(b), ReadHoldRegisters(b)
      PROVE  IsBuffer(buffer')
  <2>1. \A n, junk : IsBuffer(WithRegisters(b, n, junk))
    BY <1>3 DEF WithRegisters, IsBuffer
  <2>2. ASSUME NEW w, IsBuffer(w), NEW n, SendResponse(w, n)
        PROVE  IsBuffer(buffer')
    BY <2>2 DEF SendResponse
  <2> QED
    BY <1>2, <1>3, <2>1, <2>2, Zenon DEF ReadHoldRegisters
<1>4. ASSUME NEW b, IsBuffer(b), Execute(b)
      PROVE  IsBuffer(buffer')
  BY <1>2, <1>3, <1>4 DEF Execute, WriteHoldRegister, SendResponse
<1> QED
  BY <1>1, <1>4 DEF HandleFrame, Typed

-----------------------------------------------------------------------------
(* IInv holds from the start and through every step.                       *)

LEMMA InvInit == Init => IInv
<1> SUFFICES ASSUME Init PROVE IInv
  OBVIOUS
<1>1. <<>> \in Seq(Byte) /\ Len(<<>>) = 0
  OBVIOUS
<1>2. Typed
  BY <1>1, Sizes DEF Init, Typed, IsBuffer, Labels
<1>3. Owned
  BY DEF Init, Owned
<1>4. Collected
  <2>1. bIndex = 0 /\ heard = <<>>
    BY DEF Init
  <2>2. Len(heard) = 0
    BY <2>1, <1>1
  <2> QED
    BY <2>1, <2>2 DEF Collected
<1> QED
  BY <1>2, <1>3, <1>4 DEF IInv

LEMMA InvLine ==
  ASSUME IInv, LineStep
  PROVE  IInv'
<1>1. UNCHANGED <<recvVars, busy, at>>
  BY DEF LineStep, MasterSends, CharacterLost, CharacterReplaced
<1>2. line' \in Seq(Byte)
  <2>1. CASE MasterSends
    BY <2>1, Sent DEF MasterSends
  <2>2. CASE CharacterLost
    BY <2>2, TailOfLine DEF CharacterLost, IInv, Typed
  <2>3. CASE CharacterReplaced
    <3>1. PICK c \in Noise : line' = <<c>> \o Tail(line)
      BY <2>3 DEF CharacterReplaced
    <3>2. <<c>> \in Seq(Byte)
      BY Sent, OneByte
    <3>3. Tail(line) \in Seq(Byte)
      BY <2>3, TailOfLine DEF CharacterReplaced, IInv, Typed
    <3> QED
      BY <3>1, <3>2, <3>3
  <2> QED
    BY <2>1, <2>2, <2>3 DEF LineStep
<1> QED
  BY <1>1, <1>2 DEF IInv, Typed, Owned, Collected, recvVars

\* A character that is stored continues what the buffer holds, or is cut off
\* together with everything after it.
LEMMA StoreCollects ==
  ASSUME Typed, NEW c \in Byte, NEW i \in 0..BufSize, Store(c, i),
         NEW h \in Seq(Byte), heard' = Append(h, c),
         i = Len(h) \/ (i = BufSize /\ Len(h) >= BufSize),
         \A k \in 1..i : buffer[k - 1] = h[k]
  PROVE  /\ heard' \in Seq(Byte) /\ IsBuffer(buffer') /\ bIndex' \in 0..BufSize
         /\ bIndex' = Len(heard') \/ (bIndex' = BufSize /\ Len(heard') >= BufSize)
         /\ \A k \in 1..bIndex' : buffer'[k - 1] = heard'[k]
<1>0. BufSize \in Nat /\ Len(h) \in Nat
  BY Sizes
<1>1. /\ heard' \in Seq(Byte) /\ Len(heard') = Len(h) + 1
      /\ heard'[Len(h) + 1] = c
      /\ \A k \in 1..Len(h) : heard'[k] = h[k]
  BY AppendByte
<1>2. CASE IsFull(i)
  BY <1>0, <1>1, <1>2 DEF Store, IsFull, Typed
<1>3. CASE ~IsFull(i)
  <2>1. bIndex' = i + 1 /\ buffer' = [buffer EXCEPT ![i] = c] /\ i = Len(h)
        /\ i \in 0..(BufSize - 1)
    BY <1>0, <1>3 DEF Store, IsFull
  <2>2. IsBuffer(buffer') /\ buffer'[i] = c
        /\ \A k \in 0..(BufSize - 1) : k # i => buffer'[k] = buffer[k]
    BY <2>1 DEF Typed, IsBuffer
  <2>3. \A k \in 1..bIndex' : buffer'[k - 1] = heard'[k]
    BY <1>0, <1>1, <2>1, <2>2
  <2> QED
    BY <1>0, <1>1, <2>1, <2>2, <2>3
<1> QED
  BY <1>2, <1>3

LEMMA InvUart ==
  ASSUME IInv, UartByte
  PROVE  IInv'
<1> DEFINE c == Head(line)
<1>1. c \in Byte /\ line' \in Seq(Byte) /\ at' = at
  BY TailOfLine DEF UartByte, IInv, Typed
<1>2. BufSize \in Nat /\ BufSize >= 14
  BY Sizes
<1>3. CASE ByteWhileBusy
  BY <1>1, <1>3 DEF ByteWhileBusy, IInv, Typed, Owned, Collected, recvVars
<1>4. CASE FirstByte(c)
  <2>1. ~busy /\ busy' = busy /\ Len(heard) = 0 /\ heard' = Append(heard, c) /\ Store(c, 0)
    BY <1>2, <1>4 DEF FirstByte, Hears, IInv, Collected
  <2>2. /\ heard' \in Seq(Byte) /\ IsBuffer(buffer') /\ bIndex' \in 0..BufSize
        /\ Collected'
    <3>1. Typed /\ heard \in Seq(Byte) /\ 0 \in 0..BufSize /\ \A k \in 1..0 : FALSE
      BY <1>2 DEF IInv, Typed
    <3>2. /\ heard' \in Seq(Byte) /\ IsBuffer(buffer') /\ bIndex' \in 0..BufSize
          /\ bIndex' = Len(heard') \/ (bIndex' = BufSize /\ Len(heard') >= BufSize)
          /\ \A k \in 1..bIndex' : buffer'[k - 1] = heard'[k]
      BY <1>1, <2>1, <3>1, StoreCollects, Zenon
    <3> QED
      BY <3>2 DEF Collected
  <2>3. Typed'
    <3>1. busy' \in BOOLEAN /\ at' \in Labels
      BY <1>1, <2>1 DEF IInv, Typed
    <3> QED
      BY <1>1, <2>2, <3>1, Zenon DEF Typed
  <2>4. Owned'
    BY <1>1, <2>1, <2>2 DEF IInv, Typed, Owned
  <2> QED
    BY <2>2, <2>3, <2>4 DEF IInv
<1>5. CASE c = LF /\ LineFeed
  <2>1. ~busy /\ heard' = <<>> /\ buffer' = buffer /\ at = "poll"
        /\ bIndex' \in {0, bIndex} /\ (~busy' => bIndex' = 0) /\ busy' \in BOOLEAN
    BY <1>5 DEF LineFeed, IInv, Owned, Typed, Labels
  <2>2. Len(heard') = 0 /\ heard' \in Seq(Byte)
    BY <2>1
  <2>3. Typed'
    BY <1>1, <1>2, <2>1, <2>2 DEF IInv, Typed
  <2>4. Owned'
    BY <1>1, <2>1, <2>2 DEF IInv, Typed, Owned
  <2>5. Collected'
    BY <2>1, <2>2 DEF Collected
  <2> QED
    BY <2>3, <2>4, <2>5 DEF IInv
<1>6. CASE c = CR /\ CarriageReturn
  BY <1>1, <1>6 DEF CarriageReturn, IInv, Typed, Owned, Collected
<1>7. CASE FrameByte(c)
  <2>1. ~busy /\ busy' = busy /\ Store(c, Restarts(c))
    BY <1>7 DEF FrameByte
  <2>2. /\ heard' \in Seq(Byte) /\ IsBuffer(buffer') /\ bIndex' \in 0..BufSize
        /\ Collected'
    <3>1. CASE c = COLON
      <4>1. heard' = Append(<<>>, c) /\ <<>> \in Seq(Byte) /\ Len(<<>>) = 0
        BY <1>1, <1>7, <3>1 DEF FrameByte, Hears
      <4>2. Store(c, 0) /\ 0 \in 0..BufSize
        BY <1>2, <2>1, <3>1 DEF Restarts
      <4>3. /\ heard' \in Seq(Byte) /\ IsBuffer(buffer') /\ bIndex' \in 0..BufSize
            /\ bIndex' = Len(heard') \/ (bIndex' = BufSize /\ Len(heard') >= BufSize)
            /\ \A k \in 1..bIndex' : buffer'[k - 1] = heard'[k]
        <5>1. Typed /\ \A k \in 1..0 : FALSE
          BY DEF IInv
        <5> QED
          BY <1>1, <4>1, <4>2, <5>1, StoreCollects, Zenon
      <4> QED
        BY <4>3 DEF Collected
    <3>2. CASE c # COLON
      <4>1. heard' = Append(heard, c)
        BY <1>7, <3>2 DEF FrameByte, Hears
      <4> QED
        BY <1>1, <1>2, <2>1, <3>2, <4>1, StoreCollects
        DEF IInv, Typed, Collected, Restarts
    <3> QED
      BY <3>1, <3>2
  <2>3. Typed'
    <3>1. busy' \in BOOLEAN /\ at' \in Labels
      BY <1>1, <2>1 DEF IInv, Typed
    <3> QED
      BY <1>1, <2>2, <3>1, Zenon DEF Typed
  <2>4. Owned'
    BY <1>1, <2>1, <2>2 DEF IInv, Typed, Owned
  <2> QED
    BY <2>2, <2>3, <2>4 DEF IInv
<1> QED
  BY <1>3, <1>4, <1>5, <1>6, <1>7 DEF UartByte

LEMMA InvMain ==
  ASSUME IInv, MainStep
  PROVE  IInv'
<1>1. CASE MainPoll
  BY <1>1 DEF MainPoll, IInv, Typed, Owned, Collected, Labels, lineVars, recvVars
<1>2. CASE MainSwitch
  BY <1>2 DEF MainSwitch, IInv, Typed, Owned, Collected, lineVars, recvVars
<1>3. CASE HandleFrame
  <2>1. IsBuffer(buffer')
    BY <1>3, BufferStays DEF IInv
  <2>2. /\ at = "frame" /\ at' = "reset"
        /\ UNCHANGED <<lineVars, bIndex, isLastByteCR, heard, busy>>
    BY <1>3 DEF HandleFrame
  <2> QED
    BY <2>1, <2>2 DEF IInv, Typed, Owned, Collected, Labels, lineVars
<1>4. CASE GiveBack
  <2>1. Len(<<>>) = 0
    OBVIOUS
  <2>2. Typed'
    <3>1. bIndex' \in 0..BufSize /\ IsBuffer(buffer')
      BY <1>4, Sizes DEF GiveBack, IInv, Typed
    <3>2. line' \in Seq(Byte) /\ heard' \in Seq(Byte)
          /\ busy' \in BOOLEAN /\ at' \in Labels
      BY <1>4 DEF GiveBack, IInv, Typed, Labels, lineVars
    <3> QED
      BY <3>1, <3>2, Zenon DEF Typed
  <2>3. Owned'
    BY <1>4, Sizes DEF GiveBack, IInv, Typed, Owned
  <2>4. ~busy' => bIndex' = 0 /\ heard' = <<>>
    BY <1>4 DEF GiveBack, IInv, Typed, Owned
  <2>5. Collected'
    BY <2>1, <2>4 DEF Collected
  <2> QED
    BY <2>2, <2>3, <2>5 DEF IInv
<1> QED
  BY <1>1, <1>2, <1>3, <1>4 DEF MainStep

LEMMA InvAlways == Spec => []IInv
<1>1. Init => IInv
  BY InvInit
<1>2. IInv /\ [Next]_vars => IInv'
  <2>1. CASE UNCHANGED vars
    BY <2>1 DEF IInv, Typed, Owned, Collected, vars, lineVars, recvVars
  <2> QED
    BY <2>1, InvLine, InvUart, InvMain DEF Next
<1> QED
  BY <1>1, <1>2, PTL DEF Spec

-----------------------------------------------------------------------------
(* The results.                                                            *)

\* A frame that the interrupt hands over is, character by character, what was
\* heard since its beginning.  What does not fit is cut off, but then the
\* index stays at BufSize, which is even, and no frame ends there.
THEOREM FramesAreWhole == Spec => FrameWhole
<1>1. ASSUME IInv, [Next]_vars
      PROVE  [~busy /\ busy' =>
                /\ bIndex' = Len(heard)
                /\ \A i \in 1..Len(heard) : buffer'[i - 1] = heard[i]]_vars
  <2> SUFFICES ASSUME ~busy, busy', Next
               PROVE  /\ bIndex' = Len(heard)
                      /\ \A i \in 1..Len(heard) : buffer'[i - 1] = heard[i]
    BY <1>1 DEF vars
  <2>1. UartByte
    BY DEF Next, LineStep, MasterSends, CharacterLost, CharacterReplaced,
           MainStep, MainPoll, MainSwitch, HandleFrame, GiveBack
  <2>2. LineFeed
    BY <2>1 DEF UartByte, ByteWhileBusy, FirstByte, CarriageReturn, FrameByte
  <2>3. bIndex' = bIndex /\ buffer' = buffer /\ bIndex % 2 = 1
    BY <2>2 DEF LineFeed, FrameEnds
  <2>4. bIndex # BufSize
    BY <2>3, EvenSize
  <2> QED
    BY <1>1, <2>3, <2>4 DEF IInv, Collected
<1> QED
  BY <1>1, InvAlways, PTL DEF Spec, FrameWhole

-----------------------------------------------------------------------------
(***************************************************************************)
(* Types.                                                                  *)
(***************************************************************************)
Buffers  == [0..(BufSize - 1) -> Byte]
Counters == [{"lrcError", "byteWhileBusy"} -> 0..MaxErr]

LEMMA ByteIs == \A x : x \in Byte <=> x \in Int /\ 0 <= x /\ x <= 255
BY DEF Byte

LEMMA BelowIs ==
  ASSUME NEW n \in Nat
  PROVE  \A x : x \in 0..(n - 1) <=> x \in Int /\ 0 <= x /\ x < n
OBVIOUS

LEMMA WordIs == \A x : x \in Words <=> x \in Int /\ 0 <= x /\ x < 256 * 256
<1>1. 256 * 256 \in Nat
  OBVIOUS
<1> QED BY <1>1, BelowIs, Zenon DEF Words

LEMMA WordOfBytes ==
  ASSUME NEW b \in Buffers, NEW i \in {2, 4}
  PROVE  Word(b, i) \in Words
<1>1. i \in 0..(BufSize - 1) /\ i + 1 \in 0..(BufSize - 1)
  BY Sizes
<1>2. b[i] \in Byte /\ b[i + 1] \in Byte
  BY <1>1 DEF Buffers
<1> QED BY <1>2, ByteIs, WordIs DEF Word

\* What Typed leaves out.
Held ==
  /\ spoilt \in BOOLEAN
  /\ sent \in Seq(Frames)
  /\ buffer \in Buffers
  /\ isLastByteCR \in BOOLEAN
  /\ err \in Counters
  /\ setpoint \in Words
  /\ answer \in Seq(Byte)

LEMMA TypesOfAll == Typed /\ Held => TypeOK
BY DEF Typed, Held, TypeOK, Buffers, Counters

LEMMA Counted ==
  ASSUME err \in Counters, NEW c
  PROVE  Incremented(c) \in Counters
<1>1. MaxErr \in Nat
  BY CountAssumption
<1>2. \A x \in 0..MaxErr : (IF x < MaxErr THEN x + 1 ELSE x) \in 0..MaxErr
  BY <1>1
<1> DEFINE up == IF err[c] < MaxErr THEN err[c] + 1 ELSE err[c]
<1>3. c \in {"lrcError", "byteWhileBusy"} => up \in 0..MaxErr
  BY <1>2 DEF Counters
<1>4. Incremented(c) = [err EXCEPT ![c] = up]
  BY DEF Incremented
<1> HIDE DEF up
<1> QED BY <1>3, <1>4 DEF Counters

LEMMA NibbleRange ==
  ASSUME NEW c, IsHex(c)
  PROVE  Nibble(c) \in 0..15
BY DEF IsHex, Nibble

LEMMA DecodedType ==
  ASSUME buffer \in Buffers
  PROVE  Decoded \in Buffers
<1> SUFFICES ASSUME NEW i \in 0..(BufSize - 1)
             PROVE  Decoded[i] \in Byte
  BY DEF Decoded, Buffers
<1>1. CASE i < Pairs /\ Good(i)
  <2>1. IsHex(buffer[2*i + 1]) /\ IsHex(buffer[2*i + 2])
    BY <1>1, Sizes DEF Good
  <2>2. Nibble(buffer[2*i + 1]) \in 0..15 /\ Nibble(buffer[2*i + 2]) \in 0..15
    BY <2>1, NibbleRange
  <2>3. Decoded[i] = Nibble(buffer[2*i + 1]) * 16 + Nibble(buffer[2*i + 2])
    BY <1>1 DEF Decoded
  <2> QED BY <2>2, <2>3 DEF Byte
<1>2. CASE ~(i < Pairs /\ Good(i))
  BY <1>2 DEF Decoded, Buffers
<1> QED BY <1>1, <1>2

LEMMA BitOrType ==
  ASSUME NEW x, NEW y
  PROVE  BitOr(x, y) \in Byte
BY DEF BitOr, Byte

LEMMA SentType ==
  ASSUME NEW b \in Buffers, NEW n \in 0..BufSize, SendResponse(b, n)
  PROVE  buffer' \in Buffers /\ answer' \in Seq(Byte)
<1>1. \A i \in 1..n : b[i - 1] \in Byte
  BY Sizes DEF Buffers
<1> QED BY <1>1 DEF SendResponse

LEMMA ErrorType ==
  ASSUME NEW b \in Buffers, NEW code, SendErrorResponse(b, code)
  PROVE  buffer' \in Buffers /\ answer' \in Seq(Byte)
<1> DEFINE w == [b EXCEPT ![1] = BitOr(@, 128), ![2] = BitOr(@, code)]
<1>1. w \in Buffers
  BY BitOrType DEF Buffers
<1>2. 3 \in 0..BufSize
  BY Sizes
<1> QED BY <1>1, <1>2, SentType DEF SendErrorResponse

LEMMA RegistersType ==
  ASSUME NEW b \in Buffers, NEW n, NEW junk \in Junk, setpoint \in Words
  PROVE  WithRegisters(b, n, junk) \in Buffers
<1>1. \A a : Register(a, junk) \in Words
  <2>1. 0 \in Words /\ junk \in Words
    BY JunkAssumption, WordIs
  <2> QED BY <2>1 DEF Register
<1>2. \A v \in Words : v \div 256 \in Byte /\ v % 256 \in Byte
  BY ByteIs, WordIs
<1>3. (Word(b, 4) * 2) % 256 \in Byte
  <2>1. Word(b, 4) \in Words
    BY WordOfBytes
  <2> QED BY <2>1, ByteIs, WordIs
<1> DEFINE value(i) ==
      IF i = 2 THEN (Word(b, 4) * 2) % 256
      ELSE IF i \in 3..(2*n + 2)
           THEN LET v == Register(Word(b, 2) + (i - 3) \div 2, junk)
                IN IF i % 2 = 1 THEN v \div 256 ELSE v % 256
           ELSE b[i]
<1>4. ASSUME NEW i \in 0..(BufSize - 1) PROVE value(i) \in Byte
  <2> DEFINE v == Register(Word(b, 2) + (i - 3) \div 2, junk)
  <2>1. v \div 256 \in Byte /\ v % 256 \in Byte
    BY <1>1, <1>2
  <2>2. b[i] \in Byte
    BY DEF Buffers
  <2> HIDE DEF v
  <2>3. value(i) = IF i = 2 THEN (Word(b, 4) * 2) % 256
                   ELSE IF i \in 3..(2*n + 2)
                        THEN IF i % 2 = 1 THEN v \div 256 ELSE v % 256
                        ELSE b[i]
    BY DEF v
  <2> QED BY <1>3, <2>1, <2>2, <2>3, Zenon
<1>5. DOMAIN b = 0..(BufSize - 1)
  BY DEF Buffers
<1>6. WithRegisters(b, n, junk) = [i \in 0..(BufSize - 1) |-> value(i)]
  BY <1>5 DEF WithRegisters
<1> HIDE DEF value
<1> QED BY <1>4, <1>6 DEF Buffers

\* A read that is executed asks for no more registers than the buffer has room for, if it is for
\* the debug registers: the code compares the number of registers with the number of bytes
\* (modbus_ascii.c 117).
ReadsFit ==
  at = "frame" /\ LrcOk(Decoded, DecodedSize) /\ Decoded[1] = 3 /\ Word(Decoded, 2) >= 1024
    => 2 * Word(Decoded, 4) + 3 <= BufSize \/ Word(Decoded, 4) > BufSize - 2

LEMMA ReadType ==
  ASSUME NEW b \in Buffers, ReadHoldRegisters(b), setpoint \in Words,
         Word(b, 2) >= 1024 => 2 * Word(b, 4) + 3 <= BufSize \/ Word(b, 4) > BufSize - 2
  PROVE  buffer' \in Buffers /\ answer' \in Seq(Byte)
<1> DEFINE addr == Word(b, 2)
           size == Word(b, 4)
           known == IF addr >= 1024 THEN size ELSE IF addr > 4 THEN 0 ELSE 5 - addr
<1>1. addr \in Nat /\ size \in Nat /\ BufSize \in Nat /\ BufSize >= 14
  <2>1. Word(b, 2) \in Words /\ Word(b, 4) \in Words
    BY WordOfBytes
  <2> QED BY <2>1, Sizes, WordIs
<1>2. CASE size < 1 \/ size > 125 \/ size > BufSize - 2
  <2>1. SendErrorResponse(b, 3)
    BY <1>2, Zenon DEF ReadHoldRegisters
  <2> QED BY <2>1, ErrorType
<1>3. CASE ~(size < 1 \/ size > 125 \/ size > BufSize - 2)
  <2>1. PICK junk \in Junk :
          IF size <= known
          THEN SendResponse(WithRegisters(b, size, junk), 2*size + 3)
          ELSE SendErrorResponse(WithRegisters(b, known, junk), 3)
    BY <1>3, Zenon DEF ReadHoldRegisters
  <2>2. CASE size <= known
    <3>1. 2*size + 3 \in 0..BufSize
      BY <1>1, <1>3, <2>2
    <3> QED BY <2>1, <2>2, <3>1, RegistersType, SentType
  <2>3. CASE ~(size <= known)
    BY <2>1, <2>3, RegistersType, ErrorType
  <2> QED BY <2>2, <2>3
<1> QED BY <1>2, <1>3

LEMMA ExecutedType ==
  ASSUME NEW b \in Buffers, Execute(b), setpoint \in Words,
         b[1] = 3 /\ Word(b, 2) >= 1024 =>
           2 * Word(b, 4) + 3 <= BufSize \/ Word(b, 4) > BufSize - 2
  PROVE  buffer' \in Buffers /\ setpoint' \in Words /\ answer' \in Seq(Byte)
<1>1. CASE b[1] = 3 /\ ReadHoldRegisters(b)
  <2>1. UNCHANGED setpoint
    BY <1>1 DEF ReadHoldRegisters
  <2> QED BY <1>1, <2>1, ReadType
<1>2. CASE WriteHoldRegister(b)
  <2>1. Word(b, 4) \in Words
    BY WordOfBytes
  <2>2. setpoint' \in {setpoint, Word(b, 4)} /\ (SendResponse(b, 6) \/ SendErrorResponse(b, 2))
    BY <1>2, Zenon DEF WriteHoldRegister
  <2>3. 6 \in 0..BufSize
    BY Sizes
  <2> QED BY <2>1, <2>2, <2>3, SentType, ErrorType
<1>3. CASE SendErrorResponse(b, 1) /\ UNCHANGED setpoint
  BY <1>3, ErrorType
<1> QED BY <1>1, <1>2, <1>3, Zenon DEF Execute

LEMMA HeldFrame ==
  ASSUME Held, HandleFrame, ReadsFit
  PROVE  Held'
<1>1. Decoded \in Buffers
  BY DecodedType DEF Held
<1>2. UNCHANGED <<spoilt, sent, isLastByteCR>>
  BY DEF HandleFrame, lineVars
<1>3. err' \in Counters
  <2>1. err' \in {err, Incremented("lrcError")}
    BY Zenon DEF HandleFrame
  <2> QED BY <2>1, Counted DEF Held
<1>4. buffer' \in Buffers /\ setpoint' \in Words /\ answer' \in Seq(Byte)
  <2>1. CASE buffer' = Decoded /\ UNCHANGED execVars
    BY <1>1, <2>1 DEF execVars, Held
  <2>2. CASE Execute(Decoded) /\ LrcOk(Decoded, DecodedSize)
    <3>1. Decoded[1] = 3 /\ Word(Decoded, 2) >= 1024 =>
            2 * Word(Decoded, 4) + 3 <= BufSize \/ Word(Decoded, 4) > BufSize - 2
      BY <2>2, Zenon DEF ReadsFit, HandleFrame
    <3> QED BY <1>1, <2>2, <3>1, ExecutedType, Zenon DEF Held
  <2> QED BY <2>1, <2>2, Zenon DEF HandleFrame
<1> QED BY <1>2, <1>3, <1>4 DEF Held

LEMMA StoreType ==
  ASSUME buffer \in Buffers, NEW c \in Byte, NEW i, Store(c, i)
  PROVE  buffer' \in Buffers
BY DEF Store, Buffers

LEMMA HeldUart ==
  ASSUME Typed, Held, UartByte
  PROVE  Held'
<1> DEFINE c == Head(line)
<1>1. c \in Byte /\ UNCHANGED <<spoilt, sent, setpoint, answer>>
  BY TailOfLine DEF UartByte, Typed, execVars
<1>2. /\ \/ UNCHANGED buffer
         \/ \E i : Store(c, i)
      /\ isLastByteCR' \in {isLastByteCR, TRUE, FALSE}
      /\ err' \in {err, Incremented("byteWhileBusy")}
  BY Zenon DEF UartByte, ByteWhileBusy, FirstByte, LineFeed, CarriageReturn, FrameByte, recvVars
<1>3. buffer' \in Buffers
  BY <1>1, <1>2, StoreType DEF Held
<1>4. err' \in Counters
  BY <1>2, Counted DEF Held
<1> QED BY <1>1, <1>2, <1>3, <1>4 DEF Held

LEMMA HeldLine ==
  ASSUME Held, LineStep
  PROVE  Held'
<1>1. UNCHANGED <<buffer, isLastByteCR, err, setpoint, answer>>
  BY DEF LineStep, MasterSends, CharacterLost, CharacterReplaced, recvVars, execVars
<1>2. sent' = sent \/ \E f \in Frames : sent' = Append(sent, f)
  BY DEF LineStep, MasterSends, CharacterLost, CharacterReplaced
<1>3. sent' \in Seq(Frames)
  <2>1. sent \in Seq(Frames)
    BY DEF Held
  <2> QED BY <1>2, <2>1
<1>4. spoilt' \in BOOLEAN
  BY DEF LineStep, MasterSends, CharacterLost, CharacterReplaced
<1> QED BY <1>1, <1>3, <1>4 DEF Held

LEMMA HeldMain ==
  ASSUME Held, MainStep, ReadsFit
  PROVE  Held'
<1>1. CASE MainPoll \/ GiveBack
  BY <1>1 DEF MainPoll, GiveBack, Held, lineVars, recvVars, execVars
<1>2. CASE MainSwitch
  <2>1. err' \in Counters
    BY <1>2, CountAssumption DEF MainSwitch, Held, Counters
  <2> QED BY <1>2, <2>1 DEF MainSwitch, Held, lineVars, recvVars, execVars
<1> QED BY <1>1, <1>2, HeldFrame DEF MainStep

\* The index stays in the buffer, and what the registers, the buffer and the answer hold are
\* bytes and words, whatever the line delivers, as long as no read asks for more debug registers
\* than the buffer has room for (modbus_ascii.c 50-245).
THEOREM TypesKept == Spec /\ []ReadsFit => []TypeOK
<1>1. Init => Held
  <2> SUFFICES ASSUME Init PROVE Held
    OBVIOUS
  <2>1. buffer \in Buffers
    BY DEF Init, Buffers, Byte
  <2>2. err \in Counters
    BY CountAssumption DEF Init, Counters
  <2>3. setpoint \in Words
    BY WordIs DEF Init
  <2>4. sent \in Seq(Frames) /\ answer \in Seq(Byte)
    BY DEF Init
  <2> QED BY <2>1, <2>2, <2>3, <2>4 DEF Init, Held
<1>2. IInv /\ Held /\ ReadsFit /\ [Next]_vars => Held'
  <2>1. ASSUME Held, UNCHANGED vars PROVE Held'
    BY <2>1 DEF Held, vars, lineVars, recvVars, execVars
  <2> QED BY <2>1, HeldLine, HeldUart, HeldMain DEF Next, IInv
<1>3. IInv /\ Held => TypeOK
  BY TypesOfAll DEF IInv
<1> QED BY <1>1, <1>2, <1>3, InvAlways, PTL DEF Spec

-----------------------------------------------------------------------------
(***************************************************************************)
(* Intact frames.                                                          *)
(***************************************************************************)

\* The frames of the master: a colon, pairs of characters that fit into the buffer, CR LF.
MasterFrames ==
  \A f \in Frames :
    /\ Len(f) >= 5 /\ Len(f) % 2 = 1 /\ Len(f) - 2 <= BufSize
    /\ f[1] = COLON /\ f[Len(f) - 1] = CR /\ f[Len(f)] = LF

LastSent == sent[Len(sent)]

\* What is on the line is the rest of the last frame.
EndOf(s, f) ==
  /\ Len(s) <= Len(f)
  /\ \A i \in 1..Len(s) : s[i] = f[Len(f) - Len(s) + i]

Following ==
  /\ sent \in Seq(Frames)
  /\ sent = <<>> => line = <<>>
  /\ sent # <<>> /\ ~spoilt => EndOf(line, LastSent)

\* In front of the last character of an intact frame its CR has been seen, if its colon has.
ReturnSeen == ~spoilt /\ line = <<LF>> /\ heard # <<>> /\ heard[1] = COLON => isLastByteCR

Clean == Following /\ ReturnSeen

LEMMA LastIsFrame ==
  ASSUME Following, sent # <<>>
  PROVE  LastSent \in Frames /\ LastSent \in Seq(Byte)
<1>1. LastSent \in Frames
  BY DEF Following, LastSent
<1> QED BY <1>1, Sent

LEMMA TailIsEnd ==
  ASSUME NEW s \in Seq(Byte), s # <<>>, NEW f \in Seq(Byte), EndOf(s, f)
  PROVE  EndOf(Tail(s), f)
<1>1. Len(Tail(s)) = Len(s) - 1 /\ \A i \in 1..Len(Tail(s)) : Tail(s)[i] = s[i + 1]
  OBVIOUS
<1> QED BY <1>1 DEF EndOf

\* The character before the last one of an intact frame is its CR.
LEMMA BeforeLast ==
  ASSUME MasterFrames, NEW f \in Frames, NEW s \in Seq(Byte), s # <<>>, EndOf(s, f),
         Tail(s) = <<LF>>
  PROVE  Head(s) = CR
<1>1. f \in Seq(Byte)
  BY Sent
<1>2. Len(s) = 2 /\ Head(s) = s[1]
  <2>1. Len(Tail(s)) = Len(s) - 1 /\ Len(s) \in Nat /\ Head(s) = s[1]
    OBVIOUS
  <2>2. Len(<<LF>>) = 1
    OBVIOUS
  <2>3. Len(Tail(s)) = 1
    BY <2>2, Zenon
  <2> QED BY <2>1, <2>3
<1>3. s[1] = f[Len(f) - 1]
  BY <1>1, <1>2 DEF EndOf
<1> QED BY <1>2, <1>3 DEF MasterFrames

LEMMA CleanInit == Init => Clean
BY DEF Init, Clean, Following, ReturnSeen

LEMMA CleanLine ==
  ASSUME MasterFrames, IInv, Clean, LineStep
  PROVE  Clean'
<1>1. CASE MasterSends
  <2>1. PICK f \in Frames : line' = f /\ sent' = Append(sent, f)
    BY <1>1 DEF MasterSends
  <2>2. f \in Seq(Byte) /\ Len(f) >= 5
    BY Sent DEF MasterFrames
  <2>3. sent' \in Seq(Frames) /\ Len(sent') = Len(sent) + 1 /\ sent'[Len(sent')] = f
    BY <2>1 DEF Clean, Following
  <2>4. EndOf(f, f)
    BY <2>2 DEF EndOf
  <2>5. line' # <<LF>>
    <3>1. Len(<<LF>>) = 1
      OBVIOUS
    <3>2. Len(f) # 1
      <4>1. \A n : n >= 5 => n # 1
        OBVIOUS
      <4> QED BY <2>2, <4>1, Zenon
    <3> QED BY <2>1, <3>1, <3>2, Zenon
  <2>6. sent' # <<>>
    BY <2>1, <2>3 DEF Clean, Following
  <2> QED BY <2>1, <2>3, <2>4, <2>5, <2>6 DEF Clean, Following, ReturnSeen, LastSent
<1>2. CASE CharacterLost \/ CharacterReplaced
  <2>1. spoilt' = TRUE /\ UNCHANGED <<sent, heard, isLastByteCR>> /\ line # <<>>
    BY <1>2 DEF CharacterLost, CharacterReplaced, recvVars
  <2> QED BY <2>1 DEF Clean, Following, ReturnSeen
<1> QED BY <1>1, <1>2 DEF LineStep

LEMMA CleanUart ==
  ASSUME MasterFrames, IInv, Clean, UartByte
  PROVE  Clean'
<1> DEFINE c == Head(line)
<1>1. line # <<>> /\ line' = Tail(line) /\ UNCHANGED <<spoilt, sent>> /\ line \in Seq(Byte)
  BY DEF UartByte, IInv, Typed
<1>2. sent # <<>> /\ LastSent \in Frames /\ LastSent \in Seq(Byte)
  BY <1>1, LastIsFrame DEF Clean, Following
<1>3. Following'
  <2>1. ~spoilt => EndOf(line', LastSent)
    BY <1>1, <1>2, TailIsEnd DEF Clean, Following
  <2> QED BY <1>1, <1>2, <2>1 DEF Clean, Following, LastSent
<1>4. ReturnSeen'
  <2> SUFFICES ASSUME ~spoilt, line' = <<LF>>, heard' # <<>>, heard'[1] = COLON
               PROVE  isLastByteCR'
    BY <1>1 DEF ReturnSeen
  <2>1. c = CR
    <3>1. EndOf(line, LastSent)
      BY <1>2 DEF Clean, Following
    <3> QED BY <1>1, <1>2, <3>1, BeforeLast
  <2>2. CR # LF /\ CR # COLON
    BY DEF CR, LF, COLON
  <2>3. ~ByteWhileBusy
    BY DEF ByteWhileBusy, recvVars, IInv, Owned
  <2>4. ~FirstByte(c)
    <3>1. SUFFICES ASSUME FirstByte(c) PROVE FALSE
      OBVIOUS
    <3>2. Len(heard) = 0 /\ heard \in Seq(Byte)
      BY <3>1, Sizes DEF FirstByte, IInv, Typed, Collected
    <3>3. heard' = Append(heard, c)
      BY <2>1, <2>2, <3>1 DEF FirstByte, Hears
    <3>4. heard'[1] = c
      BY <1>1, <3>2, <3>3
    <3> QED BY <2>1, <2>2, <3>4
  <2> QED BY <2>1, <2>2, <2>3, <2>4 DEF UartByte, CarriageReturn, FrameByte
<1> QED BY <1>3, <1>4 DEF Clean

LEMMA CleanMain ==
  ASSUME Clean, MainStep
  PROVE  Clean'
<1>1. UNCHANGED <<line, spoilt, sent, isLastByteCR, heard>>
  BY DEF MainStep, MainPoll, MainSwitch, HandleFrame, GiveBack, lineVars, recvVars
<1> QED BY <1>1 DEF Clean, Following, ReturnSeen, LastSent

LEMMA CleanAlways == MasterFrames /\ Spec => []Clean
<1>1. MasterFrames /\ IInv /\ Clean /\ [Next]_vars => Clean'
  <2>1. ASSUME Clean, UNCHANGED vars PROVE Clean'
    BY <2>1 DEF vars, lineVars, recvVars, Clean, Following, ReturnSeen, LastSent
  <2> QED BY <2>1, CleanLine, CleanUart, CleanMain DEF Next
<1>2. MasterFrames => MasterFrames'
  BY DEF MasterFrames
<1> QED BY <1>1, <1>2, CleanInit, InvAlways, PTL DEF Spec

\* A frame that arrives as it was sent and was heard from its colon on is handed over, whatever
\* was on the line before and wherever the main loop is (modbus_ascii.c 161-207).
THEOREM IntactFramesTaken == MasterFrames /\ Spec => CleanFrameTaken
<1> DEFINE Arrived == /\ line = <<LF>> /\ line' = <<>> /\ ~spoilt'
                      /\ heard = SubSeq(LastSent, 1, Len(LastSent) - 2)
<1>1. ASSUME MasterFrames, IInv, Clean, [Next]_vars, Arrived PROVE busy'
  <2>1. line # <<>> /\ line # line' /\ Head(line) = LF
    BY <1>1
  <2>2. UartByte
    <3>1. ~MasterSends /\ ~CharacterLost
      BY <1>1, <2>1 DEF MasterSends, CharacterLost
    <3>2. ~CharacterReplaced
      BY <1>1 DEF CharacterReplaced
    <3>3. ~MainStep
      BY <2>1 DEF MainStep, MainPoll, MainSwitch, HandleFrame, GiveBack, lineVars
    <3> QED BY <1>1, <2>1, <3>1, <3>2, <3>3 DEF Next, LineStep, vars, lineVars
  <2>3. sent # <<>> /\ LastSent \in Frames /\ LastSent \in Seq(Byte)
    BY <1>1, <2>1, LastIsFrame DEF Clean, Following
  <2>4. /\ Len(LastSent) >= 5 /\ Len(LastSent) % 2 = 1 /\ Len(LastSent) - 2 <= BufSize
        /\ LastSent[1] = COLON
    BY <1>1, <2>3 DEF MasterFrames
  <2>5. heard \in Seq(Byte) /\ Len(heard) = Len(LastSent) - 2 /\ heard[1] = COLON
    BY <1>1, <2>3, <2>4
  <2>6. heard # <<>>
    BY <2>4, <2>5
  <2>7. ~busy
    BY <1>1, <2>6 DEF IInv, Owned
  <2>8. bIndex = Len(heard) /\ bIndex % 2 = 1 /\ bIndex > 0
    BY <1>1, <2>3, <2>4, <2>5, <2>7, Sizes, EvenSize DEF IInv, Collected
  <2>9. isLastByteCR
    <3>1. ~spoilt
      BY <1>1, <2>2 DEF UartByte
    <3> QED BY <1>1, <2>5, <2>6, <3>1 DEF Clean, ReturnSeen
  <2>10. LineFeed
    <3>1. ~ByteWhileBusy /\ ~FirstByte(LF)
      BY <2>7, <2>8 DEF ByteWhileBusy, FirstByte
    <3>2. LF # CR
      BY DEF LF, CR
    <3> QED BY <2>1, <2>2, <3>1, <3>2 DEF UartByte, FrameByte
  <2> QED BY <2>8, <2>9, <2>10 DEF LineFeed, FrameEnds
<1>2. MasterFrames /\ IInv /\ Clean /\ [Next]_vars => [Arrived => busy']_vars
  BY <1>1
<1>3. MasterFrames => MasterFrames'
  BY DEF MasterFrames
<1>4. [Arrived => busy']_vars =>
        [line = <<LF>> /\ line' = <<>> /\ ~spoilt'
          /\ heard = SubSeq(sent[Len(sent)], 1, Len(sent[Len(sent)]) - 2)
           => busy']_vars
  BY DEF LastSent
<1> HIDE DEF Arrived
<1> QED BY <1>2, <1>3, <1>4, CleanAlways, InvAlways, PTL DEF Spec, CleanFrameTaken

-----------------------------------------------------------------------------
(***************************************************************************)
(* The setpoint.                                                           *)
(*                                                                         *)
(* The receiver takes whatever stands between a colon and CR LF, so a lost *)
(* colon or line end makes it merge the rest of one frame with the next    *)
(* one.  What it merges is harmless: read as a command for the setpoint it *)
(* is a frame that was sent, followed by something, or a frame with just   *)
(* one wrong digit, which the checksum reveals.  That holds for requests   *)
(* like those of the master, because no rest of one looks like the         *)
(* beginning of a command, and would not hold for any frames.              *)
(***************************************************************************)
ZERO == 48
ONE  == 49
SIX  == 54

\* What may arrive: digits, colons and line ends.
Chars == {c \in Byte : IsHex(c) \/ c \in {COLON, CR, LF}}

\* A character that is replaced remains one of them.
HexNoise == Noise \subseteq Chars

\* Requests as the master sends them: device 1, a function from 2 to 15, a register below 2, any
\* 16-bit value and the right checksum (modbus-request.ts 85-115, hot-water-controller.ts 76-129).
Requests ==
  \A f \in Frames :
    /\ Len(f) = 17 /\ f[1] = COLON /\ f[16] = CR /\ f[17] = LF
    /\ \A i \in 2..15 : IsHex(f[i])
    /\ f[2] = ZERO /\ f[3] = ONE /\ f[4] = ZERO /\ f[5] \notin {ZERO, ONE}
    /\ f[6] = ZERO /\ f[7] = ZERO /\ f[8] = ZERO /\ f[9] \in {ZERO, ONE}
    /\ (HexValue(f, 2) + HexValue(f, 4) + HexValue(f, 6) + HexValue(f, 8)
        + HexValue(f, 10) + HexValue(f, 12) + HexValue(f, 14)) % 256 = 0

SentFrames == {sent[j] : j \in 1..Len(sent)}

\* The digits u would set the setpoint, were the checksum right.
Begins(u) ==
  /\ u[1] = ZERO /\ u[2] = ONE /\ u[3] = ZERO /\ u[4] = SIX
  /\ u[5] = ZERO /\ u[6] = ZERO /\ u[7] = ZERO /\ u[8] = ZERO

\* The first m digits of u, if they would set the setpoint, are a frame of S with something
\* behind it, or one with a wrong digit.
StartsWith(u, m, g) == m >= 14 /\ \A i \in 1..14 : u[i] = g[i + 1]
OneOff(u, m, g) ==
  m = 14 /\ \E p \in 1..14 : u[p] # g[p + 1] /\ \A i \in (1..14) \ {p} : u[i] = g[i + 1]
Harmless(u, m, S) ==
  m % 2 = 0 /\ m >= 10 /\ Begins(u) => \E g \in S : StartsWith(u, m, g) \/ OneOff(u, m, g)

\* The first n characters of b are those in front of and at position e of the frame f.
Suffix(b, n, f, e) == n <= e - 1 /\ \A i \in 1..n : b[i] = f[e - n + i]

\* The characters behind the first one, the colon.
Stored == bIndex - 1

\* While the last L characters of f are to come, n characters of b are the last ones that came.
Limit(L) == IF L > 2 THEN 17 - L ELSE 15
Part(b, n, L, f) == Suffix(b, n, f, Limit(L))

\* What the buffer will hold when the rest of f has come.
FutureSize(n, L) == IF L >= 2 THEN n + L - 2 ELSE n
Future(b, n, L, f) ==
  [i \in 1..FutureSize(n, L) |-> IF i <= n THEN b[i] ELSE f[17 - L + (i - n)]]
After(b, n, L, f, S) == Harmless(Future(b, n, L, f), FutureSize(n, L), S)

\* Between two frames the buffer may hold the end of g, with a digit that once was its LF.
Leftover(g) == \E y \in 0..1 : y <= Stored /\ Suffix(buffer, Stored - y, g, 15)

\* Within a frame the buffer holds a part of it; or a character of it was spoilt, and what the
\* buffer will hold is harmless; or its CR was spoilt, and no frame can end.
Fresh   == Part(buffer, Stored, Len(line), LastSent) /\ (Len(line) >= 2 => ~isLastByteCR)
Settled == /\ spoilt /\ EndOf(line, LastSent)
           /\ After(buffer, Stored, Len(line), LastSent, SentFrames)
Refused == spoilt /\ Len(line) = 1 /\ EndOf(line, LastSent) /\ ~isLastByteCR

Gathered ==
  ~busy /\ bIndex > 0 /\ bIndex < BufSize =>
    IF Len(line) \in {0, 17} THEN \E g \in SentFrames : Leftover(g)
    ELSE Fresh \/ Settled \/ Refused

\* The line holds the rest of the last frame, its first character possibly spoilt.
Rest ==
  /\ sent \in Seq(Frames)
  /\ sent = <<>> => line = <<>> /\ bIndex = 0 /\ ~busy
  /\ line # <<>> =>
       /\ Head(line) \in Chars /\ Len(line) <= 17
       /\ EndOf(Tail(line), LastSent) /\ (~spoilt => EndOf(line, LastSent))

\* What the main loop is given is harmless, until it has been executed.
Given ==
  busy /\ at \in {"poll", "frame"} =>
    bIndex % 2 = 1 /\ Harmless(buffer, Stored, SentFrames)

NoReturn == busy \/ bIndex = 0 => ~isLastByteCR

\* The buffer holds digits, behind a character that is no address.
Readable ==
  ~busy \/ at \in {"poll", "frame"} =>
    /\ bIndex > 0 => buffer[0] \in Chars
    /\ \A i \in 1..Stored : IsHex(buffer[i])

Kept == buffer \in Buffers /\ isLastByteCR \in BOOLEAN /\ setpoint \in Words

\* SetpointSent, said of the set of frames.
Written == setpoint # 0 => \E g \in SentFrames : setpoint \in Writes(g)

SafeSetpoint == Kept /\ Rest /\ Gathered /\ Given /\ NoReturn /\ Readable /\ Written

-----------------------------------------------------------------------------
(* Strings of digits.                                                      *)

\* The digits of a frame, and what the checksum excludes.
LEMMA FrameDigits ==
  ASSUME Requests, NEW f \in Frames
  PROVE  /\ f[2] = 48 /\ f[3] = 49 /\ f[4] = 48 /\ f[5] # 48 /\ f[5] # 49
         /\ f[6] = 48 /\ f[7] = 48 /\ f[8] = 48 /\ f[9] \in {48, 49}
         /\ ~(/\ f[9] = 49 /\ f[10] = 48 /\ f[11] = 54 /\ f[12] = 48 /\ f[13] = 48
              /\ f[14] = 48 /\ f[15] = 48)
         /\ ~(/\ f[9] = 48 /\ f[10] = 49 /\ f[11] = 48 /\ f[12] = 54 /\ f[13] = 48
              /\ f[14] = 48 /\ f[15] = 48)
         /\ ~(/\ f[10] = 48 /\ f[11] = 49 /\ f[12] = 48 /\ f[13] = 54
              /\ f[14] = 48 /\ f[15] = 48)
<1>1. /\ f[2] = 48 /\ f[3] = 49 /\ f[4] = 48 /\ f[5] # 48 /\ f[5] # 49
      /\ f[6] = 48 /\ f[7] = 48 /\ f[8] = 48 /\ f[9] \in {48, 49}
      /\ (HexValue(f, 2) + HexValue(f, 4) + HexValue(f, 6) + HexValue(f, 8)
          + HexValue(f, 10) + HexValue(f, 12) + HexValue(f, 14)) % 256 = 0
      /\ IsHex(f[5])
  BY DEF Requests, ZERO, ONE
<1> DEFINE v == Nibble(f[5])
<1>2. v \in 2..15
  BY <1>1 DEF IsHex, Nibble
<1>3. HexValue(f, 2) = 1 /\ HexValue(f, 4) = v /\ HexValue(f, 6) = 0
  BY <1>1, <1>2 DEF HexValue, Nibble
<1> HIDE DEF v
<1>4. ASSUME f[9] = 49, f[10] = 48, f[11] = 54, f[12] = 48, f[13] = 48, f[14] = 48, f[15] = 48
      PROVE  FALSE
  <2>1. HexValue(f, 8) = 1 /\ HexValue(f, 10) = 6 /\ HexValue(f, 12) = 0 /\ HexValue(f, 14) = 0
    BY <1>1, <1>4 DEF HexValue, Nibble
  <2> QED BY <1>1, <1>2, <1>3, <2>1
<1>5. ASSUME f[9] = 48, f[10] = 49, f[11] = 48, f[12] = 54, f[13] = 48, f[14] = 48, f[15] = 48
      PROVE  FALSE
  <2>1. HexValue(f, 8) = 0 /\ HexValue(f, 10) = 16 /\ HexValue(f, 12) = 96 /\ HexValue(f, 14) = 0
    BY <1>1, <1>5 DEF HexValue, Nibble
  <2> QED BY <1>1, <1>2, <1>3, <2>1
<1>6. ASSUME f[10] = 48, f[11] = 49, f[12] = 48, f[13] = 54, f[14] = 48, f[15] = 48
      PROVE  FALSE
  <2>1. HexValue(f, 8) \in {0, 1} /\ HexValue(f, 10) = 1 /\ HexValue(f, 12) = 6
        /\ HexValue(f, 14) = 0
    BY <1>1, <1>6 DEF HexValue, Nibble
  <2> QED BY <1>1, <1>2, <1>3, <2>1
<1> QED BY <1>1, <1>4, <1>5, <1>6

\* What is left of a frame, with one more digit or without, is no frame unless it is whole.
LEMMA LeftoverHarmless ==
  ASSUME Requests, NEW S, NEW g \in S, g \in Frames, NEW u, NEW n \in Nat, NEW y \in 0..1,
         y <= n, Suffix(u, n - y, g, 15)
  PROVE  Harmless(u, n, S)
<1> SUFFICES ASSUME n % 2 = 0, n >= 10, Begins(u) PROVE StartsWith(u, n, g)
  BY DEF Harmless
<1> DEFINE r == n - y
<1>1. r \in 9..14 /\ \A i \in 1..r : u[i] = g[15 - r + i]
  BY DEF Suffix
<1> HIDE DEF r
<1>2. /\ u[1] = 48 /\ u[2] = 49 /\ u[3] = 48 /\ u[4] = 54
      /\ u[5] = 48 /\ u[6] = 48 /\ u[7] = 48 /\ u[8] = 48
  BY DEF Begins, ZERO, ONE, SIX
<1>3. u[1] = g[16 - r] /\ u[2] = g[17 - r] /\ u[3] = g[18 - r] /\ u[4] = g[19 - r]
  BY <1>1
<1>4. r = 14
  BY <1>1, <1>2, <1>3, FrameDigits
<1> QED BY <1>1, <1>4 DEF StartsWith, r

\* Two frames that merged: the first one is executed if it is whole, and the second one if
\* nothing is in front of it.
LEMMA MergedHarmless ==
  ASSUME Requests, NEW S, NEW g \in S, g \in Frames, NEW f \in S, f \in Frames,
         NEW u, NEW n \in Nat, NEW y \in 0..2, y <= n,
         Suffix(u, n - y, g, 15), \A j \in 1..14 : u[n + j] = f[j + 1]
  PROVE  Harmless(u, n + 14, S)
<1> SUFFICES ASSUME (n + 14) % 2 = 0, Begins(u)
             PROVE  StartsWith(u, n + 14, g) \/ StartsWith(u, n + 14, f)
  BY DEF Harmless
<1> DEFINE r == n - y
<1>1. r \in 0..14 /\ n = r + y /\ \A i \in 1..r : u[i] = g[15 - r + i]
  BY DEF Suffix
<1> HIDE DEF r
<1>2. /\ u[1] = 48 /\ u[2] = 49 /\ u[3] = 48 /\ u[4] = 54
      /\ u[5] = 48 /\ u[6] = 48 /\ u[7] = 48 /\ u[8] = 48
  BY DEF Begins, ZERO, ONE, SIX
<1>3. CASE r = 14
  BY <1>1, <1>3 DEF StartsWith
<1>4. CASE n = 0
  BY <1>4 DEF StartsWith
<1>5. CASE r \in 9..13
  <2>1. u[1] = g[16 - r] /\ u[2] = g[17 - r] /\ u[3] = g[18 - r] /\ u[4] = g[19 - r]
    BY <1>1, <1>5
  <2> QED BY <1>2, <1>5, <2>1, FrameDigits
<1>6. CASE r = 8
  <2>1. /\ u[1] = g[8] /\ u[2] = g[9] /\ u[3] = g[10] /\ u[4] = g[11] /\ u[5] = g[12]
        /\ u[6] = g[13] /\ u[7] = g[14] /\ u[8] = g[15]
    BY <1>1, <1>6
  <2> QED BY <1>2, <2>1, FrameDigits
<1>7. CASE r = 7
  <2>1. /\ u[1] = g[9] /\ u[2] = g[10] /\ u[3] = g[11] /\ u[4] = g[12] /\ u[5] = g[13]
        /\ u[6] = g[14] /\ u[7] = g[15]
    BY <1>1, <1>7
  <2> QED BY <1>2, <2>1, FrameDigits
<1>8. CASE r = 6 /\ y = 2
  <2>1. /\ u[1] = g[10] /\ u[2] = g[11] /\ u[3] = g[12] /\ u[4] = g[13] /\ u[5] = g[14]
        /\ u[6] = g[15]
    BY <1>1, <1>8
  <2> QED BY <1>2, <2>1, FrameDigits
<1>9. CASE n \in 1..6
  <2>1. u[n + 2] = 49
    BY FrameDigits
  <2>2. n = 2 \/ n = 4 \/ n = 6
    BY <1>9
  <2> QED BY <1>2, <2>1, <2>2
<1> QED BY <1>1, <1>3, <1>4, <1>5, <1>6, <1>7, <1>8, <1>9

\* A frame or the rest of one that lacks a digit.
LEMMA GapHarmless ==
  ASSUME Requests, NEW S, NEW f \in S, f \in Frames, NEW u, NEW n \in Nat, NEW e \in 1..14,
         Suffix(u, n, f, e), \A j \in 1..(14 - e) : u[n + j] = f[e + 1 + j]
  PROVE  Harmless(u, n + 14 - e, S)
<1> SUFFICES ASSUME (n + 14 - e) % 2 = 0, n + 14 - e >= 10, Begins(u) PROVE FALSE
  BY DEF Harmless
<1> DEFINE s == e - n
<1>1. s \in 1..4 /\ n = e - s /\ \A i \in 1..n : u[i] = f[s + i]
  BY DEF Suffix
<1> HIDE DEF s
<1>2. u[1] = 48 /\ u[2] = 49
  BY DEF Begins, ZERO, ONE
<1>3. s = 2 \/ s = 4
  BY <1>1
<1>4. n >= 1 => u[1] = f[s + 1]
  BY <1>1
<1>5. n = 0 => e = s /\ u[1] = f[s + 2] /\ u[2] = f[s + 3]
  BY <1>1
<1> QED BY <1>1, <1>2, <1>3, <1>4, <1>5, FrameDigits

\* A frame or the rest of one with a wrong digit.
LEMMA WrongHarmless ==
  ASSUME Requests, NEW S, NEW f \in S, f \in Frames, NEW u, NEW n \in Nat, NEW e \in 1..14,
         Suffix(u, n, f, e), u[n + 1] # f[e + 1],
         \A j \in 2..(15 - e) : u[n + j] = f[e + j]
  PROVE  Harmless(u, n + 15 - e, S)
<1> SUFFICES ASSUME (n + 15 - e) % 2 = 0, n + 15 - e >= 10, Begins(u)
             PROVE  OneOff(u, n + 15 - e, f)
  BY DEF Harmless
<1> DEFINE s == e - n
<1>1. s \in 1..5 /\ n = e - s /\ e = n + s /\ \A i \in 1..n : u[i] = f[s + i]
  <2>1. s \in 1..5 /\ n = e - s /\ e = n + s
    BY DEF Suffix
  <2> QED BY <2>1 DEF Suffix
<1> HIDE DEF s
<1>2. \A i \in 1..(15 - s) : i # n + 1 => u[i] = f[s + i]
  <2> SUFFICES ASSUME NEW i \in 1..(15 - s), i # n + 1 PROVE u[i] = f[s + i]
    OBVIOUS
  <2>1. CASE i <= n
    BY <1>1, <2>1
  <2>2. CASE i > n
    <3>1. i - n \in 2..(15 - e) /\ n + (i - n) = i /\ e + (i - n) = s + i
      BY <1>1, <2>2
    <3> QED BY <3>1
  <2> QED BY <1>1, <2>1, <2>2
<1>3. u[2] = 49 /\ u[4] = 54
  BY DEF Begins, ONE, SIX
<1>4. CASE s = 1
  <2>1. n + 1 \in 1..14 /\ n + 15 - e = 14 /\ e + 1 = (n + 1) + 1
    BY <1>1, <1>4
  <2>2. \A i \in (1..14) \ {n + 1} : u[i] = f[i + 1]
    BY <1>2, <1>4
  <2> QED BY <2>1, <2>2 DEF OneOff
<1>5. CASE s = 3
  <2>1. u[2] = f[5] \/ u[4] = f[7]
    BY <1>1, <1>2, <1>5
  <2> QED BY <1>3, <2>1, FrameDigits
<1>6. CASE s = 5
  <2>1. u[2] = f[7] \/ u[4] = f[9]
    BY <1>1, <1>2, <1>6
  <2> QED BY <1>3, <2>1, FrameDigits
<1>7. s = 1 \/ s = 3 \/ s = 5
  BY <1>1
<1> QED BY <1>4, <1>5, <1>6, <1>7

-----------------------------------------------------------------------------
(* The line.                                                               *)

LEMMA Element ==
  ASSUME NEW S, NEW s \in Seq(S), NEW i \in 1..Len(s)
  PROVE  s[i] \in S
OBVIOUS

LEMMA NonEmpty ==
  ASSUME NEW S, NEW s \in Seq(S), s # <<>>
  PROVE  /\ Len(s) \in Nat /\ Len(s) >= 1 /\ Head(s) = s[1]
         /\ Tail(s) \in Seq(S) /\ Len(Tail(s)) = Len(s) - 1
OBVIOUS

\* The characters of a frame.
LEMMA FrameChars ==
  ASSUME Requests, NEW f \in Frames
  PROVE  /\ f \in Seq(Byte) /\ Len(f) = 17
         /\ f[1] = COLON /\ f[16] = CR /\ f[17] = LF
         /\ \A i \in 2..15 : IsHex(f[i])
         /\ \A i \in 1..17 : f[i] \in Chars
<1>1. /\ f \in Seq(Byte) /\ Len(f) = 17
      /\ f[1] = COLON /\ f[16] = CR /\ f[17] = LF
      /\ \A i \in 2..15 : IsHex(f[i])
  BY Sent DEF Requests
<1>2. ASSUME NEW i \in 1..17 PROVE f[i] \in Chars
  <2>1. f[i] \in Byte
    BY <1>1, Element
  <2>2. i = 1 \/ i = 16 \/ i = 17 \/ i \in 2..15
    OBVIOUS
  <2> QED BY <1>1, <2>1, <2>2 DEF Chars
<1> QED BY <1>1, <1>2

LEMMA CharKinds ==
  /\ COLON # CR /\ COLON # LF /\ CR # LF
  /\ \A c : IsHex(c) => c # COLON /\ c # CR /\ c # LF
  /\ \A c \in Chars : c # COLON /\ c # CR /\ c # LF => IsHex(c)
  /\ \A c \in Chars : c # 1 /\ c \in Byte
  /\ {COLON, CR, LF} \subseteq Chars
BY DEF Chars, IsHex, COLON, CR, LF, Byte

LEMMA Within17 == \A n \in Nat : n >= 1 /\ n <= 17 => n \in 1..17
OBVIOUS

LEMMA Of17 == \A n \in 1..17 : n >= 1 /\ n <= 17 /\ n \in Nat
OBVIOUS

\* What an intact end of a frame consists of.
LEMMA EndChars ==
  ASSUME Requests, NEW f \in Frames, NEW s \in Seq(Byte), EndOf(s, f), s # <<>>
  PROVE  /\ Len(s) \in 1..17 /\ Head(s) = f[18 - Len(s)] /\ Head(s) \in Chars
         /\ Tail(s) \in Seq(Byte) /\ Len(Tail(s)) = Len(s) - 1 /\ EndOf(Tail(s), f)
<1>1. Len(f) = 17 /\ f \in Seq(Byte) /\ \A i \in 1..17 : f[i] \in Chars
  BY FrameChars
<1>2. /\ Len(s) \in Nat /\ Len(s) >= 1 /\ Head(s) = s[1]
      /\ Tail(s) \in Seq(Byte) /\ Len(Tail(s)) = Len(s) - 1
  BY NonEmpty, Zenon
<1>3. Len(s) <= 17 /\ \A i \in 1..Len(s) : s[i] = f[17 - Len(s) + i]
  BY <1>1, Zenon DEF EndOf
<1>4. Head(s) = f[18 - Len(s)] /\ 18 - Len(s) \in 1..17
  <2>1. s[1] = f[17 - Len(s) + 1] /\ 17 - Len(s) + 1 = 18 - Len(s)
    BY <1>2, <1>3
  <2> QED BY <1>2, <1>3, <2>1
<1>5. Len(s) \in 1..17
  BY <1>2, <1>3, Within17, Zenon
<1>6. EndOf(Tail(s), f)
  BY <1>1, TailIsEnd, Zenon
<1> QED BY <1>1, <1>2, <1>4, <1>5, <1>6, Zenon

LEMMA EndRest ==
  ASSUME Requests, NEW f \in Frames, NEW s \in Seq(Byte), EndOf(s, f)
  PROVE  s # <<>> => Head(s) \in Chars /\ Len(s) <= 17 /\ EndOf(Tail(s), f)
<1> SUFFICES ASSUME s # <<>> PROVE Head(s) \in Chars /\ Len(s) <= 17 /\ EndOf(Tail(s), f)
  OBVIOUS
<1>1. Len(s) \in 1..17 /\ Head(s) \in Chars /\ EndOf(Tail(s), f)
  BY EndChars, Zenon
<1> QED BY <1>1, Of17, Zenon

\* What Rest says of a line that is not empty.
LEMMA LineChars ==
  ASSUME Requests, IInv, Rest, line # <<>>
  PROVE  /\ sent # <<>> /\ LastSent \in Frames /\ LastSent \in SentFrames
         /\ Len(line) \in 1..17 /\ Head(line) \in Chars
         /\ Tail(line) \in Seq(Byte) /\ Len(Tail(line)) = Len(line) - 1
         /\ EndOf(Tail(line), LastSent)
         /\ ~spoilt => Head(line) = LastSent[18 - Len(line)]
<1>1. line \in Seq(Byte) /\ sent # <<>> /\ sent \in Seq(Frames)
  BY DEF IInv, Typed, Rest
<1>2. Len(sent) \in 1..Len(sent) /\ LastSent \in Frames
  BY <1>1 DEF LastSent
<1>3. LastSent \in SentFrames
  BY <1>2 DEF LastSent, SentFrames
<1>4. Len(line) \in 1..17 /\ Tail(line) \in Seq(Byte) /\ Len(Tail(line)) = Len(line) - 1
  <2>1. /\ Len(line) \in Nat /\ Len(line) >= 1
        /\ Tail(line) \in Seq(Byte) /\ Len(Tail(line)) = Len(line) - 1
    BY <1>1, NonEmpty, Zenon
  <2>2. Len(line) <= 17
    BY DEF Rest
  <2> QED BY <2>1, <2>2, Within17, Zenon
<1>5. ~spoilt => Head(line) = LastSent[18 - Len(line)]
  BY <1>1, <1>2, EndChars DEF Rest
<1> QED BY <1>1, <1>2, <1>3, <1>4, <1>5 DEF Rest

LEMMA SentGrows ==
  ASSUME NEW f \in Frames, sent \in Seq(Frames), sent' = Append(sent, f)
  PROVE  /\ sent' \in Seq(Frames) /\ sent' # <<>> /\ LastSent' = f
         /\ SentFrames \subseteq SentFrames'
<1>1. /\ sent' \in Seq(Frames) /\ Len(sent') = Len(sent) + 1 /\ sent'[Len(sent) + 1] = f
      /\ \A j \in 1..Len(sent) : sent'[j] = sent[j]
  OBVIOUS
<1> QED BY <1>1 DEF LastSent, SentFrames

LEMMA HarmlessStays ==
  ASSUME NEW S, NEW R, S \subseteq R, NEW u, NEW m, Harmless(u, m, S)
  PROVE  Harmless(u, m, R)
BY DEF Harmless

LEMMA RestInit == Init => Rest
BY DEF Init, Rest

LEMMA RestLine ==
  ASSUME Requests, HexNoise, IInv, Rest, LineStep
  PROVE  Rest'
<1>1. CASE MasterSends
  <2>1. PICK f \in Frames : line' = f /\ sent' = Append(sent, f)
    BY <1>1 DEF MasterSends
  <2>2. sent' \in Seq(Frames) /\ sent' # <<>> /\ LastSent' = f
    BY <2>1, SentGrows DEF Rest
  <2>3. f \in Seq(Byte) /\ Len(f) = 17 /\ f # <<>>
    BY FrameChars
  <2>4. EndOf(f, f)
    BY <2>3 DEF EndOf
  <2>5. Head(f) \in Chars /\ EndOf(Tail(f), f)
    BY <2>3, <2>4, EndChars
  <2> QED BY <2>1, <2>2, <2>3, <2>4, <2>5 DEF Rest
<1>2. CASE CharacterLost
  <2>1. /\ line # <<>> /\ ~spoilt /\ line' = Tail(line) /\ spoilt' /\ sent' = sent
        /\ bIndex' = bIndex /\ busy' = busy
    BY <1>2 DEF CharacterLost, recvVars
  <2>2. LastSent \in Frames /\ EndOf(line', LastSent) /\ line' \in Seq(Byte) /\ sent # <<>>
    BY <2>1, LineChars
  <2>3. line' # <<>> => Head(line') \in Chars /\ Len(line') <= 17 /\ EndOf(Tail(line'), LastSent)
    BY <2>2, EndRest
  <2> QED BY <2>1, <2>2, <2>3 DEF Rest, LastSent
<1>3. CASE CharacterReplaced
  <2>1. PICK c \in Noise : line' = <<c>> \o Tail(line)
    BY <1>3 DEF CharacterReplaced
  <2>2. line # <<>> /\ spoilt' /\ sent' = sent
    BY <1>3 DEF CharacterReplaced
  <2>3. /\ sent # <<>> /\ Len(line) \in 1..17
        /\ Tail(line) \in Seq(Byte) /\ Len(Tail(line)) = Len(line) - 1
        /\ EndOf(Tail(line), LastSent)
    BY <2>2, LineChars
  <2>4. Head(line') = c /\ Tail(line') = Tail(line) /\ Len(line') = Len(line)
    BY <2>1, <2>3, Sent
  <2>5. c \in Chars
    BY DEF HexNoise
  <2> QED BY <2>2, <2>3, <2>4, <2>5 DEF Rest, LastSent
<1> QED BY <1>1, <1>2, <1>3 DEF LineStep

LEMMA RestUart ==
  ASSUME Requests, IInv, Rest, UartByte
  PROVE  Rest'
<1>1. line # <<>> /\ line' = Tail(line) /\ UNCHANGED <<spoilt, sent>>
  BY DEF UartByte
<1>2. LastSent \in Frames /\ EndOf(line', LastSent) /\ line' \in Seq(Byte) /\ sent # <<>>
  BY <1>1, LineChars
<1>3. line' # <<>> => Head(line') \in Chars /\ Len(line') <= 17 /\ EndOf(Tail(line'), LastSent)
  BY <1>2, EndRest
<1> QED BY <1>1, <1>2, <1>3 DEF Rest, LastSent

LEMMA RestMain ==
  ASSUME IInv, Rest, MainStep
  PROVE  Rest'
<1>1. UNCHANGED <<line, spoilt, sent>>
  BY DEF MainStep, MainPoll, MainSwitch, HandleFrame, GiveBack, lineVars
<1>2. sent = <<>> => bIndex' = 0 /\ ~busy'
  BY DEF Rest, MainStep, MainPoll, MainSwitch, HandleFrame, GiveBack, recvVars, IInv, Owned
<1> QED BY <1>1, <1>2 DEF Rest, LastSent

-----------------------------------------------------------------------------
(* The checksum of short frames.                                           *)

LEMMA LrcOfBytes ==
  ASSUME NEW b, NEW n \in 1..6, \A i \in 0..5 : b[i] \in Int
  PROVE  \E s : /\ s[0] = 0 /\ \A i \in 1..n : s[i] = s[i - 1] + b[i - 1]
                /\ Lrc(b, n) = (256 - (s[n] % 256)) % 256
<1> DEFINE Sums(s) == s = [i \in 0..n |-> IF i = 0 THEN 0 ELSE s[i - 1] + b[i - 1]]
           w == [i \in 0..n |-> CASE i = 0 -> 0
                                  [] i = 1 -> b[0]
                                  [] i = 2 -> b[0] + b[1]
                                  [] i = 3 -> b[0] + b[1] + b[2]
                                  [] i = 4 -> b[0] + b[1] + b[2] + b[3]
                                  [] i = 5 -> b[0] + b[1] + b[2] + b[3] + b[4]
                                  [] i = 6 -> b[0] + b[1] + b[2] + b[3] + b[4] + b[5]]
           sum == CHOOSE s : Sums(s)
<1>1. Sums(w)
  <2>1. ASSUME NEW i \in 1..n PROVE w[i] = w[i - 1] + b[i - 1]
    <3>1. i = 1 \/ i = 2 \/ i = 3 \/ i = 4 \/ i = 5 \/ i = 6
      OBVIOUS
    <3>2. CASE i = 1
      BY <3>2
    <3>3. CASE i = 2
      BY <3>3
    <3>4. CASE i = 3
      BY <3>4
    <3>5. CASE i = 4
      BY <3>5
    <3>6. CASE i = 5
      BY <3>6
    <3>7. CASE i = 6
      BY <3>7
    <3> QED BY <3>1, <3>2, <3>3, <3>4, <3>5, <3>6, <3>7
  <2>2. w[0] = 0
    OBVIOUS
  <2>3. w = [i \in 0..n |-> w[i]]
    OBVIOUS
  <2> HIDE DEF w
  <2>4. \A i \in 0..n : w[i] = IF i = 0 THEN 0 ELSE w[i - 1] + b[i - 1]
    BY <2>1, <2>2
  <2> QED BY <2>3, <2>4
<1>2. Sums(sum)
  <2> HIDE DEF Sums, w
  <2> QED BY <1>1
<1>3. Lrc(b, n) = (256 - (sum[n] % 256)) % 256
  BY DEF Lrc
<1> HIDE DEF sum
<1>4. sum[0] = 0 /\ \A i \in 1..n : sum[i] = sum[i - 1] + b[i - 1]
  BY <1>2
<1> QED BY <1>3, <1>4

\* The checksums of the shortest frames with a function of the setpoint, and the sum of a
\* whole one.
LEMMA ShortLrc ==
  ASSUME NEW b \in Buffers
  PROVE  /\ Lrc(b, 0) = 0
         /\ b[0] = 1 => Lrc(b, 1) = 255
         /\ b[0] = 1 /\ b[1] = 6 => Lrc(b, 2) = 249
         /\ b[0] = 1 /\ b[1] = 6 /\ b[2] = 0 => Lrc(b, 3) = 249
         /\ Lrc(b, 6) = b[6] => (b[0] + b[1] + b[2] + b[3] + b[4] + b[5] + b[6]) % 256 = 0
<1>1. \A i \in 0..6 : b[i] \in Byte /\ b[i] \in Int
  <2>1. \A i \in 0..6 : b[i] \in Byte
    BY Sizes DEF Buffers
  <2> QED BY <2>1, ByteIs
<1>2. Lrc(b, 0) = 0
  BY DEF Lrc
<1>3. b[0] = 1 => Lrc(b, 1) = 255
  <2>1. PICK s : /\ s[0] = 0 /\ \A i \in 1..1 : s[i] = s[i - 1] + b[i - 1]
                 /\ Lrc(b, 1) = (256 - (s[1] % 256)) % 256
    BY <1>1, LrcOfBytes
  <2>2. s[1] = s[0] + b[0]
    BY <2>1
  <2> QED BY <2>1, <2>2
<1>4. b[0] = 1 /\ b[1] = 6 => Lrc(b, 2) = 249
  <2>1. PICK s : /\ s[0] = 0 /\ \A i \in 1..2 : s[i] = s[i - 1] + b[i - 1]
                 /\ Lrc(b, 2) = (256 - (s[2] % 256)) % 256
    BY <1>1, LrcOfBytes
  <2>2. s[1] = s[0] + b[0] /\ s[2] = s[1] + b[1]
    BY <2>1
  <2> QED BY <2>1, <2>2
<1>5. b[0] = 1 /\ b[1] = 6 /\ b[2] = 0 => Lrc(b, 3) = 249
  <2>1. PICK s : /\ s[0] = 0 /\ \A i \in 1..3 : s[i] = s[i - 1] + b[i - 1]
                 /\ Lrc(b, 3) = (256 - (s[3] % 256)) % 256
    BY <1>1, LrcOfBytes
  <2>2. s[1] = s[0] + b[0] /\ s[2] = s[1] + b[1] /\ s[3] = s[2] + b[2]
    BY <2>1
  <2> QED BY <2>1, <2>2
<1>6. Lrc(b, 6) = b[6] => (b[0] + b[1] + b[2] + b[3] + b[4] + b[5] + b[6]) % 256 = 0
  <2> SUFFICES ASSUME Lrc(b, 6) = b[6]
               PROVE  (b[0] + b[1] + b[2] + b[3] + b[4] + b[5] + b[6]) % 256 = 0
    OBVIOUS
  <2>1. PICK s : /\ s[0] = 0 /\ \A i \in 1..6 : s[i] = s[i - 1] + b[i - 1]
                 /\ Lrc(b, 6) = (256 - (s[6] % 256)) % 256
    BY <1>1, LrcOfBytes
  <2> DEFINE t == b[0] + b[1] + b[2] + b[3] + b[4] + b[5]
  <2>2. s[6] = t
    <3>1. /\ s[1] = s[0] + b[0] /\ s[2] = s[1] + b[1] /\ s[3] = s[2] + b[2]
          /\ s[4] = s[3] + b[3] /\ s[5] = s[4] + b[4] /\ s[6] = s[5] + b[5]
      BY <2>1
    <3> QED BY <1>1, <2>1, <3>1
  <2>3. t \in Int
    BY <1>1
  <2> HIDE DEF t
  <2>4. (t + b[6]) % 256 = 0
    <3>1. b[6] = (256 - (t % 256)) % 256
      BY <2>1, <2>2
    <3> QED BY <2>3, <3>1
  <2> QED BY <2>4 DEF t
<1> QED BY <1>2, <1>3, <1>4, <1>5, <1>6

-----------------------------------------------------------------------------
(* What is executed.                                                       *)

LEMMA NibbleOne ==
  ASSUME NEW c, NEW d, IsHex(c), IsHex(d)
  PROVE  /\ Nibble(c) * 16 + Nibble(d) = 0 => c = 48 /\ d = 48
         /\ Nibble(c) * 16 + Nibble(d) = 1 => c = 48 /\ d = 49
         /\ Nibble(c) * 16 + Nibble(d) = 6 => c = 48 /\ d = 54
BY DEF IsHex, Nibble

LEMMA NibbleByte ==
  ASSUME NEW c, NEW d, IsHex(c), IsHex(d)
  PROVE  Nibble(c) * 16 + Nibble(d) \in Byte
<1>1. Nibble(c) \in 0..15 /\ Nibble(d) \in 0..15
  BY NibbleRange
<1> QED BY <1>1, ByteIs

LEMMA NibbleDiffers ==
  ASSUME NEW c, NEW d, IsHex(c), IsHex(d), NEW x, NEW y, IsHex(x), IsHex(y),
         (c = x /\ d # y) \/ (c # x /\ d = y)
  PROVE  Nibble(c) * 16 + Nibble(d) # Nibble(x) * 16 + Nibble(y)
BY DEF IsHex, Nibble

LEMMA ByteDifference ==
  \A x, y \in Byte : /\ x \in Int /\ y \in Int /\ x - y \in Int
                     /\ x - y < 256 /\ y - x < 256 /\ (x = y => x - y = 0)
BY ByteIs

LEMMA SameRemainder ==
  ASSUME NEW s \in Int, NEW t \in Int, NEW x \in Int, NEW y \in Int, s - t = x - y,
         s % 256 = 0, t % 256 = 0, x - y < 256, y - x < 256
  PROVE  x = y
<1>1. s - t < 256 /\ t - s < 256
  OBVIOUS
<1>2. s = t
  BY <1>1
<1> QED BY <1>2

SevenSum(b) == b[0] + b[1] + b[2] + b[3] + b[4] + b[5] + b[6]

LEMMA SumsDiffer ==
  ASSUME NEW b, b[0] \in Int, b[1] \in Int, b[2] \in Int, b[3] \in Int, b[4] \in Int,
         b[5] \in Int, b[6] \in Int,
         NEW h, h[0] \in Int, h[1] \in Int, h[2] \in Int, h[3] \in Int, h[4] \in Int,
         h[5] \in Int, h[6] \in Int
  PROVE  /\ SevenSum(b) \in Int /\ SevenSum(h) \in Int
         /\ SevenSum(b) - SevenSum(h)
              = (b[0] - h[0]) + (b[1] - h[1]) + (b[2] - h[2]) + (b[3] - h[3]) + (b[4] - h[4])
                + (b[5] - h[5]) + (b[6] - h[6])
<1>1. SevenSum(b) \in Int
  BY DEF SevenSum
<1>2. SevenSum(h) \in Int
  BY DEF SevenSum
<1>3. SevenSum(b) - SevenSum(h)
        = (b[0] - h[0]) + (b[1] - h[1]) + (b[2] - h[2]) + (b[3] - h[3]) + (b[4] - h[4])
          + (b[5] - h[5]) + (b[6] - h[6])
  BY DEF SevenSum
<1> QED BY <1>1, <1>2, <1>3

\* The sum of seven bytes shows when one of them is wrong.
LEMMA OneByteOff ==
  ASSUME NEW b, NEW h, \A i \in 0..6 : b[i] \in Byte /\ h[i] \in Byte,
         NEW k \in 0..6, \A i \in 0..6 : i # k => b[i] = h[i],
         SevenSum(b) % 256 = 0, SevenSum(h) % 256 = 0
  PROVE  b[k] = h[k]
<1>1. ASSUME NEW i \in 0..6
      PROVE  /\ b[i] \in Int /\ h[i] \in Int /\ b[i] - h[i] \in Int
             /\ b[i] - h[i] < 256 /\ h[i] - b[i] < 256
             /\ i # k => b[i] - h[i] = 0
  <2>1. b[i] \in Byte /\ h[i] \in Byte /\ (i # k => b[i] = h[i])
    OBVIOUS
  <2> QED BY <2>1, ByteDifference, Zenon
<1>2. 0 \in 0..6 /\ 1 \in 0..6 /\ 2 \in 0..6 /\ 3 \in 0..6 /\ 4 \in 0..6 /\ 5 \in 0..6 /\ 6 \in 0..6
  OBVIOUS
<1>3. /\ SevenSum(b) \in Int /\ SevenSum(h) \in Int
      /\ SevenSum(b) - SevenSum(h)
           = (b[0] - h[0]) + (b[1] - h[1]) + (b[2] - h[2]) + (b[3] - h[3]) + (b[4] - h[4])
             + (b[5] - h[5]) + (b[6] - h[6])
  BY <1>1, <1>2, SumsDiffer, Zenon
<1>4. (b[0] - h[0]) + (b[1] - h[1]) + (b[2] - h[2]) + (b[3] - h[3]) + (b[4] - h[4])
        + (b[5] - h[5]) + (b[6] - h[6])
      = b[k] - h[k]
  <2>1. k = 0 \/ k = 1 \/ k = 2 \/ k = 3 \/ k = 4 \/ k = 5 \/ k = 6
    OBVIOUS
  <2>2. /\ k # 0 => b[0] - h[0] = 0
        /\ k # 1 => b[1] - h[1] = 0
        /\ k # 2 => b[2] - h[2] = 0
        /\ k # 3 => b[3] - h[3] = 0
        /\ k # 4 => b[4] - h[4] = 0
        /\ k # 5 => b[5] - h[5] = 0
        /\ k # 6 => b[6] - h[6] = 0
    BY <1>1, <1>2
  <2>3. b[k] - h[k] \in Int
    BY <1>1
  <2> QED BY <2>1, <2>2, <2>3
<1>5. SevenSum(b) - SevenSum(h) = b[k] - h[k]
  BY <1>3, <1>4, Zenon
<1>6. b[k] \in Int /\ h[k] \in Int /\ b[k] - h[k] < 256 /\ h[k] - b[k] < 256
  BY <1>1
<1>7. \A s, t, x, y \in Int :
        s - t = x - y /\ s % 256 = 0 /\ t % 256 = 0 /\ x - y < 256 /\ y - x < 256 => x = y
  BY SameRemainder
<1> QED BY <1>3, <1>5, <1>6, <1>7, Zenon

\* Pairs of digits are decoded.
LEMMA DigitsDecode ==
  ASSUME buffer \in Buffers, bIndex \in 0..BufSize, bIndex % 2 = 1,
         \A i \in 1..Stored : IsHex(buffer[i])
  PROVE  /\ Pairs \in Nat /\ Stored = 2 * Pairs /\ 2 * Pairs < BufSize /\ DecodedSize = Pairs
         /\ \A i \in 0..(Pairs - 1) :
              /\ Decoded[i] = Nibble(buffer[2*i + 1]) * 16 + Nibble(buffer[2*i + 2])
              /\ IsHex(buffer[2*i + 1]) /\ IsHex(buffer[2*i + 2])
         /\ Pairs = 0 => Decoded[0] = buffer[0]
<1>1. Pairs \in Nat /\ Stored = 2 * Pairs /\ 2 * Pairs < BufSize /\ BufSize \in Nat
  BY Sizes DEF Pairs, Stored
<1> HIDE DEF Pairs
<1>2. \A i \in 0..(Pairs - 1) : IsHex(buffer[2*i + 1]) /\ IsHex(buffer[2*i + 2])
  BY <1>1
<1>3. \A k \in 0..(Pairs - 1) : Good(k)
  BY <1>1, <1>2 DEF Good
<1>4. Good(Pairs - 1)
  BY <1>1, <1>2 DEF Good
<1>5. ASSUME NEW i \in 0..(Pairs - 1)
      PROVE  Decoded[i] = Nibble(buffer[2*i + 1]) * 16 + Nibble(buffer[2*i + 2])
  <2>1. i \in 0..(BufSize - 1) /\ i < Pairs /\ Good(i)
    BY <1>1, <1>3
  <2> QED BY <2>1 DEF Decoded
<1>6. Pairs = 0 => Decoded[0] = buffer[0]
  BY Sizes DEF Decoded
<1> QED BY <1>1, <1>2, <1>4, <1>5, <1>6 DEF DecodedSize

\* The setpoint changes by a whole frame with function 6 that was sent.
LEMMA Executed ==
  ASSUME Requests, IInv, buffer \in Buffers, sent \in Seq(Frames), Given, Readable,
         HandleFrame, setpoint' # setpoint
  PROVE  \E g \in SentFrames : setpoint' \in Writes(g)
<1> DEFINE b == Decoded
           n == Pairs
<1>1. /\ at = "frame" /\ LrcOk(b, DecodedSize) /\ b[0] = 1 /\ b[1] = 6
      /\ Word(b, 2) = 0 /\ setpoint' = Word(b, 4)
  BY DEF HandleFrame, DeviceAddr, Execute, ReadHoldRegisters, WriteHoldRegister, execVars
<1>2. bIndex \in 0..BufSize /\ busy
  BY <1>1 DEF IInv, Typed, Owned
<1>3. /\ bIndex % 2 = 1 /\ Harmless(buffer, Stored, SentFrames)
      /\ bIndex > 0 => buffer[0] \in Chars
      /\ \A i \in 1..Stored : IsHex(buffer[i])
  BY <1>1, <1>2 DEF Given, Readable
<1>4. /\ n \in Nat /\ Stored = 2 * n /\ 2 * n < BufSize /\ DecodedSize = n
      /\ \A i \in 0..(n - 1) :
           /\ b[i] = Nibble(buffer[2*i + 1]) * 16 + Nibble(buffer[2*i + 2])
           /\ IsHex(buffer[2*i + 1]) /\ IsHex(buffer[2*i + 2])
      /\ n = 0 => b[0] = buffer[0]
  BY <1>2, <1>3, DigitsDecode
<1>5. b \in Buffers
  BY DecodedType
<1>6. b[2] = 0 /\ b[3] = 0
  <2>1. b[2] \in Byte /\ b[3] \in Byte
    BY <1>5, Sizes DEF Buffers
  <2> QED BY <1>1, <2>1, ByteIs DEF Word
<1> HIDE DEF b, n
<1>7. n > 0 => Lrc(b, n - 1) = b[n - 1]
  BY <1>1, <1>4 DEF LrcOk, ByteAt
<1>8. n >= 5
  <2>1. n # 0
    <3>1. bIndex > 0
      BY <1>2, <1>3
    <3> QED BY <1>1, <1>3, <1>4, <3>1, CharKinds
  <2>2. n # 1
    BY <1>1, <1>5, <1>7, ShortLrc
  <2>3. n # 2
    BY <1>1, <1>5, <1>7, ShortLrc
  <2>4. n # 3
    BY <1>1, <1>5, <1>6, <1>7, ShortLrc
  <2>5. n # 4
    BY <1>1, <1>5, <1>6, <1>7, ShortLrc
  <2> QED BY <1>4, <2>1, <2>2, <2>3, <2>4, <2>5
<1>9. /\ b[0] = Nibble(buffer[1]) * 16 + Nibble(buffer[2])
      /\ b[1] = Nibble(buffer[3]) * 16 + Nibble(buffer[4])
      /\ b[2] = Nibble(buffer[5]) * 16 + Nibble(buffer[6])
      /\ b[3] = Nibble(buffer[7]) * 16 + Nibble(buffer[8])
      /\ b[4] = Nibble(buffer[9]) * 16 + Nibble(buffer[10])
      /\ \A i \in 1..10 : IsHex(buffer[i])
  <2>1. /\ b[0] = Nibble(buffer[2*0 + 1]) * 16 + Nibble(buffer[2*0 + 2])
        /\ b[1] = Nibble(buffer[2*1 + 1]) * 16 + Nibble(buffer[2*1 + 2])
        /\ b[2] = Nibble(buffer[2*2 + 1]) * 16 + Nibble(buffer[2*2 + 2])
        /\ b[3] = Nibble(buffer[2*3 + 1]) * 16 + Nibble(buffer[2*3 + 2])
        /\ b[4] = Nibble(buffer[2*4 + 1]) * 16 + Nibble(buffer[2*4 + 2])
    BY <1>4, <1>8
  <2>2. \A i \in 1..10 : i \in 1..Stored
    BY <1>4, <1>8
  <2> QED BY <1>3, <2>1, <2>2
<1>10. Begins(buffer)
  <2>1. buffer[1] = 48 /\ buffer[2] = 49
    BY <1>1, <1>9, NibbleOne
  <2>2. buffer[3] = 48 /\ buffer[4] = 54
    BY <1>1, <1>9, NibbleOne
  <2>3. buffer[5] = 48 /\ buffer[6] = 48 /\ buffer[7] = 48 /\ buffer[8] = 48
    BY <1>6, <1>9, NibbleOne
  <2> QED BY <2>1, <2>2, <2>3 DEF Begins, ZERO, ONE, SIX
<1>11. PICK g \in SentFrames : StartsWith(buffer, Stored, g) \/ OneOff(buffer, Stored, g)
  <2>1. Stored % 2 = 0 /\ Stored >= 10
    BY <1>4, <1>8
  <2> QED BY <1>3, <1>10, <2>1 DEF Harmless
<1>12. g \in Frames /\ Len(g) = 17 /\ \A i \in 2..15 : IsHex(g[i])
  <2>1. g \in Frames
    BY Element DEF SentFrames
  <2> QED BY <2>1, FrameChars
<1>13. CASE StartsWith(buffer, Stored, g)
  <2>1. n >= 7 /\ \A i \in 1..14 : buffer[i] = g[i + 1]
    BY <1>4, <1>13 DEF StartsWith
  <2>2. b[5] = Nibble(buffer[2*5 + 1]) * 16 + Nibble(buffer[2*5 + 2])
    BY <1>4, <2>1
  <2>3. b[1] = HexValue(g, 4) /\ b[4] = HexValue(g, 10) /\ b[5] = HexValue(g, 12)
    BY <1>9, <2>1, <2>2 DEF HexValue
  <2>4. setpoint' = HexValue(g, 10) * 256 + HexValue(g, 12)
    BY <1>1, <2>3 DEF Word
  <2>5. HexValue(g, 4) = 6
    BY <1>1, <2>3
  <2> QED BY <1>12, <2>4, <2>5, Zenon DEF Writes
<1>14. CASE OneOff(buffer, Stored, g)
  <2> DEFINE h == [k \in 0..6 |-> HexValue(g, 2*k + 2)]
  <2> HIDE DEF h
  <2>1. n = 7
    BY <1>4, <1>14 DEF OneOff
  <2>2. PICK p \in 1..14 : /\ buffer[p] # g[p + 1]
                           /\ \A i \in (1..14) \ {p} : buffer[i] = g[i + 1]
    BY <1>14 DEF OneOff
  <2>3. PICK k \in 0..6 : p = 2*k + 1 \/ p = 2*k + 2
    <3>1. (p - 1) \div 2 \in 0..6 /\ (p = 2 * ((p - 1) \div 2) + 1 \/ p = 2 * ((p - 1) \div 2) + 2)
      OBVIOUS
    <3> QED BY <3>1
  <2>4. ASSUME NEW i \in 0..6
        PROVE  /\ b[i] = Nibble(buffer[2*i + 1]) * 16 + Nibble(buffer[2*i + 2])
               /\ h[i] = Nibble(g[2*i + 2]) * 16 + Nibble(g[2*i + 3])
               /\ IsHex(buffer[2*i + 1]) /\ IsHex(buffer[2*i + 2])
               /\ IsHex(g[2*i + 2]) /\ IsHex(g[2*i + 3])
    <3>1. i \in 0..(n - 1)
      BY <2>1
    <3>2. 2*i + 2 \in 2..15 /\ 2*i + 3 \in 2..15 /\ (2*i + 2) + 1 = 2*i + 3
      OBVIOUS
    <3>3. IsHex(g[2*i + 2]) /\ IsHex(g[2*i + 3])
      BY <1>12, <3>2
    <3>4. h[i] = Nibble(g[2*i + 2]) * 16 + Nibble(g[2*i + 3])
      BY <3>2 DEF HexValue, h
    <3> QED BY <1>4, <3>1, <3>3, <3>4
  <2>5. ASSUME NEW i \in 0..6 PROVE b[i] \in Byte /\ h[i] \in Byte
    <3>1. Nibble(buffer[2*i + 1]) * 16 + Nibble(buffer[2*i + 2]) \in Byte
      BY <2>4, NibbleByte, Zenon
    <3>2. Nibble(g[2*i + 2]) * 16 + Nibble(g[2*i + 3]) \in Byte
      BY <2>4, NibbleByte, Zenon
    <3> QED BY <2>4, <3>1, <3>2
  <2>6. ASSUME NEW i \in 0..6, i # k PROVE b[i] = h[i]
    <3>1. buffer[2*i + 1] = g[2*i + 2] /\ buffer[2*i + 2] = g[2*i + 3]
      BY <2>2, <2>3, <2>6
    <3> QED BY <2>4, <3>1
  <2>7. b[k] # h[k]
    <3>1. \/ buffer[2*k + 1] # g[2*k + 2] /\ buffer[2*k + 2] = g[2*k + 3]
          \/ buffer[2*k + 1] = g[2*k + 2] /\ buffer[2*k + 2] # g[2*k + 3]
      <4>1. CASE p = 2*k + 1
        <5>1. 2*k + 2 \in (1..14) \ {p} /\ p + 1 = 2*k + 2 /\ (2*k + 2) + 1 = 2*k + 3
          BY <4>1
        <5> QED BY <2>2, <4>1, <5>1
      <4>2. CASE p = 2*k + 2
        <5>1. 2*k + 1 \in (1..14) \ {p} /\ p + 1 = 2*k + 3 /\ (2*k + 1) + 1 = 2*k + 2
          BY <4>2
        <5> QED BY <2>2, <4>2, <5>1
      <4> QED BY <2>3, <4>1, <4>2
    <3>2. Nibble(buffer[2*k + 1]) * 16 + Nibble(buffer[2*k + 2])
            # Nibble(g[2*k + 2]) * 16 + Nibble(g[2*k + 3])
      <4>1. /\ IsHex(buffer[2*k + 1]) /\ IsHex(buffer[2*k + 2])
            /\ IsHex(g[2*k + 2]) /\ IsHex(g[2*k + 3])
        BY <2>4
      <4> QED BY <3>1, <4>1, NibbleDiffers, Zenon
    <3> QED BY <2>4, <3>2, Zenon
  <2>8. SevenSum(b) % 256 = 0
    BY <1>5, <1>7, <2>1, ShortLrc DEF SevenSum
  <2>9. SevenSum(h) % 256 = 0
    BY <1>12 DEF Requests, SevenSum, h
  <2> QED BY <2>5, <2>6, <2>7, <2>8, <2>9, OneByteOff
<1> QED BY <1>11, <1>13, <1>14

-----------------------------------------------------------------------------
(* What a character does to a frame.                                       *)

LEMMA SameHarmless ==
  ASSUME NEW u, NEW v, NEW m \in Nat, NEW S, Harmless(u, m, S), \A i \in 1..m : v[i] = u[i]
  PROVE  Harmless(v, m, S)
<1> SUFFICES ASSUME m % 2 = 0, m >= 10, Begins(v)
             PROVE  \E g \in S : StartsWith(v, m, g) \/ OneOff(v, m, g)
  BY DEF Harmless
<1>1. \A i \in 1..10 : v[i] = u[i]
  OBVIOUS
<1>2. Begins(u)
  BY <1>1 DEF Begins
<1>3. PICK g \in S : StartsWith(u, m, g) \/ OneOff(u, m, g)
  BY <1>2 DEF Harmless
<1>4. m >= 14 => \A i \in 1..14 : v[i] = u[i]
  OBVIOUS
<1>5. StartsWith(u, m, g) => StartsWith(v, m, g)
  BY <1>4 DEF StartsWith
<1>6. ASSUME OneOff(u, m, g) PROVE OneOff(v, m, g)
  <2>1. PICK p \in 1..14 : u[p] # g[p + 1] /\ \A i \in (1..14) \ {p} : u[i] = g[i + 1]
    BY <1>6 DEF OneOff
  <2>2. m = 14 /\ \A i \in 1..14 : v[i] = u[i]
    BY <1>4, <1>6 DEF OneOff
  <2>3. v[p] # g[p + 1]
    BY <2>1, <2>2
  <2>4. \A i \in (1..14) \ {p} : v[i] = g[i + 1]
    BY <2>1, <2>2
  <2> QED BY <2>2, <2>3, <2>4 DEF OneOff
<1> QED BY <1>3, <1>5, <1>6

Continues(u, b, n, L, f) ==
  /\ \A i \in 1..n : u[i] = b[i]
  /\ \A j \in 1..(L - 2) : u[n + j] = f[17 - L + j]

LEMMA FutureContinues ==
  ASSUME NEW b, NEW n \in Nat, NEW L \in 1..17, NEW f
  PROVE  Continues(Future(b, n, L, f), b, n, L, f)
<1>1. FutureSize(n, L) \in Nat /\ n <= FutureSize(n, L)
  BY DEF FutureSize
<1>2. ASSUME NEW i \in 1..n PROVE Future(b, n, L, f)[i] = b[i]
  BY <1>1 DEF Future
<1>3. ASSUME NEW j \in 1..(L - 2) PROVE Future(b, n, L, f)[n + j] = f[17 - L + j]
  <2>1. n + j \in 1..FutureSize(n, L) /\ ~(n + j <= n) /\ 17 - L + (n + j - n) = 17 - L + j
    BY DEF FutureSize
  <2> QED BY <2>1 DEF Future
<1> QED BY <1>2, <1>3 DEF Continues

\* Of the whole frame the first character got lost or became another one.
LEMMA SkippedColon ==
  ASSUME Requests, NEW S, NEW g \in S, g \in Frames, NEW f \in S, f \in Frames,
         NEW b, NEW n \in Nat, NEW y \in 0..2, y <= n, Suffix(b, n - y, g, 15)
  PROVE  After(b, n, 16, f, S)
<1> DEFINE u == Future(b, n, 16, f)
<1>1. /\ \A i \in 1..n : u[i] = b[i]
      /\ \A j \in 1..14 : u[n + j] = f[1 + j]
  <2>1. 16 \in 1..17 /\ 16 - 2 = 14 /\ 17 - 16 = 1
    OBVIOUS
  <2>2. Continues(u, b, n, 16, f)
    BY <2>1, FutureContinues, Zenon
  <2> HIDE DEF u
  <2> QED BY <2>1, <2>2 DEF Continues
<1> HIDE DEF u
<1>2. Suffix(u, n - y, g, 15)
  BY <1>1 DEF Suffix
<1>3. \A j \in 1..14 : u[n + j] = f[j + 1]
  BY <1>1
<1>4. Harmless(u, n + 14, S)
  BY <1>2, <1>3, MergedHarmless
<1>5. FutureSize(n, 16) = n + 14
  BY DEF FutureSize
<1> QED BY <1>4, <1>5 DEF After, u

LEMMA SkippedDigit ==
  ASSUME Requests, NEW S, NEW f \in S, f \in Frames, NEW b, NEW n \in Nat, NEW L \in 3..16,
         Part(b, n, L, f)
  PROVE  After(b, n, L - 1, f, S)
<1> DEFINE u == Future(b, n, L - 1, f)
           e == 17 - L
<1>1. /\ e \in 1..14 /\ L - 1 \in 1..17 /\ (L - 1) - 2 = 14 - e
      /\ FutureSize(n, L - 1) = n + 14 - e /\ Suffix(b, n, f, e)
  BY DEF FutureSize, Part, Limit
<1>2. /\ \A i \in 1..n : u[i] = b[i]
      /\ \A j \in 1..((L - 1) - 2) : u[n + j] = f[17 - (L - 1) + j]
  <2>1. Continues(u, b, n, L - 1, f)
    BY <1>1, FutureContinues, Zenon
  <2> HIDE DEF u
  <2> QED BY <2>1 DEF Continues
<1>3. \A j \in 1..(14 - e) : u[n + j] = f[e + 1 + j]
  <2>1. 17 - (L - 1) = e + 1
    OBVIOUS
  <2> QED BY <1>1, <1>2, <2>1
<1> HIDE DEF u, e
<1>4. Suffix(u, n, f, e)
  BY <1>1, <1>2 DEF Suffix
<1>5. Harmless(u, n + 14 - e, S)
  BY <1>1, <1>3, <1>4, GapHarmless
<1> QED BY <1>1, <1>5 DEF After, u

LEMMA RightDigit ==
  ASSUME NEW f, NEW b, NEW d, NEW n \in Nat, NEW L \in 3..16, Part(b, n, L, f),
         \A i \in 1..n : d[i] = b[i], d[n + 1] = f[18 - L]
  PROVE  Part(d, n + 1, L - 1, f)
<1> DEFINE e == 17 - L
<1>1. /\ e \in 1..14 /\ 18 - L = e + 1 /\ Suffix(b, n, f, e)
      /\ (IF L - 1 > 2 THEN 17 - (L - 1) ELSE 15) = e + 1
  BY DEF Part, Limit
<1>2. d[n + 1] = f[e + 1]
  BY <1>1
<1> HIDE DEF e
<1>3. Suffix(d, n + 1, f, e + 1)
  BY <1>1, <1>2 DEF Suffix
<1> QED BY <1>1, <1>3 DEF Part, Limit

LEMMA WrongDigit ==
  ASSUME Requests, NEW S, NEW f \in S, f \in Frames, NEW b, NEW d, NEW n \in Nat,
         NEW L \in 3..16, Part(b, n, L, f),
         \A i \in 1..n : d[i] = b[i], d[n + 1] # f[18 - L]
  PROVE  After(d, n + 1, L - 1, f, S)
<1> DEFINE u == Future(d, n + 1, L - 1, f)
           e == 17 - L
<1>1. /\ e \in 1..14 /\ L - 1 \in 1..17 /\ (L - 1) - 2 = 14 - e /\ 18 - L = e + 1
      /\ FutureSize(n + 1, L - 1) = n + 15 - e /\ Suffix(b, n, f, e)
  BY DEF FutureSize, Part, Limit
<1>2. /\ \A i \in 1..(n + 1) : u[i] = d[i]
      /\ \A j \in 1..((L - 1) - 2) : u[(n + 1) + j] = f[17 - (L - 1) + j]
  <2>1. n + 1 \in Nat
    OBVIOUS
  <2>2. Continues(u, d, n + 1, L - 1, f)
    BY <1>1, <2>1, FutureContinues, Zenon
  <2> HIDE DEF u
  <2> QED BY <2>2 DEF Continues
<1>3. \A j \in 2..(15 - e) : u[n + j] = f[e + j]
  <2> SUFFICES ASSUME NEW j \in 2..(15 - e) PROVE u[n + j] = f[e + j]
    OBVIOUS
  <2>1. /\ j - 1 \in 1..((L - 1) - 2) /\ (n + 1) + (j - 1) = n + j
        /\ 17 - (L - 1) + (j - 1) = e + j
    BY <1>1
  <2> QED BY <1>2, <2>1
<1>4. u[n + 1] # f[e + 1]
  BY <1>1, <1>2
<1> HIDE DEF u, e
<1>5. Suffix(u, n, f, e)
  BY <1>1, <1>2 DEF Suffix
<1>6. Harmless(u, n + 15 - e, S)
  BY <1>1, <1>3, <1>4, <1>5, WrongHarmless
<1> QED BY <1>1, <1>6 DEF After, u

LEMMA ComingDigit ==
  ASSUME NEW S, NEW f, NEW b, NEW d, NEW n \in Nat, NEW L \in 3..16, After(b, n, L, f, S),
         \A i \in 1..n : d[i] = b[i], d[n + 1] = f[18 - L]
  PROVE  After(d, n + 1, L - 1, f, S)
<1> DEFINE m == FutureSize(n, L)
           u == Future(b, n, L, f)
           v == Future(d, n + 1, L - 1, f)
<1>1. FutureSize(n + 1, L - 1) = m /\ m = n + (L - 2) /\ m \in Nat
  BY DEF FutureSize
<1>2. /\ \A i \in 1..n : u[i] = b[i]
      /\ \A j \in 1..(L - 2) : u[n + j] = f[17 - L + j]
  <2>1. L \in 1..17
    OBVIOUS
  <2>2. Continues(u, b, n, L, f)
    BY <2>1, FutureContinues, Zenon
  <2> HIDE DEF u
  <2> QED BY <2>2 DEF Continues
<1>3. /\ \A i \in 1..(n + 1) : v[i] = d[i]
      /\ \A j \in 1..((L - 1) - 2) : v[(n + 1) + j] = f[17 - (L - 1) + j]
  <2>1. n + 1 \in Nat /\ L - 1 \in 1..17
    OBVIOUS
  <2>2. Continues(v, d, n + 1, L - 1, f)
    BY <2>1, FutureContinues, Zenon
  <2> HIDE DEF v
  <2> QED BY <2>2 DEF Continues
<1> HIDE DEF u, v
<1>4. ASSUME NEW i \in 1..m PROVE v[i] = u[i]
  <2>1. CASE i <= n
    <3>1. i \in 1..n /\ i \in 1..(n + 1)
      BY <2>1
    <3> QED BY <1>2, <1>3, <3>1
  <2>2. CASE i = n + 1
    <3>1. 1 \in 1..(L - 2) /\ 17 - L + 1 = 18 - L /\ n + 1 \in 1..(n + 1)
      OBVIOUS
    <3> QED BY <1>2, <1>3, <2>2, <3>1
  <2>3. CASE i > n + 1
    <3> DEFINE j == i - n - 1
    <3>1. /\ j \in 1..((L - 1) - 2) /\ j + 1 \in 1..(L - 2)
          /\ (n + 1) + j = i /\ n + (j + 1) = i /\ 17 - (L - 1) + j = 17 - L + (j + 1)
      BY <1>1, <2>3
    <3>2. v[(n + 1) + j] = f[17 - (L - 1) + j] /\ u[n + (j + 1)] = f[17 - L + (j + 1)]
      BY <1>2, <1>3, <3>1, Zenon
    <3> QED BY <3>1, <3>2, Zenon
  <2> QED BY <1>1, <2>1, <2>2, <2>3
<1>5. Harmless(v, m, S)
  BY <1>1, <1>4, SameHarmless DEF After, u
<1> QED BY <1>1, <1>5 DEF After, v

\* Nothing is stored any more when CR and LF are to come.
LEMMA NothingComes ==
  ASSUME NEW S, NEW f, NEW b, NEW n \in Nat, NEW L \in 1..2
  PROVE  After(b, n, L, f, S) <=> Harmless(b, n, S)
<1>1. FutureSize(n, L) = n /\ \A i \in 1..n : Future(b, n, L, f)[i] = b[i]
  <2>1. L \in 1..17
    OBVIOUS
  <2>2. Continues(Future(b, n, L, f), b, n, L, f)
    BY <2>1, FutureContinues, Zenon
  <2> QED BY <2>2 DEF FutureSize, Continues
<1>2. Harmless(b, n, S) => Harmless(Future(b, n, L, f), n, S)
  BY <1>1, SameHarmless
<1>3. Harmless(Future(b, n, L, f), n, S) => Harmless(b, n, S)
  BY <1>1, SameHarmless
<1> QED BY <1>1, <1>2, <1>3 DEF After

-----------------------------------------------------------------------------
(* What the interrupt does.                                                *)

Begun(c)  == bIndex' = 1 /\ buffer'[0] = c /\ ~isLastByteCR' /\ ~busy'
Handed(c) == /\ c = LF /\ FrameEnds /\ bIndex > 0 /\ busy'
             /\ bIndex' = bIndex /\ buffer' = buffer /\ ~isLastByteCR'
Ended     == bIndex' = 0 /\ ~isLastByteCR' /\ ~busy'
Returned(c) == /\ c = CR /\ bIndex > 0 /\ ~busy' /\ bIndex' = bIndex /\ buffer' = buffer
Digit(c)  == /\ IsHex(c) /\ bIndex > 0 /\ bIndex < BufSize /\ ~busy'
             /\ bIndex' = bIndex + 1 /\ buffer'[bIndex] = c
             /\ \A i \in 0..(bIndex - 1) : buffer'[i] = buffer[i]
             /\ isLastByteCR' = isLastByteCR
Dropped   == bIndex > 0 /\ bIndex' = BufSize /\ bIndex = BufSize /\ buffer' = buffer /\ ~busy'

LEMMA Stores ==
  ASSUME buffer \in Buffers, NEW c, NEW i \in 0..(BufSize - 1), Store(c, i)
  PROVE  /\ bIndex' = i + 1 /\ buffer'[i] = c
         /\ \A k \in 0..(i - 1) : buffer'[k] = buffer[k]
<1>1. bIndex' = i + 1 /\ buffer' = [buffer EXCEPT ![i] = c]
  BY Sizes DEF Store, IsFull
<1> QED BY <1>1, Sizes DEF Buffers

LEMMA UartKinds ==
  ASSUME IInv, Kept, NoReturn, UartByte, ~busy, Head(line) \in Chars
  PROVE  LET c == Head(line)
         IN  \/ Begun(c) \/ Handed(c) \/ Ended \/ Returned(c) \/ Digit(c) \/ Dropped
<1> DEFINE c == Head(line)
<1>1. bIndex \in 0..BufSize /\ BufSize \in Nat /\ BufSize >= 14
  BY Sizes DEF IInv, Typed
<1>2. 0 \in 0..(BufSize - 1) /\ buffer \in Buffers
  BY <1>1 DEF Kept
<1>3. CASE FirstByte(c)
  <2>1. bIndex' = 0 + 1 /\ buffer'[0] = c
    BY <1>2, <1>3, Stores DEF FirstByte
  <2>2. ~isLastByteCR' /\ ~busy'
    BY <1>3 DEF FirstByte, NoReturn
  <2> QED BY <2>1, <2>2 DEF Begun
<1>4. CASE c = LF /\ LineFeed
  BY <1>4 DEF LineFeed, Handed, Ended
<1>5. CASE c = CR /\ CarriageReturn
  BY <1>5 DEF CarriageReturn, Returned
<1>6. CASE FrameByte(c) /\ c = COLON
  <2>1. Store(c, 0) /\ ~isLastByteCR' /\ ~busy'
    BY <1>6 DEF FrameByte, Restarts
  <2>2. bIndex' = 0 + 1 /\ buffer'[0] = c
    BY <1>2, <2>1, Stores
  <2> QED BY <2>1, <2>2 DEF Begun
<1>7. CASE FrameByte(c) /\ c # COLON
  <2>1. Store(c, bIndex) /\ bIndex > 0 /\ ~busy' /\ c # CR /\ c # LF
    BY <1>7 DEF FrameByte, Restarts
  <2>5. isLastByteCR' = isLastByteCR
    BY <1>7 DEF FrameByte, Kept
  <2>2. IsHex(c)
    BY <1>7, <2>1, CharKinds
  <2>3. CASE bIndex < BufSize
    <3>1. bIndex \in 0..(BufSize - 1)
      BY <1>1, <2>3
    <3>2. /\ bIndex' = bIndex + 1 /\ buffer'[bIndex] = c
          /\ \A k \in 0..(bIndex - 1) : buffer'[k] = buffer[k]
      BY <2>1, <1>2, <3>1, Stores, Zenon
    <3> QED BY <2>1, <2>2, <2>3, <2>5, <3>2 DEF Digit
  <2>4. CASE bIndex = BufSize
    BY <1>1, <2>1, <2>4 DEF Store, IsFull, Dropped
  <2> QED BY <1>1, <2>3, <2>4
<1> QED BY <1>3, <1>4, <1>5, <1>6, <1>7 DEF UartByte, ByteWhileBusy

-----------------------------------------------------------------------------
(* The types that no read disturbs.                                        *)

LEMMA ExecutedKept ==
  ASSUME NEW b \in Buffers, Execute(b), setpoint \in Words
  PROVE  buffer' \in Buffers /\ setpoint' \in Words
<1>1. ASSUME NEW w \in Buffers, NEW n, SendResponse(w, n) PROVE buffer' \in Buffers
  BY <1>1 DEF SendResponse
<1>2. CASE ReadHoldRegisters(b)
  <2>1. \/ SendErrorResponse(b, 3)
        \/ \E junk \in Junk : \E n, m :
             \/ SendResponse(WithRegisters(b, n, junk), m)
             \/ SendErrorResponse(WithRegisters(b, n, junk), 3)
    BY <1>2, Zenon DEF ReadHoldRegisters
  <2>2. CASE SendErrorResponse(b, 3)
    BY <1>2, <2>2, ErrorType DEF ReadHoldRegisters
  <2>3. ASSUME NEW junk \in Junk, NEW n, NEW m,
               \/ SendResponse(WithRegisters(b, n, junk), m)
               \/ SendErrorResponse(WithRegisters(b, n, junk), 3)
        PROVE  buffer' \in Buffers
    <3>1. WithRegisters(b, n, junk) \in Buffers
      BY RegistersType
    <3> QED BY <1>1, <2>3, <3>1, ErrorType, Zenon
  <2>4. setpoint' = setpoint
    BY <1>2 DEF ReadHoldRegisters
  <2> QED BY <2>1, <2>2, <2>3, <2>4
<1>3. CASE WriteHoldRegister(b)
  <2>1. Word(b, 4) \in Words
    BY WordOfBytes
  <2>2. setpoint' \in {setpoint, Word(b, 4)} /\ (SendResponse(b, 6) \/ SendErrorResponse(b, 2))
    BY <1>3, Zenon DEF WriteHoldRegister
  <2> QED BY <1>1, <2>1, <2>2, ErrorType
<1>4. CASE SendErrorResponse(b, 1) /\ UNCHANGED setpoint
  BY <1>4, ErrorType
<1> QED BY <1>2, <1>3, <1>4, Zenon DEF Execute

LEMMA KeptInit == Init => Kept
<1> SUFFICES ASSUME Init PROVE Kept
  OBVIOUS
<1>1. buffer \in Buffers
  BY DEF Init, Buffers, Byte
<1>2. setpoint \in Words
  BY WordIs DEF Init
<1> QED BY <1>1, <1>2 DEF Init, Kept

LEMMA KeptUart ==
  ASSUME IInv, Kept, UartByte
  PROVE  Kept'
<1>1. Head(line) \in Byte /\ UNCHANGED setpoint
  BY TailOfLine DEF UartByte, IInv, Typed, execVars
<1>2. /\ \/ UNCHANGED buffer
         \/ \E i : Store(Head(line), i)
      /\ isLastByteCR' \in {isLastByteCR, TRUE, FALSE}
  BY Zenon DEF UartByte, ByteWhileBusy, FirstByte, LineFeed, CarriageReturn, FrameByte, recvVars
<1>3. buffer' \in Buffers
  BY <1>1, <1>2, StoreType DEF Kept
<1> QED BY <1>1, <1>2, <1>3 DEF Kept

LEMMA KeptMain ==
  ASSUME Kept, MainStep
  PROVE  Kept'
<1>1. CASE MainPoll \/ MainSwitch \/ GiveBack
  BY <1>1 DEF MainPoll, MainSwitch, GiveBack, Kept, recvVars, execVars
<1>2. CASE HandleFrame
  <2>1. Decoded \in Buffers
    BY DecodedType DEF Kept
  <2>2. CASE buffer' = Decoded /\ UNCHANGED execVars
    BY <1>2, <2>1, <2>2 DEF HandleFrame, execVars, Kept
  <2>3. CASE Execute(Decoded)
    <3>1. buffer' \in Buffers /\ setpoint' \in Words
      BY <2>1, <2>3, ExecutedKept DEF Kept
    <3> QED BY <1>2, <3>1 DEF HandleFrame, Kept
  <2> QED BY <1>2, <2>2, <2>3, Zenon DEF HandleFrame
<1> QED BY <1>1, <1>2 DEF MainStep

LEMMA KeptLine ==
  ASSUME Kept, LineStep
  PROVE  Kept'
BY DEF LineStep, MasterSends, CharacterLost, CharacterReplaced, recvVars, execVars, Kept

-----------------------------------------------------------------------------
(* Every step of the interrupt keeps the buffer harmless.                  *)

LEMMA LengthKinds ==
  \A n \in 1..17 : /\ n = 17 \/ n \in 3..16 \/ n = 2 \/ n = 1
                   /\ n >= 2 \/ n = 1
                   /\ n \in 3..16 => n >= 2 /\ n # 17 /\ n # 2 /\ n # 1
                   /\ n # 0
OBVIOUS

LEMMA SameSent ==
  ASSUME UNCHANGED sent
  PROVE  SentFrames' = SentFrames /\ LastSent' = LastSent
BY DEF SentFrames, LastSent

\* Which character of a frame comes when L of them are left.
LEMMA Places ==
  ASSUME Requests, NEW f \in Frames, NEW L \in 1..17
  PROVE  /\ L = 17 => f[18 - L] = COLON
         /\ L \in 3..16 => IsHex(f[18 - L])
         /\ L = 2 => f[18 - L] = CR
         /\ L = 1 => f[18 - L] = LF
<1>1. f[1] = COLON /\ f[16] = CR /\ f[17] = LF /\ \A i \in 2..15 : IsHex(f[i])
  BY FrameChars
<1>2. L \in 3..16 => 18 - L \in 2..15
  OBVIOUS
<1> QED BY <1>1, <1>2

\* What comes is the next character of the frame, as long as no character of it is wrong.
LEMMA NextIs ==
  ASSUME Requests, IInv, Rest, line # <<>>, ~spoilt \/ EndOf(line, LastSent)
  PROVE  Head(line) = LastSent[18 - Len(line)]
<1>1. line \in Seq(Byte) /\ LastSent \in Frames
  BY LineChars DEF IInv, Typed
<1>2. EndOf(line, LastSent)
  BY DEF Rest
<1> QED BY <1>1, <1>2, EndChars

LEMMA ReadableUart ==
  ASSUME IInv, Kept, Readable, NoReturn, UartByte, Head(line) \in Chars
  PROVE  Readable' /\ NoReturn'
<1> DEFINE c == Head(line)
<1>1. at' = at /\ bIndex \in 0..BufSize
  BY DEF UartByte, IInv, Typed
<1>2. CASE busy
  BY <1>1, <1>2 DEF UartByte, ByteWhileBusy, FirstByte, LineFeed, CarriageReturn, FrameByte,
                    recvVars, Readable, NoReturn, Stored
<1>3. CASE ~busy
  <2>1. /\ bIndex > 0 => buffer[0] \in Chars
        /\ \A i \in 1..Stored : IsHex(buffer[i])
    BY <1>3 DEF Readable
  <2>2. c \in Chars
    OBVIOUS
  <2>3. Begun(c) \/ Handed(c) \/ Ended \/ Returned(c) \/ Digit(c) \/ Dropped
    BY <1>3, UartKinds
  <2> HIDE DEF c
  <2>4. CASE Begun(c)
    BY <2>2, <2>4 DEF Begun, Readable, NoReturn, Stored
  <2>5. CASE Handed(c)
    BY <2>1, <2>5 DEF Handed, Readable, NoReturn, Stored
  <2>6. CASE Ended
    BY <2>6 DEF Ended, Readable, NoReturn, Stored
  <2>7. CASE Returned(c)
    BY <2>1, <2>7 DEF Returned, Readable, NoReturn, Stored
  <2>8. CASE Digit(c)
    <3>1. /\ bIndex > 0 /\ bIndex' = bIndex + 1 /\ IsHex(c) /\ buffer'[bIndex] = c /\ ~busy'
          /\ \A i \in 0..(bIndex - 1) : buffer'[i] = buffer[i]
      BY <2>8 DEF Digit
    <3>2. buffer'[0] \in Chars
      BY <1>1, <2>1, <3>1
    <3>3. \A i \in 1..(bIndex' - 1) : IsHex(buffer'[i])
      <4> SUFFICES ASSUME NEW i \in 1..(bIndex' - 1) PROVE IsHex(buffer'[i])
        OBVIOUS
      <4>1. CASE i = bIndex
        BY <3>1, <4>1
      <4>2. CASE i # bIndex
        <5>1. i \in 0..(bIndex - 1) /\ i \in 1..Stored
          BY <1>1, <3>1, <4>2 DEF Stored
        <5> QED BY <2>1, <3>1, <5>1
      <4> QED BY <4>1, <4>2
    <3> QED BY <1>1, <3>1, <3>2, <3>3 DEF Readable, NoReturn, Stored
  <2>9. CASE Dropped
    BY <2>1, <2>9, Sizes DEF Dropped, Readable, NoReturn, Stored
  <2> QED BY <2>3, <2>4, <2>5, <2>6, <2>7, <2>8, <2>9
<1> QED BY <1>2, <1>3

LEMMA GivenUart ==
  ASSUME Requests, IInv, Kept, Rest, Gathered, Given, NoReturn, UartByte
  PROVE  Given'
<1> DEFINE c == Head(line)
<1>1. at' = at /\ bIndex \in 0..BufSize /\ line # <<>> /\ UNCHANGED <<sent, spoilt>>
  BY DEF UartByte, IInv, Typed
<1>2. SentFrames' = SentFrames
  BY <1>1, SameSent
<1>3. CASE busy
  <2>1. UNCHANGED <<buffer, bIndex, busy>>
    BY <1>3 DEF UartByte, ByteWhileBusy, FirstByte, LineFeed, CarriageReturn, FrameByte, recvVars
  <2> QED BY <1>1, <1>2, <2>1 DEF Given, Stored
<1>4. CASE ~busy
  <2>1. /\ LastSent \in Frames /\ LastSent \in SentFrames /\ Len(line) \in 1..17 /\ c \in Chars
    BY <1>1, LineChars
  <2>2. Begun(c) \/ Handed(c) \/ Ended \/ Returned(c) \/ Digit(c) \/ Dropped
    BY <1>4, <2>1, UartKinds
  <2>3. CASE ~Handed(c)
    BY <2>2, <2>3 DEF Begun, Ended, Returned, Digit, Dropped, Given
  <2>4. CASE Handed(c)
    <3>1. /\ c = LF /\ isLastByteCR /\ bIndex % 2 = 1 /\ bIndex > 0
          /\ bIndex' = bIndex /\ buffer' = buffer
      BY <2>4 DEF Handed, FrameEnds
    <3>2. bIndex < BufSize
      BY <1>1, <3>1, EvenSize, Sizes
    <3>3. Stored \in Nat
      BY <1>1, <3>1 DEF Stored
    <3>4. Harmless(buffer, Stored, SentFrames)
      <4>1. CASE Len(line) = 17
        <5>1. PICK g \in SentFrames : Leftover(g)
          BY <1>4, <3>1, <3>2, <4>1 DEF Gathered
        <5>2. g \in Frames
          BY Element DEF SentFrames, Rest
        <5>3. PICK y \in 0..1 : y <= Stored /\ Suffix(buffer, Stored - y, g, 15)
          BY <5>1 DEF Leftover
        <5> QED BY <3>3, <5>2, <5>3, LeftoverHarmless
      <4>2. CASE Len(line) # 17 /\ Fresh
        <5>1. Len(line) = 1
          <6>1. ~(Len(line) >= 2)
            BY <3>1, <4>2 DEF Fresh
          <6> QED BY <2>1, <6>1, LengthKinds, Zenon
        <5>2. Suffix(buffer, Stored - 0, LastSent, 15) /\ 0 <= Stored /\ 0 \in 0..1
          BY <3>3, <4>2, <5>1 DEF Fresh, Part, Limit
        <5> QED BY <2>1, <3>3, <5>2, LeftoverHarmless
      <4>3. CASE Len(line) # 17 /\ Settled
        <5>1. c = LastSent[18 - Len(line)]
          BY <1>1, <4>3, NextIs DEF Settled
        <5>2. Len(line) = 1
          <6>1. LastSent[18 - Len(line)] = LF
            BY <3>1, <5>1
          <6>2. ~(Len(line) = 17) /\ ~(Len(line) \in 3..16) /\ ~(Len(line) = 2)
            BY <2>1, <6>1, Places, CharKinds, Zenon
          <6> QED BY <2>1, <6>2, LengthKinds, Zenon
        <5>3. Len(line) \in 1..2
          BY <5>2
        <5> QED BY <3>3, <4>3, <5>3, NothingComes DEF Settled
      <4>4. CASE Len(line) # 17 /\ Refused
        BY <3>1, <4>4 DEF Refused
      <4>5. Len(line) # 0
        BY <2>1
      <4>6. Len(line) # 17 => Fresh \/ Settled \/ Refused
        BY <1>4, <3>1, <3>2, <4>5 DEF Gathered
      <4> QED BY <4>1, <4>2, <4>3, <4>4, <4>6
    <3> QED BY <1>2, <3>1, <3>4 DEF Given, Stored
  <2> QED BY <2>3, <2>4
<1> QED BY <1>3, <1>4

\* Gathered for a line that is not empty and not at its beginning.
LEMMA GatheredBy ==
  ASSUME Gathered, ~busy, bIndex > 0, bIndex < BufSize, Len(line) \in 1..17
  PROVE  /\ Len(line) = 17 => \E g \in SentFrames : Leftover(g)
         /\ Len(line) # 17 => Fresh \/ Settled \/ Refused
<1>1. Len(line) # 0
  BY LengthKinds, Zenon
<1> QED BY <1>1 DEF Gathered

\* What a step has to show of a line that has become shorter.
LEMMA GatheredThen ==
  ASSUME Len(line)' # 17,
         Len(line)' = 0 /\ ~busy' /\ bIndex' > 0 /\ bIndex' < BufSize
           => \E g \in SentFrames' : Leftover(g)',
         Len(line)' # 0 /\ ~busy' /\ bIndex' > 0 /\ bIndex' < BufSize
           => Fresh' \/ Settled' \/ Refused'
  PROVE  Gathered'
BY DEF Gathered

\* A character that is no digit, or that does not come.
LEMMA GatheredSame ==
  ASSUME Requests, IInv, Rest, Rest', Gathered, line # <<>>, line' = Tail(line), ~busy,
         UNCHANGED <<sent, buffer, bIndex, busy>>, bIndex > 0, bIndex < BufSize,
         spoilt => spoilt',
         \/ ~spoilt /\ spoilt' /\ isLastByteCR' = isLastByteCR
         \/ Head(line) = CR /\ isLastByteCR' /\ spoilt' = spoilt
  PROVE  Gathered'
<1> DEFINE L == Len(line)
           f == LastSent
           S == SentFrames
           n == Stored
<1>1. /\ sent # <<>> /\ f \in Frames /\ f \in S /\ L \in 1..17
      /\ Len(line') = L - 1 /\ EndOf(line', f)
      /\ ~spoilt => Head(line) = f[18 - L]
  BY LineChars
<1>2. S' = S /\ f' = f /\ n' = n
  BY SameSent DEF Stored
<1>3. n \in Nat
  BY DEF IInv, Typed, Stored
<1>4. ~busy' /\ bIndex' > 0 /\ bIndex' < BufSize /\ L' = L - 1
  BY <1>1
<1>5. CASE L = 17
  <2>1. PICK g \in S : Leftover(g)
    BY <1>1, <1>5, GatheredBy, Zenon
  <2>2. g \in Frames
    BY Element DEF SentFrames, Rest
  <2>3. PICK y \in 0..1 : y <= n /\ Suffix(buffer, n - y, g, 15)
    BY <2>1 DEF Leftover
  <2>4. y \in 0..2
    OBVIOUS
  <2>5. After(buffer, n, 16, f, S)
    BY <1>1, <1>3, <2>2, <2>3, <2>4, SkippedColon, Zenon
  <2>6. spoilt'
    <3>1. Head(line) = CR => f[18 - L] # Head(line)
      <4>1. f[18 - L] = COLON
        BY <1>1, <1>5, Places
      <4> QED BY <4>1, CharKinds
    <3> QED BY <1>1, <3>1
  <2>7. L' = 16 /\ L' # 17 /\ L' # 0
    <3> HIDE DEF L
    <3> QED BY <1>4, <1>5
  <2>8. Settled'
    BY <1>1, <1>2, <2>5, <2>6, <2>7, Zenon DEF Settled
  <2> QED BY <2>7, <2>8, GatheredThen
<1>6. CASE L \in 3..16
  <2>1. L' # 0 /\ L' # 17 /\ L # 17 /\ L # 1
    <3> HIDE DEF L
    <3> QED BY <1>4, <1>6
  <2>2. CASE Fresh
    <3>1. After(buffer, n, L - 1, f, S)
      BY <1>1, <1>3, <1>6, <2>2, SkippedDigit DEF Fresh
    <3>2. spoilt'
      <4>1. Head(line) = CR => f[18 - L] # Head(line)
        BY <1>1, <1>6, Places, CharKinds, Zenon
      <4> QED BY <1>1, <4>1
    <3>3. Settled'
      BY <1>1, <1>2, <1>4, <3>1, <3>2, Zenon DEF Settled
    <3> QED BY <1>4, <2>1, <3>3, GatheredThen
  <2>3. CASE Settled
    <3>1. Head(line) = f[18 - L]
      BY <2>3, NextIs DEF Settled
    <3>2. Head(line) # CR
      BY <1>1, <1>6, <3>1, Places, CharKinds, Zenon
    <3>3. spoilt
      BY <2>3 DEF Settled
    <3> QED BY <3>2, <3>3
  <2>4. CASE Refused
    BY <2>1, <2>4 DEF Refused
  <2> QED BY <1>1, <2>1, <2>2, <2>3, <2>4, GatheredBy
<1>7. CASE L = 2
  <2>1. L' = 1 /\ L # 17 /\ L # 1 /\ L \in 1..2 /\ L' \in 1..2
    BY <1>4, <1>7
  <2>2. CASE Fresh /\ (~spoilt' \/ Head(line) = CR)
    <3>1. Suffix(buffer, n, f, 15)
      BY <1>7, <2>2 DEF Fresh, Part, Limit
    <3>2. ~(L' >= 2) /\ ~(L' > 2)
      <4> HIDE DEF L
      <4> QED BY <2>1
    <3>3. Suffix(buffer', n', f', 15)
      BY <1>2, <3>1
    <3>4. Fresh'
      BY <3>2, <3>3 DEF Fresh, Part, Limit
    <3> QED BY <2>1, <3>4, GatheredThen
  <2>3. CASE Fresh /\ ~spoilt /\ spoilt' /\ isLastByteCR' = isLastByteCR
    <3>1. ~isLastByteCR'
      BY <1>7, <2>3 DEF Fresh
    <3>2. Refused'
      BY <1>1, <1>2, <2>1, <2>3, <3>1 DEF Refused
    <3> QED BY <2>1, <3>2, GatheredThen
  <2>4. CASE Settled
    <3>1. After(buffer, n, L', f, S)
      BY <1>3, <2>1, <2>4, NothingComes, Zenon DEF Settled
    <3>2. Settled'
      BY <1>1, <1>2, <2>4, <3>1 DEF Settled
    <3> QED BY <2>1, <3>2, GatheredThen
  <2>5. CASE Refused
    BY <2>1, <2>5 DEF Refused
  <2> QED BY <1>1, <2>1, <2>2, <2>3, <2>4, <2>5, GatheredBy
<1>8. CASE L = 1
  <2>1. L' = 0 /\ L # 17
    BY <1>4, <1>8
  <2>2. CASE Fresh
    <3>1. Suffix(buffer, n - 0, f, 15) /\ 0 \in 0..1 /\ 0 <= n
      BY <1>3, <1>8, <2>2 DEF Fresh, Part, Limit
    <3>2. Suffix(buffer', n' - 0, f, 15) /\ 0 <= n'
      BY <1>2, <3>1
    <3>3. \E g \in S' : Leftover(g)'
      BY <1>1, <1>2, <3>1, <3>2 DEF Leftover
    <3> QED BY <2>1, <3>3, GatheredThen
  <2>3. CASE Settled \/ Refused
    <3>1. EndOf(line, f) /\ spoilt
      BY <2>3 DEF Settled, Refused
    <3>2. Head(line) = LF
      <4>1. Head(line) = f[18 - L]
        BY <3>1, NextIs
      <4> QED BY <1>1, <1>8, <4>1, Places
    <3> QED BY <3>1, <3>2, CharKinds
  <2> QED BY <1>1, <2>1, <2>2, <2>3, GatheredBy
<1> QED BY <1>1, <1>5, <1>6, <1>7, <1>8, LengthKinds, Zenon

\* A digit is stored.
LEMMA GatheredDigit ==
  ASSUME Requests, IInv, Rest, Rest', Gathered, line # <<>>, line' = Tail(line), ~busy,
         UNCHANGED <<sent, spoilt>>, Digit(Head(line))
  PROVE  Gathered'
<1> DEFINE L == Len(line)
           f == LastSent
           S == SentFrames
           n == Stored
           c == Head(line)
<1>1. /\ sent # <<>> /\ f \in Frames /\ f \in S /\ L \in 1..17
      /\ Len(line') = L - 1 /\ EndOf(line', f)
      /\ ~spoilt => c = f[18 - L]
  BY LineChars
<1>2. /\ IsHex(c) /\ bIndex > 0 /\ bIndex < BufSize /\ bIndex' = bIndex + 1
      /\ buffer'[bIndex] = c /\ isLastByteCR' = isLastByteCR
      /\ \A i \in 0..(bIndex - 1) : buffer'[i] = buffer[i]
  BY DEF Digit
<1>3. n \in Nat /\ bIndex = n + 1 /\ bIndex \in Nat
  BY <1>2 DEF IInv, Typed, Stored
<1>4. S' = S /\ f' = f /\ n' = n + 1
  BY <1>2, <1>3, SameSent DEF Stored
<1>5. buffer'[n + 1] = c /\ \A i \in 1..n : buffer'[i] = buffer[i]
  BY <1>2, <1>3
<1> DEFINE d == buffer'
<1> HIDE DEF d
<1>6. d[n + 1] = c /\ \A i \in 1..n : d[i] = buffer[i]
  BY <1>5 DEF d
<1>7. L' = L - 1 /\ n + 1 \in Nat
  BY <1>1, <1>3
<1>8. CASE L = 17
  <2>1. PICK g \in S : Leftover(g)
    BY <1>1, <1>2, <1>8, GatheredBy, Zenon
  <2>2. g \in Frames
    BY Element DEF SentFrames, Rest
  <2>3. PICK y \in 0..1 : y <= n /\ Suffix(buffer, n - y, g, 15)
    BY <2>1 DEF Leftover
  <2>4. /\ y + 1 \in 0..2 /\ y + 1 <= n + 1 /\ (n + 1) - (y + 1) = n - y
        /\ n - y \in Nat /\ n - y <= n
    BY <1>3, <2>3
  <2>5. Suffix(d, (n + 1) - (y + 1), g, 15)
    <3>1. Suffix(d, n - y, g, 15)
      <4>1. \A i \in 1..(n - y) : d[i] = buffer[i]
        BY <1>3, <1>6, <2>4
      <4> QED BY <2>3, <4>1 DEF Suffix
    <3> QED BY <2>4, <3>1
  <2>6. After(d, n + 1, 16, f, S)
    BY <1>1, <1>7, <2>2, <2>4, <2>5, SkippedColon, Zenon
  <2>7. spoilt'
    <3>1. f[18 - L] # c
      <4>1. f[18 - L] = COLON
        BY <1>1, <1>8, Places
      <4>2. c # COLON
        BY <1>2, CharKinds
      <4> QED BY <4>1, <4>2
    <3> QED BY <1>1, <3>1
  <2>8. L' = 16 /\ L' # 17 /\ L' # 0
    <3> HIDE DEF L
    <3> QED BY <1>7, <1>8
  <2>9. Settled'
    BY <1>1, <1>4, <2>6, <2>7, <2>8, Zenon DEF Settled, d
  <2> QED BY <2>8, <2>9, GatheredThen
<1>9. CASE L \in 3..16
  <2>1. L' # 0 /\ L' # 17 /\ L # 17 /\ L # 1 /\ L >= 2
    <3> HIDE DEF L
    <3> QED BY <1>7, <1>9
  <2>2. CASE Fresh /\ c = f[18 - L]
    <3>1. Part(buffer, n, L, f) /\ ~isLastByteCR
      BY <2>1, <2>2 DEF Fresh
    <3>2. d[n + 1] = f[18 - L]
      BY <1>6, <2>2
    <3>3. Part(d, n + 1, L - 1, f)
      BY <1>3, <1>6, <1>9, <3>1, <3>2, RightDigit, Zenon
    <3>4. Fresh'
      BY <1>2, <1>4, <1>7, <3>1, <3>3, Zenon DEF Fresh, d
    <3> QED BY <2>1, <3>4, GatheredThen
  <2>3. CASE Fresh /\ c # f[18 - L]
    <3>1. Part(buffer, n, L, f)
      BY <2>3 DEF Fresh
    <3>2. d[n + 1] # f[18 - L]
      BY <1>6, <2>3
    <3>3. After(d, n + 1, L - 1, f, S)
      BY <1>1, <1>3, <1>6, <1>9, <3>1, <3>2, WrongDigit, Zenon
    <3>4. spoilt'
      BY <1>1, <2>3
    <3>5. Settled'
      BY <1>1, <1>4, <1>7, <3>3, <3>4, Zenon DEF Settled, d
    <3> QED BY <2>1, <3>5, GatheredThen
  <2>4. CASE Settled
    <3>1. c = f[18 - L]
      BY <2>4, NextIs DEF Settled
    <3>2. d[n + 1] = f[18 - L] /\ After(buffer, n, L, f, S) /\ spoilt'
      BY <1>6, <2>4, <3>1 DEF Settled
    <3>3. After(d, n + 1, L - 1, f, S)
      BY <1>3, <1>6, <1>9, <3>2, ComingDigit, Zenon
    <3>4. Settled'
      BY <1>1, <1>4, <1>7, <3>2, <3>3, Zenon DEF Settled, d
    <3> QED BY <2>1, <3>4, GatheredThen
  <2>5. CASE Refused
    BY <2>1, <2>5 DEF Refused
  <2> QED BY <1>1, <1>2, <2>1, <2>2, <2>3, <2>4, <2>5, GatheredBy
<1>10. CASE L = 2
  <2>1. L' = 1 /\ L' # 17 /\ L' # 0 /\ L # 17 /\ L # 1 /\ L >= 2
    <3> HIDE DEF L
    <3> QED BY <1>7, <1>10
  <2>2. f[18 - L] # c
    <3>1. f[18 - L] = CR
      BY <1>1, <1>10, Places
    <3>2. c # CR
      BY <1>2, CharKinds
    <3> QED BY <3>1, <3>2
  <2>3. CASE Fresh
    <3>1. ~isLastByteCR' /\ spoilt'
      BY <1>1, <1>2, <2>1, <2>2, <2>3 DEF Fresh
    <3>2. Refused'
      BY <1>1, <1>4, <2>1, <3>1 DEF Refused
    <3> QED BY <2>1, <3>2, GatheredThen
  <2>4. CASE Settled
    BY <2>2, <2>4, NextIs DEF Settled
  <2>5. CASE Refused
    BY <2>1, <2>5 DEF Refused
  <2> QED BY <1>1, <1>2, <2>1, <2>3, <2>4, <2>5, GatheredBy
<1>11. CASE L = 1
  <2>1. L' = 0 /\ L' # 17 /\ L # 17
    <3> HIDE DEF L
    <3> QED BY <1>7, <1>11
  <2>2. CASE Fresh
    <3>1. Suffix(buffer, n, f, 15)
      BY <1>11, <2>2 DEF Fresh, Part, Limit
    <3>2. Suffix(d, n, f, 15)
      BY <1>6, <3>1 DEF Suffix
    <3>3. (n + 1) - 1 = n /\ 1 \in 0..1 /\ 1 <= n + 1
      BY <1>3
    <3>4. 1 <= n' /\ Suffix(buffer', n' - 1, f, 15)
      BY <1>4, <3>2, <3>3 DEF d
    <3>5. \E g \in S' : Leftover(g)'
      BY <1>1, <1>4, <3>3, <3>4 DEF Leftover
    <3> QED BY <2>1, <3>5, GatheredThen
  <2>3. CASE Settled \/ Refused
    <3>1. EndOf(line, f)
      BY <2>3 DEF Settled, Refused
    <3>2. c = LF
      <4>1. c = f[18 - L]
        BY <3>1, NextIs
      <4> QED BY <1>1, <1>11, <4>1, Places
    <3> QED BY <1>2, <3>2, CharKinds
  <2> QED BY <1>1, <1>2, <2>1, <2>2, <2>3, GatheredBy
<1> QED BY <1>1, <1>8, <1>9, <1>10, <1>11, LengthKinds, Zenon

LEMMA Limits == \A n \in 1..17 : n - 1 # 0 => n - 1 # 17 /\ Limit(n - 1) \in 1..15
BY DEF Limit

LEMMA GatheredUart ==
  ASSUME Requests, IInv, Kept, Rest, Rest', Gathered, NoReturn, UartByte
  PROVE  Gathered'
<1> DEFINE c == Head(line)
<1>1. at' = at /\ bIndex \in 0..BufSize /\ line # <<>> /\ line' = Tail(line)
      /\ UNCHANGED <<sent, spoilt>>
  BY DEF UartByte, IInv, Typed
<1>2. /\ LastSent \in Frames /\ LastSent \in SentFrames /\ Len(line) \in 1..17 /\ c \in Chars
      /\ Len(line') = Len(line) - 1
  BY <1>1, LineChars
<1>3. CASE busy
  <2>1. busy'
    BY <1>3 DEF UartByte, ByteWhileBusy, FirstByte, LineFeed, CarriageReturn, FrameByte, recvVars
  <2> QED BY <2>1 DEF Gathered
<1>4. CASE ~busy
  <2>1. Begun(c) \/ Handed(c) \/ Ended \/ Returned(c) \/ Digit(c) \/ Dropped
    BY <1>2, <1>4, UartKinds
  <2>2. CASE Begun(c)
    <3>1. bIndex' = 1 /\ ~isLastByteCR' /\ Stored' = 0 /\ Stored' \in Nat
      BY <2>2 DEF Begun, Stored
    <3>2. SentFrames' = SentFrames /\ LastSent' = LastSent
      BY <1>1, SameSent
    <3>3. \A b, f, e : e \in 1..15 => Suffix(b, 0, f, e)
      BY DEF Suffix
    <3>4. CASE Len(line') = 0
      <4>1. Suffix(buffer', 0, LastSent, 15) /\ 0 - 0 = 0 /\ 0 \in 0..1 /\ 0 <= 0
        BY <3>3
      <4>2. \E g \in SentFrames' : Leftover(g)'
        BY <1>2, <3>1, <3>2, <4>1 DEF Leftover
      <4>3. Len(line)' # 17 /\ Len(line)' = 0
        BY <3>4
      <4> QED BY <4>2, <4>3, GatheredThen
    <3>5. CASE Len(line') # 0
      <4>1. Len(line') # 17 /\ Limit(Len(line')) \in 1..15
        BY <1>2, <3>5, Limits
      <4>2. (IF Len(line') > 2 THEN 17 - Len(line') ELSE 15) \in 1..15
        BY <4>1 DEF Limit
      <4>3. Part(buffer', 0, Len(line'), LastSent)
        BY <3>3, <4>2 DEF Part, Limit
      <4>4. Fresh'
        BY <3>1, <3>2, <4>3 DEF Fresh
      <4> QED BY <3>5, <4>1, <4>4, GatheredThen
    <3> QED BY <3>4, <3>5
  <2>3. CASE Handed(c)
    BY <2>3 DEF Handed, Gathered
  <2>4. CASE Ended
    BY <2>4 DEF Ended, Gathered
  <2>5. CASE Returned(c)
    <3>1. c = CR /\ bIndex > 0 /\ ~busy' /\ bIndex' = bIndex /\ buffer' = buffer
      BY <2>5 DEF Returned
    <3>2. CASE bIndex < BufSize
      <4>1. isLastByteCR' /\ busy' = busy
        <5>1. CarriageReturn
          BY <1>4, <3>1, CharKinds DEF UartByte, ByteWhileBusy, FirstByte, FrameByte
        <5> QED BY <5>1 DEF CarriageReturn
      <4> QED BY <1>1, <1>4, <3>1, <3>2, <4>1, GatheredSame
    <3>3. CASE bIndex = BufSize
      BY <1>1, <3>1, <3>3, Sizes DEF Gathered
    <3> QED BY <1>1, <3>2, <3>3, Sizes
  <2>6. CASE Digit(c)
    BY <1>1, <1>4, <2>6, GatheredDigit
  <2>7. CASE Dropped
    BY <2>7, Sizes DEF Dropped, Gathered
  <2> QED BY <2>1, <2>2, <2>3, <2>4, <2>5, <2>6, <2>7
<1> QED BY <1>3, <1>4

LEMMA GatheredLine ==
  ASSUME Requests, IInv, Rest, Rest', Gathered, LineStep
  PROVE  Gathered'
<1>1. UNCHANGED <<buffer, bIndex, busy, isLastByteCR>> /\ bIndex \in 0..BufSize
  BY DEF LineStep, MasterSends, CharacterLost, CharacterReplaced, recvVars, IInv, Typed
<1> SUFFICES ASSUME ~busy, bIndex > 0, bIndex < BufSize PROVE Gathered'
  BY <1>1 DEF Gathered
<1>2. Stored' = Stored
  BY <1>1 DEF Stored
<1>3. CASE MasterSends
  <2>1. PICK f \in Frames : line' = f /\ sent' = Append(sent, f)
    BY <1>3 DEF MasterSends
  <2>2. Len(line') = 17
    BY <2>1, FrameChars
  <2>3. SentFrames \subseteq SentFrames'
    BY <2>1, SentGrows DEF Rest
  <2>4. Len(line) = 0
    BY <1>3 DEF MasterSends
  <2>5. PICK g \in SentFrames : Leftover(g)
    BY <2>4 DEF Gathered
  <2>6. Leftover(g)'
    BY <1>1, <1>2, <2>5 DEF Leftover
  <2> QED BY <2>2, <2>3, <2>5, <2>6 DEF Gathered
<1>4. CASE CharacterLost
  <2>1. line # <<>> /\ ~spoilt /\ line' = Tail(line) /\ spoilt' /\ UNCHANGED sent
    BY <1>4 DEF CharacterLost
  <2> QED BY <1>1, <2>1, GatheredSame
<1>5. CASE CharacterReplaced
  <2>1. PICK c \in Noise : line' = <<c>> \o Tail(line)
    BY <1>5 DEF CharacterReplaced
  <2>2. line # <<>> /\ ~spoilt /\ UNCHANGED sent
    BY <1>5 DEF CharacterReplaced
  <2>3. /\ Len(line) \in 1..17 /\ Tail(line) \in Seq(Byte) /\ Len(Tail(line)) = Len(line) - 1
    BY <2>2, LineChars
  <2>4. Len(line') = Len(line)
    BY <2>1, <2>3, Sent
  <2>5. SentFrames' = SentFrames /\ LastSent' = LastSent
    BY <2>2, SameSent
  <2>6. CASE Len(line) = 17
    <3>1. PICK g \in SentFrames : Leftover(g)
      BY <2>3, <2>6, GatheredBy, Zenon
    <3>2. Leftover(g)'
      BY <1>1, <1>2, <3>1 DEF Leftover
    <3>3. Len(line)' = 17
      BY <2>4, <2>6
    <3> QED BY <2>5, <3>1, <3>2, <3>3 DEF Gathered
  <2>7. CASE Len(line) # 17
    <3>1. Fresh
      BY <2>2, <2>3, <2>7, GatheredBy DEF Settled, Refused
    <3>2. Fresh'
      BY <1>1, <1>2, <2>4, <2>5, <3>1, Zenon DEF Fresh
    <3>3. Len(line)' # 17 /\ Len(line)' # 0
      BY <2>3, <2>4, <2>7, LengthKinds, Zenon
    <3> QED BY <3>2, <3>3, GatheredThen
  <2> QED BY <2>6, <2>7
<1> QED BY <1>3, <1>4, <1>5 DEF LineStep

LEMMA SafeLine ==
  ASSUME Requests, HexNoise, IInv, SafeSetpoint, LineStep
  PROVE  SafeSetpoint'
<1>1. /\ UNCHANGED <<buffer, bIndex, busy, isLastByteCR, at, setpoint>>
      /\ bIndex \in 0..BufSize
  BY DEF LineStep, MasterSends, CharacterLost, CharacterReplaced, recvVars, execVars, IInv, Typed
<1>2. Kept' /\ Rest' /\ Gathered'
  BY KeptLine, RestLine, GatheredLine DEF SafeSetpoint
<1>3. Stored' = Stored
  BY <1>1 DEF Stored
<1>4. \/ UNCHANGED sent
      \/ \E f \in Frames : sent' = Append(sent, f)
  BY DEF LineStep, MasterSends, CharacterLost, CharacterReplaced
<1>5. SentFrames \subseteq SentFrames'
  BY <1>4, SameSent, SentGrows DEF SafeSetpoint, Rest
<1>6. Given'
  BY <1>1, <1>3, <1>5, HarmlessStays DEF SafeSetpoint, Given
<1>7. NoReturn' /\ Readable'
  BY <1>1, <1>3 DEF SafeSetpoint, NoReturn, Readable
<1>8. Written'
  BY <1>1, <1>5 DEF SafeSetpoint, Written
<1> QED BY <1>2, <1>6, <1>7, <1>8 DEF SafeSetpoint

LEMMA SafeUart ==
  ASSUME Requests, IInv, SafeSetpoint, UartByte
  PROVE  SafeSetpoint'
<1>1. line # <<>> /\ UNCHANGED <<sent, setpoint>>
  BY DEF UartByte, execVars
<1>2. Head(line) \in Chars
  BY <1>1, LineChars DEF SafeSetpoint
<1>3. Kept' /\ Rest'
  BY KeptUart, RestUart DEF SafeSetpoint
<1>4. Gathered' /\ Given'
  BY <1>3, GatheredUart, GivenUart DEF SafeSetpoint
<1>5. Readable' /\ NoReturn'
  BY <1>2, ReadableUart DEF SafeSetpoint
<1>6. Written'
  BY <1>1, SameSent DEF SafeSetpoint, Written
<1> QED BY <1>3, <1>4, <1>5, <1>6 DEF SafeSetpoint

LEMMA SafeMain ==
  ASSUME Requests, IInv, SafeSetpoint, MainStep
  PROVE  SafeSetpoint'
<1>1. UNCHANGED <<line, spoilt, sent, isLastByteCR>> /\ SentFrames' = SentFrames
  <2>1. UNCHANGED <<line, spoilt, sent, isLastByteCR>>
    BY DEF MainStep, MainPoll, MainSwitch, HandleFrame, GiveBack, lineVars, recvVars
  <2> QED BY <2>1, SameSent
<1>2. Kept' /\ Rest'
  BY KeptMain, RestMain DEF SafeSetpoint
<1>3. CASE MainPoll \/ MainSwitch
  <2>1. UNCHANGED <<buffer, bIndex, busy, setpoint>> /\ (at' = at \/ (at' = "frame" /\ at = "poll"))
    BY <1>3 DEF MainPoll, MainSwitch, recvVars, execVars
  <2>2. Stored' = Stored /\ LastSent' = LastSent
    BY <1>1, <2>1, SameSent DEF Stored
  <2>3. Gathered'
    BY <1>1, <2>1, <2>2 DEF SafeSetpoint, Gathered, Leftover, Fresh, Settled, Refused
  <2>4. Given' /\ Readable' /\ NoReturn' /\ Written'
    BY <1>1, <2>1, <2>2 DEF SafeSetpoint, Given, Readable, NoReturn, Written
  <2> QED BY <1>2, <2>3, <2>4 DEF SafeSetpoint
<1>4. CASE HandleFrame
  <2>1. at = "frame" /\ at' = "reset" /\ busy /\ busy' /\ bIndex' = bIndex
    BY <1>4 DEF HandleFrame, IInv, Owned
  <2>2. Gathered' /\ Given' /\ Readable' /\ NoReturn'
    BY <1>1, <2>1 DEF SafeSetpoint, Gathered, Given, Readable, NoReturn
  <2>3. Written'
    <3>1. CASE setpoint' = setpoint
      BY <1>1, <3>1 DEF SafeSetpoint, Written
    <3>2. CASE setpoint' # setpoint
      <4>1. \E g \in SentFrames : setpoint' \in Writes(g)
        BY <1>4, <3>2, Executed DEF SafeSetpoint, Kept, Rest
      <4> QED BY <1>1, <4>1 DEF Written
    <3> QED BY <3>1, <3>2
  <2> QED BY <1>2, <2>2, <2>3 DEF SafeSetpoint
<1>5. CASE GiveBack
  <2>1. /\ at \in {"reset", "clear"} /\ busy /\ UNCHANGED <<buffer, setpoint>>
        /\ (at' = "clear" /\ bIndex' = 0 /\ busy') \/ (at' = "poll" /\ bIndex' = bIndex /\ ~busy')
        /\ at = "clear" => bIndex = 0
        /\ at = "reset" => bIndex' = 0
    BY <1>5 DEF GiveBack, IInv, Owned, execVars
  <2>2. bIndex' = 0
    BY <2>1
  <2>3. Gathered' /\ Given' /\ Readable' /\ NoReturn' /\ Written'
    BY <1>1, <2>1, <2>2 DEF SafeSetpoint, Gathered, Given, Readable, NoReturn, Written, Stored
  <2> QED BY <1>2, <2>3 DEF SafeSetpoint
<1> QED BY <1>3, <1>4, <1>5 DEF MainStep

LEMMA SafeInit == Init => SafeSetpoint
<1> SUFFICES ASSUME Init PROVE SafeSetpoint
  OBVIOUS
<1>1. Kept /\ Rest
  BY KeptInit, RestInit
<1>2. Gathered /\ Given /\ NoReturn /\ Readable /\ Written
  BY DEF Init, Gathered, Given, NoReturn, Readable, Written, Stored
<1> QED BY <1>1, <1>2 DEF SafeSetpoint

LEMMA SafeSame ==
  ASSUME SafeSetpoint, UNCHANGED vars
  PROVE  SafeSetpoint'
<1>1. UNCHANGED <<line, spoilt, sent, buffer, bIndex, isLastByteCR, busy, at, setpoint>>
  BY DEF vars, lineVars, recvVars, execVars
<1>2. SentFrames' = SentFrames /\ LastSent' = LastSent /\ Stored' = Stored
  BY <1>1, SameSent DEF Stored
<1>3. Kept' /\ Rest'
  BY <1>1, <1>2 DEF SafeSetpoint, Kept, Rest
<1>4. Gathered'
  BY <1>1, <1>2 DEF SafeSetpoint, Gathered, Leftover, Fresh, Settled, Refused
<1>5. Given' /\ Readable' /\ NoReturn' /\ Written'
  BY <1>1, <1>2 DEF SafeSetpoint, Given, Readable, NoReturn, Written
<1> QED BY <1>3, <1>4, <1>5 DEF SafeSetpoint

\* The heater gets no setpoint but one that the master sent, as long as what arrives are digits
\* and line ends and no more than one character of a frame is wrong or missing, however the
\* receiver merges what is left of one frame with the next one and however the main loop
\* interleaves (modbus_ascii.c 37-240).
THEOREM SetpointsWereSent == Requests /\ HexNoise /\ Spec => []SetpointSent
<1>1. Init => SafeSetpoint
  BY SafeInit
<1>2. Requests /\ HexNoise /\ IInv /\ SafeSetpoint /\ [Next]_vars => SafeSetpoint'
  <2>1. ASSUME Requests, HexNoise, IInv, SafeSetpoint, [Next]_vars PROVE SafeSetpoint'
    <3>1. CASE UNCHANGED vars
      BY <2>1, <3>1, SafeSame
    <3>2. CASE LineStep
      BY <2>1, <3>2, SafeLine
    <3>3. CASE UartByte
      BY <2>1, <3>3, SafeUart
    <3>4. CASE MainStep
      BY <2>1, <3>4, SafeMain
    <3> QED BY <2>1, <3>1, <3>2, <3>3, <3>4 DEF Next
  <2> QED BY <2>1
<1>3. SafeSetpoint => SetpointSent
  BY DEF SafeSetpoint, Written, SentFrames, SetpointSent
<1>4. Requests /\ HexNoise => (Requests /\ HexNoise)'
  BY DEF Requests, HexNoise
<1> QED BY <1>1, <1>2, <1>3, <1>4, InvAlways, PTL DEF Spec

=============================================================================
