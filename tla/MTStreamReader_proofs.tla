------------------------ MODULE MTStreamReader_proofs ------------------------
(***************************************************************************)
(* Proofs about MTStreamReader for a ring of any size and any streams: who *)
(* may touch what the two sides share, where the file is, and that what    *)
(* lies under the client's pointer is the stream it asked for.             *)
(***************************************************************************)
EXTENDS MTStreamReader, TLAPS

Busy == IF tpc \in {"read", "ack"} THEN 1 ELSE 0

\* There is one turn at most; before the first command, and after an error, none.
Turns ==
  /\ command_sem \in Nat /\ ack_sem \in Nat
  /\ command_sem + ack_sem + Busy <= 1
  /\ cpc \in {"new", "cleanup"} => command_sem + ack_sem + Busy = 0 /\ failed = FALSE
  /\ failed = TRUE => command_sem + ack_sem + Busy = 0

Types ==
  /\ pending \in Commands /\ call \in Commands
  /\ asked.w \in 1 .. Len(Streams) /\ asked.skip \in Nat /\ asked.pzb \in 0 .. Buffer_Size
  /\ buffer \in [Places -> Byte]
  /\ read_pos \in Nat /\ need_sync \in BOOLEAN
  /\ write_pos \in Nat /\ tell \in Nat
  /\ active \in [w : 0 .. Len(Streams), pos : Nat]
  /\ count \in 0 .. Buffer_Size
  /\ running \in BOOLEAN /\ failed \in BOOLEAN
  /\ tpc \in {"wait", "read", "ack", "done"}
  /\ cpc \in {"new", "opened", "call", "cleanup", "idle", "join", "gone"}
  /\ using \in 0 .. Overbuffer_Count

\* A stream is chosen, and the read thread has still to begin on it.
Choosing == command_sem > 0 /\ pending.command = "SetActive"
Started == active.w > 0 \/ Choosing

\* What each side may count on where it is.
Control ==
  /\ tpc = "read" => active.w > 0
  /\ command_sem > 0 /\ pending.command = "BufferNext" => active.w > 0
  /\ cpc = "idle" => Started
  /\ cpc = "call" /\ call.command \in {"BufferNext", "NOP"} => Started
  /\ cpc = "call" /\ call.command = "BufferNext" => need_sync = FALSE
  /\ cpc = "call" /\ call.command = "SetActive" => using = 0
  /\ cpc = "idle" /\ need_sync = TRUE => using = 0
  /\ Choosing => need_sync = TRUE /\ asked = pending /\ write_pos = 0 /\ read_pos = 0
  /\ tpc = "read" /\ need_sync = FALSE => count <= Chunk_Size

\* Where the file is: behind only while a loop is copied out of the ring.
FileInv ==
  /\ tpc # "read" => basep = {}
  /\ failed = FALSE /\ basep = {} => tell = active.pos

\* Where the quarter begins in which the client reads.
Low == Chunk_Size * (read_pos \div Chunk_Size)

\* The bytes that the call the client waits in, a posted command and the read under
\* way have still to bring.
CallOwes == IF cpc = "call" /\ call.command = "BufferNext" THEN Chunk_Size ELSE 0
CommandOwes == IF command_sem = 0 THEN 0
               ELSE IF pending.command = "SetActive" THEN Buffer_Size
               ELSE IF pending.command = "BufferNext" THEN Chunk_Size ELSE 0
ReadOwes == IF tpc = "read" THEN count ELSE 0

\* With them the ring is full from the client's quarter on, and all but one
\* quarter of it is there already.
Ledger ==
  /\ failed = FALSE /\ Started =>
       write_pos + CallOwes + CommandOwes + ReadOwes = Buffer_Size + Low
  /\ Started /\ need_sync = FALSE => write_pos + CallOwes >= 3 * Chunk_Size + Low

Content == \A k \in Nat : Low <= k /\ k < write_pos => buffer[k % Buffer_Size] = Expected(k)

\* The copy of the ring's start behind its end is as good.
Copied ==
  Started /\ need_sync = FALSE =>
    \A k \in Nat : /\ Low <= k /\ k + CallOwes < 3 * Chunk_Size + Low
                   /\ k % Buffer_Size < Overbuffer_Count
                   => buffer[Buffer_Size + (k % Buffer_Size)] = Expected(k)

Mirror ==
  tpc # "read" /\ failed = FALSE =>
    \A j \in 0 .. (Overbuffer_Count - 1) : buffer[Buffer_Size + j] = buffer[j]

\* The place in the stream of the next byte to be written.
Place ==
  active.w > 0 /\ ~ Choosing /\ failed = FALSE =>
    /\ active.w = asked.w /\ asked.pzb <= write_pos
    /\ active.pos = Wrap(Streams[asked.w], asked.skip + (write_pos - asked.pzb))

\* The loop that is copied is in the ring from position o on, in one piece, and what
\* is still to be read does not come round to it.
LoopAt(o) ==
  LET n == size - loop_pos
      p == o % Buffer_Size
  IN  /\ basep = {p} /\ 0 < n /\ p + n <= Buffer_Size
      /\ o + n <= write_pos /\ write_pos + count <= o + Buffer_Size
      /\ loop_pos <= active.pos
      /\ \A j \in 0 .. (n - 1) : buffer[p + j] = <<active.w, loop_pos + j>>
LoopInRing == basep # {} => \E o \in 0 .. write_pos : LoopAt(o)

IInv == /\ Turns /\ Types /\ Control /\ FileInv /\ Ledger
        /\ Content /\ Copied /\ Mirror /\ Place /\ LoopInRing

-----------------------------------------------------------------------------
(* Arithmetic.                                                              *)

LEMMA Sizes ==
  /\ Chunk_Size \in Nat /\ Chunk_Size > 0 /\ Buffer_Size = 4 * Chunk_Size
  /\ Overbuffer_Count \in 1 .. Chunk_Size
  /\ Buffer_Size \in Nat /\ Buffer_Size > 0
BY BufferAssumption DEF Chunk_Size

LEMMA Times ==
  ASSUME NEW m \in Nat, NEW a \in Int, NEW b \in Int, a < b
  PROVE  m * a + m <= m * b
<1>1. PICK c \in Nat : b = a + 1 + c
  <2>1. b - a - 1 \in Nat /\ b = a + 1 + (b - a - 1)
    OBVIOUS
  <2> QED BY <2>1
<1>2. m * b = m * a + m + m * c /\ m * c >= 0
  BY <1>1
<1> QED BY <1>2

LEMMA DivMod ==
  ASSUME NEW m \in Nat, m > 0, NEW a \in Int
  PROVE  /\ a \div m \in Int /\ (a % m) \in 0 .. (m - 1)
         /\ a = m * (a \div m) + (a % m)
<1>1. a \div m \in Int
  OBVIOUS
<1>2. (a % m) \in 0 .. (m - 1)
  OBVIOUS
<1>3. a = m * (a \div m) + (a % m)
  OBVIOUS
<1> QED BY <1>1, <1>2, <1>3

\* A quotient and a remainder that fit are the ones.
LEMMA DivModIs ==
  ASSUME NEW m \in Nat, m > 0, NEW a \in Int, NEW q \in Int, NEW r \in 0 .. (m - 1),
         a = m * q + r
  PROVE  a \div m = q /\ a % m = r
<1>1. PICK d \in Int : d = a \div m
  BY DivMod
<1>2. PICK e \in 0 .. (m - 1) : e = a % m
  BY DivMod
<1>3. a = m * d + e
  BY <1>1, <1>2, DivMod
<1>4. ~ d < q
  <2> SUFFICES ASSUME d < q PROVE FALSE
    OBVIOUS
  <2>1. m * d + m <= m * q
    BY Times
  <2> QED BY <2>1, <1>3
<1>5. ~ q < d
  <2> SUFFICES ASSUME q < d PROVE FALSE
    OBVIOUS
  <2>1. m * q + m <= m * d
    BY Times
  <2> QED BY <2>1, <1>3
<1>6. d = q
  BY <1>4, <1>5
<1>7. e = r
  BY <1>3, <1>6
<1> QED BY <1>1, <1>2, <1>6, <1>7

\* Going on by n from a.
LEMMA ModOn ==
  ASSUME NEW m \in Nat, m > 0, NEW a \in Int, NEW n \in Nat
  PROVE  /\ (a % m) + n < m => (a + n) % m = (a % m) + n
         /\ m <= (a % m) + n /\ (a % m) + n < 2 * m =>
              (a + n) % m = (a % m) + n - m
<1>1. PICK d \in Int, e \in 0 .. (m - 1) : d = a \div m /\ e = a % m
  BY DivMod
<1>2. a = m * d + e
  BY <1>1, DivMod
<1>3. ASSUME e + n < m PROVE (a + n) % m = e + n
  <2>1. a + n = m * d + (e + n) /\ e + n \in 0 .. (m - 1) /\ a + n \in Int
    BY <1>2, <1>3
  <2> QED BY <2>1, DivModIs
<1>4. ASSUME m <= e + n, e + n < 2 * m PROVE (a + n) % m = e + n - m
  <2>1. m * (d + 1) = m * d + m
    OBVIOUS
  <2>2. a + n = m * (d + 1) + (e + n - m) /\ e + n - m \in 0 .. (m - 1) /\ a + n \in Int
        /\ d + 1 \in Int
    BY <1>2, <1>4, <2>1
  <2> QED BY <2>2, DivModIs
<1> QED BY <1>1, <1>3, <1>4

\* Where in a ring of m the position k is, seen from the position w.
LEMMA Apart ==
  ASSUME NEW m \in Nat, m > 0, NEW k \in Int, NEW w \in Int, NEW d \in 0 .. (m - 1),
         k = w + d \/ k = w + d - m
  PROVE  ((k % m) - w) % m = d
<1>1. PICK x \in Int, e \in 0 .. (m - 1) : x = k \div m /\ e = k % m
  BY DivMod
<1>2. k = m * x + e
  BY <1>1, DivMod
<1>3. PICK y \in Int : y = 0 - x /\ m * y = 0 - (m * x)
  <2>1. 0 - x \in Int /\ m * (0 - x) = 0 - (m * x)
    OBVIOUS
  <2> QED BY <2>1
<1>4. CASE k = w + d
  <2>1. e - w = m * y + d /\ e - w \in Int
    BY <1>2, <1>3, <1>4
  <2> QED BY <1>1, <2>1, DivModIs
<1>5. CASE k = w + d - m
  <2>1. m * (y - 1) = m * y - m /\ y - 1 \in Int
    OBVIOUS
  <2>2. e - w = m * (y - 1) + d /\ e - w \in Int
    BY <1>2, <1>3, <1>5, <2>1
  <2> QED BY <1>1, <2>1, <2>2, DivModIs
<1> QED BY <1>4, <1>5

-----------------------------------------------------------------------------
(* Streams, and the ring.                                                   *)

LEMMA StreamType ==
  ASSUME NEW w \in 1 .. Len(Streams)
  PROVE  /\ w \in DOMAIN Streams /\ Streams[w].size \in Nat
         /\ Streams[w].loop_pos \in 0 .. Streams[w].size
<1>1. w \in DOMAIN Streams
  BY StreamsAssumption
<1>2. Streams[w] \in [size : Nat, loop_pos : Nat]
  <2>1. ASSUME NEW S, Streams \in Seq(S) PROVE Streams[w] \in S
    BY <2>1
  <2> QED BY <2>1, StreamsAssumption
<1>3. Streams[w].loop_pos <= Streams[w].size
  BY <1>1, StreamsAssumption
<1> QED BY <1>1, <1>2, <1>3

LEMMA FirstStream == 1 \in 1 .. Len(Streams) /\ Len(Streams) \in Nat /\ DOMAIN Streams = 1 .. Len(Streams)
BY StreamsAssumption

IsStream(s) == s.size \in Nat /\ s.loop_pos \in 0 .. s.size

LEMMA WrapType ==
  ASSUME NEW s, IsStream(s), NEW x \in Nat
  PROVE  /\ Wrap(s, x) \in 0 .. s.size
         /\ s.loop_pos < s.size => Wrap(s, x) < s.size
         /\ Wrap(s, x) = s.size => s.loop_pos = s.size /\ s.size <= x
<1> USE DEF IsStream
<1>1. CASE x < s.size
  BY <1>1 DEF Wrap
<1>2. CASE ~ (x < s.size) /\ s.loop_pos = s.size
  BY <1>2 DEF Wrap
<1>3. CASE ~ (x < s.size) /\ s.loop_pos < s.size
  <2>1. PICK m \in Nat : m = s.size - s.loop_pos /\ m > 0
    BY <1>3
  <2>2. PICK e \in 0 .. (m - 1) : e = (x - s.loop_pos) % m
    BY <2>1, DivMod
  <2>3. Wrap(s, x) = s.loop_pos + e
    BY <1>3, <2>1, <2>2 DEF Wrap
  <2> QED BY <1>3, <2>1, <2>3
<1> QED BY <1>1, <1>2, <1>3

\* Playing on as far as the end, and from there in the loop.
LEMMA WrapOn ==
  ASSUME NEW s, IsStream(s), NEW x \in Nat, NEW n \in Nat,
         Wrap(s, x) < s.size, Wrap(s, x) + n <= s.size
  PROVE  Wrap(s, x + n) = IF Wrap(s, x) + n < s.size THEN Wrap(s, x) + n ELSE s.loop_pos
<1> USE DEF IsStream
<1>1. CASE x < s.size
  <2>1. Wrap(s, x) = x
    BY <1>1 DEF Wrap
  <2>2. CASE x + n < s.size
    BY <2>1, <2>2 DEF Wrap
  <2>3. CASE x + n = s.size /\ s.loop_pos = s.size
    BY <2>1, <2>3 DEF Wrap
  <2>4. CASE x + n = s.size /\ s.loop_pos < s.size
    <3>1. PICK m \in Nat : m = s.size - s.loop_pos /\ m > 0
      BY <2>4
    <3>2. m = m * 1 + 0 /\ 0 \in 0 .. (m - 1)
      BY <3>1
    <3>3. m % m = 0
      BY <3>1, <3>2, DivModIs
    <3>4. Wrap(s, x + n) = s.loop_pos + (m % m)
      BY <2>4, <3>1 DEF Wrap
    <3> QED BY <2>1, <2>4, <3>3, <3>4
  <2> QED BY <2>1, <2>2, <2>3, <2>4
<1>2. CASE ~ (x < s.size)
  <2>1. s.loop_pos < s.size
    BY <1>2 DEF Wrap
  <2>2. PICK m \in Nat : m = s.size - s.loop_pos /\ m > 0
    BY <2>1
  <2>3. PICK a \in Nat : a = x - s.loop_pos
    BY <1>2
  <2>4. PICK e \in 0 .. (m - 1) : e = a % m
    BY <2>2, DivMod
  <2>5. Wrap(s, x) = s.loop_pos + e /\ ~ (x + n < s.size)
    BY <1>2, <2>1, <2>2, <2>3, <2>4 DEF Wrap
  <2>6. Wrap(s, x + n) = s.loop_pos + ((a + n) % m)
    <3>1. x + n - s.loop_pos = a + n
      BY <2>3
    <3> QED BY <2>1, <2>2, <2>5, <3>1 DEF Wrap
  <2>7. CASE e + n < m
    <3>1. (a + n) % m = e + n
      <4>1. a \in Int /\ m \in Nat /\ m > 0 /\ n \in Nat /\ (a % m) + n < m
        BY <2>2, <2>4, <2>7
      <4> QED BY ONLY <2>4, <4>1, ModOn
    <3> QED BY <2>2, <2>5, <2>6, <2>7, <3>1
  <2>8. CASE e + n = m
    <3>1. (a + n) % m = 0
      <4>1. /\ a \in Int /\ m \in Nat /\ m > 0 /\ n \in Nat
            /\ m <= (a % m) + n /\ (a % m) + n < 2 * m
        BY <2>2, <2>4, <2>8
      <4> QED BY ONLY <2>4, <2>8, <4>1, ModOn
    <3> QED BY <2>2, <2>5, <2>6, <2>8, <3>1
  <2> QED BY <2>2, <2>5, <2>7, <2>8
<1> QED BY <1>1, <1>2

\* Where playing begins is already taken round the loop.
LEMMA WrapEnd ==
  ASSUME NEW s, IsStream(s), NEW x \in Nat, NEW n \in Nat, Wrap(s, x) = s.size
  PROVE  Wrap(s, x + n) = s.size
<1>1. s.loop_pos = s.size /\ s.size <= x
  BY WrapType
<1> QED BY <1>1 DEF Wrap, IsStream

LEMMA RingPlace ==
  ASSUME NEW k \in Int
  PROVE  (k % Buffer_Size) \in 0 .. (Buffer_Size - 1) /\ (k % Buffer_Size) \in Places
<1>1. (k % Buffer_Size) \in 0 .. (Buffer_Size - 1)
  BY Sizes, DivMod
<1> QED BY <1>1, Sizes DEF Places

\* What Fill changes, by position, and what it leaves.
LEMMA FillIn ==
  ASSUME NEW b, NEW w \in Nat, NEW f, NEW k \in Nat, NEW d \in 0 .. (Buffer_Size - 1),
         k = w + d, d \in DOMAIN f
  PROVE  Fill(b, w, f)[k % Buffer_Size] = f[d]
<1>1. ((k % Buffer_Size) - w) % Buffer_Size = d
  <2>1. /\ Buffer_Size \in Nat /\ Buffer_Size > 0 /\ k \in Int /\ w \in Int
        /\ k = w + d
    BY Sizes
  <2> QED BY ONLY <2>1, Apart
<1>2. PICK i \in Places : i = k % Buffer_Size /\ i < Buffer_Size
  BY RingPlace, Sizes
<1>3. Fill(b, w, f)[i] = f[(i - w) % Buffer_Size]
  BY <1>1, <1>2 DEF Fill
<1> QED BY <1>1, <1>2, <1>3

LEMMA FillOut ==
  ASSUME NEW b, NEW w \in Nat, NEW f, NEW k \in Nat, k < w, w <= k + Buffer_Size,
         \A d \in DOMAIN f : w + d # k + Buffer_Size
  PROVE  Fill(b, w, f)[k % Buffer_Size] = b[k % Buffer_Size]
<1>1. PICK d \in 0 .. (Buffer_Size - 1) : d = k + Buffer_Size - w
  BY Sizes
<1>2. ((k % Buffer_Size) - w) % Buffer_Size = d
  <2>1. /\ Buffer_Size \in Nat /\ Buffer_Size > 0 /\ k \in Int /\ w \in Int
        /\ k = w + d - Buffer_Size
    BY <1>1, Sizes
  <2> QED BY ONLY <2>1, Apart
<1>3. d \notin DOMAIN f
  BY <1>1, Sizes
<1>4. PICK i \in Places : i = k % Buffer_Size
  BY RingPlace
<1> QED BY <1>2, <1>3, <1>4 DEF Fill

LEMMA FillBehind ==
  ASSUME NEW b, NEW w, NEW f, NEW j \in 0 .. (Overbuffer_Count - 1)
  PROVE  Fill(b, w, f)[Buffer_Size + j] = b[Buffer_Size + j]
<1>1. Buffer_Size + j \in Places /\ ~ (Buffer_Size + j < Buffer_Size)
  BY Sizes DEF Places
<1> QED BY <1>1 DEF Fill

LEMMA FillType ==
  ASSUME NEW b \in [Places -> Byte], NEW w \in Nat, NEW f, \A i \in DOMAIN f : f[i] \in Byte
  PROVE  Fill(b, w, f) \in [Places -> Byte]
BY DEF Fill

LEMMA OverbufferAt ==
  ASSUME NEW b
  PROVE  /\ \A k \in Nat : Overbuffer(b)[k % Buffer_Size] = b[k % Buffer_Size]
         /\ \A j \in 0 .. (Overbuffer_Count - 1) :
              /\ Overbuffer(b)[Buffer_Size + j] = b[j]
              /\ Overbuffer(b)[j] = b[j]
         /\ b \in [Places -> Byte] => Overbuffer(b) \in [Places -> Byte]
<1>1. ASSUME NEW k \in Nat PROVE Overbuffer(b)[k % Buffer_Size] = b[k % Buffer_Size]
  BY RingPlace, Sizes DEF Overbuffer
<1>2. ASSUME NEW j \in 0 .. (Overbuffer_Count - 1)
      PROVE  /\ Overbuffer(b)[Buffer_Size + j] = b[j]
             /\ Overbuffer(b)[j] = b[j]
  <2>1. /\ Buffer_Size + j \in Places /\ ~ (Buffer_Size + j < Buffer_Size)
        /\ j \in Places /\ j < Buffer_Size /\ Buffer_Size + j - Buffer_Size = j
    BY Sizes DEF Places
  <2>2. Overbuffer(b)[j] = b[j]
    BY <2>1 DEF Overbuffer
  <2>3. PICK i \in Places : i = Buffer_Size + j /\ ~ (i < Buffer_Size) /\ i - Buffer_Size = j
    BY <2>1, Sizes
  <2>4. Overbuffer(b)[i] = b[i - Buffer_Size]
    BY <2>3 DEF Overbuffer
  <2> QED BY <2>2, <2>3, <2>4
<1>3. ASSUME b \in [Places -> Byte] PROVE Overbuffer(b) \in [Places -> Byte]
  <2>1. ASSUME NEW i \in Places, ~ (i < Buffer_Size) PROVE i - Buffer_Size \in Places
    BY <2>1, Sizes DEF Places
  <2> QED BY <1>3, <2>1 DEF Overbuffer
<1> QED BY <1>1, <1>2, <1>3

LEMMA ExpectedIs ==
  ASSUME NEW k \in Int, NEW p, ~ (k < asked.pzb), p # Streams[asked.w].size,
         Wrap(Streams[asked.w], asked.skip + (k - asked.pzb)) = p
  PROVE  Expected(k) = <<asked.w, p>>
BY DEF Expected

LEMMA ExpectedZero ==
  ASSUME NEW k \in Int, \/ k < asked.pzb
                         \/ Wrap(Streams[asked.w], asked.skip + (k - asked.pzb)) = Streams[asked.w].size
  PROVE  Expected(k) = Zero
BY DEF Expected

-----------------------------------------------------------------------------
(* Whose turn it is.                                                        *)

LEMMA TurnsInit == ASSUME Init PROVE Turns
BY DEF Init, Turns, Busy

LEMMA TurnsStep == ASSUME Turns, [Next]_vars PROVE Turns'
<1> USE DEF Turns, Busy
<1>1. CASE Dispatch
  BY <1>1 DEF Dispatch, client
<1>2. CASE ReadStretch
  BY <1>2 DEF ReadStretch, client
<1>3. CASE ZeroRest
  BY <1>3 DEF ZeroRest, client
<1>4. CASE FinishRead
  BY <1>4 DEF FinishRead, client
<1>5. CASE ReadThrows
  BY <1>5 DEF ReadThrows, client
<1>6. CASE Acknowledge
  BY <1>6 DEF Acknowledge, client, Posted, LoopOrEnd
<1>7. CASE Post
  BY <1>7 DEF Post, AwaitAck, thread
<1>8. CASE Join
  BY <1>8 DEF Join, thread
<1>9. CASE Construct
  BY <1>9 DEF Construct, thread
<1>10. CASE ConstructFails
  BY <1>10 DEF ConstructFails, thread
<1>11. CASE CallExit
  BY <1>11 DEF CallExit, thread
<1>12. CASE \E w \in DOMAIN Streams, skip \in Skips, pzb \in Pzbs : CallSetActive(w, skip, pzb)
  BY <1>12 DEF CallSetActive, thread
<1>13. CASE \E n \in 1 .. Overbuffer_Count : get_buffer(n)
  BY <1>13 DEF get_buffer, thread
<1>14. CASE \E n \in 1 .. Overbuffer_Count : advance(n)
  BY <1>14 DEF advance, thread
<1>15. CASE UNCHANGED vars
  BY <1>15 DEF vars, thread, client
<1> QED
  BY <1>1, <1>2, <1>3, <1>4, <1>5, <1>6, <1>7, <1>8, <1>9, <1>10, <1>11, <1>12, <1>13,
     <1>14, <1>15 DEF Next, ReadThread, Client, Call

LEMMA TurnsBound == ASSUME Turns PROVE OneSideAtATime
BY DEF Turns, Busy, OneSideAtATime

\* At most one side has something to do: OneSideAtATime.
THEOREM OneSide == Spec => []OneSideAtATime
<1>1. Turns /\ [Next]_vars => Turns'
  BY TurnsStep
<1>2. Init => Turns
  BY TurnsInit
<1>3. Turns => OneSideAtATime
  BY TurnsBound
<1> QED BY <1>1, <1>2, <1>3, PTL DEF Spec

LEMMA CommandCases ==
  ASSUME NEW c \in Commands
  PROVE  /\ c.command \in {"NOP", "BufferNext", "Exit", "SetActive"}
         /\ c.command = "SetActive" =>
              c.w \in 1 .. Len(Streams) /\ c.skip \in Nat /\ c.pzb \in 0 .. Buffer_Size
<1>1. CASE c \in {Command(d) : d \in {"NOP", "BufferNext", "Exit"}}
  BY <1>1 DEF Command
<1>2. ASSUME NEW w \in DOMAIN Streams, NEW skip \in Skips, NEW pzb \in Pzbs,
             c = SetActive(w, skip, pzb)
      PROVE  c.command = "SetActive" /\ c.w \in 1 .. Len(Streams) /\ c.skip \in Nat
             /\ c.pzb \in 0 .. Buffer_Size
  BY <1>2, FirstStream, BufferAssumption DEF SetActive
<1> QED BY <1>1, <1>2 DEF Commands

\* The calls of the client are commands.
LEMMA CallsAreCommands ==
  /\ \A c \in {"NOP", "BufferNext", "Exit"} : Command(c) \in Commands /\ Command(c).command = c
  /\ \A w \in DOMAIN Streams, skip \in Skips, pzb \in Pzbs :
       SetActive(w, skip, pzb) \in Commands /\ SetActive(w, skip, pzb).command = "SetActive"
<1>1. ASSUME NEW c \in {"NOP", "BufferNext", "Exit"}
      PROVE  Command(c) \in Commands /\ Command(c).command = c
  <2>1. Command(c) \in {Command(d) : d \in {"NOP", "BufferNext", "Exit"}}
    OBVIOUS
  <2>2. Command(c).command = c
    BY DEF Command
  <2> QED BY <2>1, <2>2 DEF Commands
<1>2. ASSUME NEW w \in DOMAIN Streams, NEW skip \in Skips, NEW pzb \in Pzbs
      PROVE  SetActive(w, skip, pzb) \in Commands /\ SetActive(w, skip, pzb).command = "SetActive"
  <2>1. SetActive(w, skip, pzb) \in
          {SetActive(x, y, z) : x \in DOMAIN Streams, y \in Skips, z \in Pzbs}
    OBVIOUS
  <2>2. SetActive(w, skip, pzb).command = "SetActive"
    BY DEF SetActive
  <2> QED BY <2>1, <2>2 DEF Commands
<1> QED BY <1>1, <1>2

\* What Dispatch does, by command.
LEMMA DispatchCases ==
  ASSUME Turns, Types, Dispatch
  PROVE  /\ tpc = "wait" /\ tpc' \in {"ack", "read"} /\ command_sem = 1 /\ command_sem' = 0
         /\ ack_sem' = ack_sem /\ failed = FALSE
         /\ UNCHANGED <<pending, client, basep, failed>>
         /\ running \in BOOLEAN /\ running' \in BOOLEAN
         /\ \/ /\ pending.command \in {"Exit", "NOP"} /\ tpc' = "ack"
               /\ UNCHANGED <<active, tell, count, write_pos, buffer>>
            \/ /\ pending.command = "SetActive" /\ tpc' = "read"
               /\ tell' = Wrap(Streams[pending.w], pending.skip)
               /\ active' = [w |-> pending.w, pos |-> tell']
               /\ zero_into_buffer(pending.pzb)
               /\ count' = Buffer_Size - pending.pzb
            \/ /\ pending.command = "BufferNext" /\ tpc' = "read" /\ count' = Chunk_Size
               /\ UNCHANGED <<active, tell, write_pos, buffer>>
<1>1. command_sem = 1 /\ command_sem' = 0 /\ failed = FALSE
  BY DEF Dispatch, Turns, Busy, Types
<1> QED BY <1>1 DEF Dispatch, Types

-----------------------------------------------------------------------------
(* Control.                                                                 *)

LEMMA ControlInit == ASSUME Init PROVE Control
BY DEF Init, Control, Choosing, Started, Command

\* Where the read thread is while it reads.
LEMMA Reading ==
  ASSUME Turns, Types, Control, Place, tpc = "read"
  PROVE  /\ failed = FALSE /\ command_sem = 0 /\ ack_sem = 0 /\ ~ Choosing /\ Started
         /\ active.w \in 1 .. Len(Streams) /\ active.w = asked.w
         /\ IsStream(Streams[active.w]) /\ size = Streams[active.w].size
         /\ loop_pos = Streams[active.w].loop_pos
         /\ size \in Nat /\ loop_pos \in 0 .. size
         /\ active.pos \in 0 .. size
         /\ loop_pos < size => active.pos < size
         /\ asked.pzb <= write_pos /\ write_pos - asked.pzb \in Nat
         /\ active.pos = Wrap(Streams[active.w], asked.skip + (write_pos - asked.pzb))
         /\ asked.skip + (write_pos - asked.pzb) \in Nat
<1>1. failed = FALSE /\ command_sem = 0 /\ ack_sem = 0
  BY DEF Turns, Busy, Types
<1>2. ~ Choosing
  BY <1>1 DEF Choosing
<1>3. active.w \in 1 .. Len(Streams)
  BY FirstStream DEF Types, Control
<1>4. /\ active.w = asked.w /\ asked.pzb <= write_pos
      /\ active.pos = Wrap(Streams[active.w], asked.skip + (write_pos - asked.pzb))
  BY <1>1, <1>2, <1>3 DEF Place
<1>5. PICK s : s = Streams[active.w]
  OBVIOUS
<1>6. IsStream(s)
  BY <1>3, <1>5, StreamType DEF IsStream
<1>7. write_pos - asked.pzb \in Nat /\ asked.skip + (write_pos - asked.pzb) \in Nat
  BY <1>4, Sizes DEF Types
<1>8. active.pos \in 0 .. s.size /\ (s.loop_pos < s.size => active.pos < s.size)
  BY <1>4, <1>5, <1>6, <1>7, WrapType
<1>9. size = s.size /\ loop_pos = s.loop_pos
  BY <1>5 DEF size, loop_pos
<1> QED BY <1>1, <1>2, <1>3, <1>4, <1>5, <1>6, <1>7, <1>8, <1>9 DEF Started, IsStream

LEMMA StretchFits ==
  ASSUME Turns, Types, Control, Place, tpc = "read", count > 0, active.pos # size
  PROVE  /\ Stretch \in 1 .. Buffer_Size /\ Stretch <= count /\ active.pos + Stretch <= size
         /\ (write_pos % Buffer_Size) + Stretch <= Buffer_Size
         /\ count \in Nat /\ count - Stretch \in 0 .. Buffer_Size
<1>1. /\ size \in Nat /\ active.pos \in 0 .. size
  BY Reading
<1>2. PICK p \in 0 .. (Buffer_Size - 1) : p = write_pos % Buffer_Size
  <2>1. write_pos \in Int
    BY DEF Types
  <2> QED BY <2>1, RingPlace
<1>3. count \in 0 .. Buffer_Size /\ Buffer_Size \in Nat
  BY Sizes DEF Types
<1>4. Stretch = Smaller(Buffer_Size - p, Smaller(count, size - active.pos))
  BY <1>2 DEF Stretch
<1> QED BY <1>1, <1>2, <1>3, <1>4 DEF Smaller

\* A stretch out of the ring, when it is the whole loop again.
LEMMA StretchEnds ==
  ASSUME Turns, Types, Control, Place, ReadStretch
  PROVE  /\ tpc = "read" /\ count > 0 /\ active.pos # size
         /\ active' = [w |-> active.w, pos |-> IF active.pos + Stretch # size
                                               THEN active.pos + Stretch ELSE loop_pos]
         /\ write_pos' = write_pos + Stretch /\ count' = count - Stretch
         /\ buffer' = Fill(buffer, write_pos, [i \in 0 .. (Stretch - 1) |-> Bytes(i)])
         /\ UNCHANGED <<command_sem, ack_sem, pending, client, running, failed, tpc>>
<1> USE DEF ReadStretch
<1>1. active = [w |-> active.w, pos |-> active.pos]
  BY DEF Types
<1>2. active' = [active EXCEPT !.pos = IF active.pos + Stretch # size
                                       THEN active.pos + Stretch ELSE loop_pos]
  OBVIOUS
<1>3. active' = [w |-> active.w, pos |-> IF active.pos + Stretch # size
                                         THEN active.pos + Stretch ELSE loop_pos]
  BY <1>1, <1>2
<1> QED BY <1>3

LEMMA ControlStep == ASSUME Turns, Types, Control, Place, [Next]_vars PROVE Control'
<1>20. ASSUME ReadStretch
       PROVE  /\ active'.w = active.w /\ count' <= count /\ count' \in Nat
              /\ tpc = "read" /\ command_sem = 0
  <2>1. tpc = "read" /\ count > 0 /\ active.pos # size
    BY <1>20 DEF ReadStretch
  <2>2. Stretch \in Nat /\ count \in Nat /\ count - Stretch \in Nat
    BY <2>1, StretchFits
  <2>3. active'.w = active.w /\ count' = count - Stretch
    BY <1>20, StretchEnds
  <2> QED BY <2>1, <2>2, <2>3, Reading
<1>21. ASSUME Dispatch
       PROVE  \/ tpc' = "ack" /\ active' = active /\ pending.command # "SetActive"
              \/ pending.command = "SetActive" /\ active'.w = pending.w
              \/ pending.command = "BufferNext" /\ count' = Chunk_Size /\ active' = active
  <2>1. CASE pending.command \in {"Exit", "NOP"}
    BY <1>21, <2>1, DispatchCases
  <2>2. CASE pending.command = "SetActive"
    BY <1>21, <2>2, DispatchCases
  <2>3. CASE pending.command = "BufferNext"
    BY <1>21, <2>3, DispatchCases
  <2> QED BY <1>21, <2>1, <2>2, <2>3, DispatchCases
<1> USE DEF Turns, Busy, Control, Choosing, Started
<1> pending \in Commands /\ call \in Commands /\ active \in [w : 0 .. Len(Streams), pos : Nat]
    /\ Len(Streams) \in Nat /\ count \in Nat /\ Chunk_Size \in Nat /\ write_pos \in Nat
    /\ need_sync \in BOOLEAN /\ Buffer_Size \in Nat /\ using \in Nat
  BY FirstStream, Sizes DEF Types
<1>1. CASE Dispatch
  <2>1. pending.command = "SetActive" => pending.w \in 1 .. Len(Streams)
    BY CommandCases
  <2>2. UNCHANGED <<pending, cpc, call, need_sync, using, read_pos, asked>>
    BY <1>1, DispatchCases DEF client
  <2>4. command_sem = 1 /\ command_sem' = 0
    BY <1>1, DispatchCases
  <2> QED BY <1>1, <1>21, <2>1, <2>2, <2>4
<1>2. CASE ReadStretch
  <2>1. /\ tpc' = "read"
        /\ UNCHANGED <<command_sem, pending, cpc, call, need_sync, using, read_pos, asked>>
    BY <1>2 DEF ReadStretch, client
  <2> QED BY <1>2, <1>20, <2>1
<1>3. CASE ZeroRest
  BY <1>3 DEF ZeroRest, client
<1>4. CASE FinishRead
  BY <1>4 DEF FinishRead, client
<1>5. CASE ReadThrows
  BY <1>5 DEF ReadThrows, client
<1>6. CASE Acknowledge
  BY <1>6 DEF Acknowledge, client, Posted, LoopOrEnd
<1>7. CASE Post
  BY <1>7, CommandCases DEF Post, AwaitAck, thread
<1>8. CASE Join
  BY <1>8 DEF Join, thread
<1>9. CASE Construct
  BY <1>9, CallsAreCommands DEF Construct, thread
<1>10. CASE ConstructFails
  BY <1>10, CallsAreCommands DEF ConstructFails, thread
<1>11. CASE CallExit
  BY <1>11, CallsAreCommands DEF CallExit, thread
<1>12. CASE \E w \in DOMAIN Streams, skip \in Skips, pzb \in Pzbs : CallSetActive(w, skip, pzb)
  BY <1>12, CallsAreCommands DEF CallSetActive, thread
<1>13. CASE \E n \in 1 .. Overbuffer_Count : get_buffer(n)
  BY <1>13, CallsAreCommands DEF get_buffer, thread
<1>14. CASE \E n \in 1 .. Overbuffer_Count : advance(n)
  BY <1>14, CallsAreCommands DEF advance, thread
<1>15. CASE UNCHANGED vars
  BY <1>15 DEF vars, thread, client
<1> QED
  BY <1>1, <1>2, <1>3, <1>4, <1>5, <1>6, <1>7, <1>8, <1>9, <1>10, <1>11, <1>12, <1>13,
     <1>14, <1>15 DEF Next, ReadThread, Client, Call

-----------------------------------------------------------------------------
(* Where the file is, and where in the stream the next byte comes from.     *)

LEMMA FileInit == ASSUME Init PROVE FileInv
BY DEF Init, FileInv

LEMMA FileStep == ASSUME Turns, Types, Control, Place, FileInv, [Next]_vars PROVE FileInv'
<1>1. CASE Dispatch
  <2>1. basep' = {}
    BY <1>1, DispatchCases DEF FileInv
  <2>2. tell' = active'.pos
    <3>1. tell = active.pos
      BY <1>1, DispatchCases DEF FileInv
    <3>2. CASE pending.command = "SetActive"
      BY <1>1, <3>2, DispatchCases
    <3>3. CASE pending.command # "SetActive"
      BY <1>1, <3>1, <3>3, DispatchCases
    <3> QED BY <3>2, <3>3
  <2> QED BY <2>1, <2>2 DEF FileInv
<1>2. CASE ReadStretch
  <2>1. tpc' = "read"
    BY <1>2 DEF ReadStretch
  <2>2. ASSUME basep' = {} PROVE tell' = active'.pos
    <3>1. basep = {}
      BY <1>2, <2>2 DEF ReadStretch
    <3>2. tell = active.pos
      BY <1>2, <3>1, Reading DEF FileInv, ReadStretch
    <3>3. CASE active.pos + Stretch # size
      BY <1>2, <3>1, <3>2, <3>3, StretchEnds DEF ReadStretch
    <3>4. CASE ~ (active.pos + Stretch # size)
      <4>1. active'.pos = loop_pos
        BY <1>2, <3>4, StretchEnds
      <4>2. tell' = loop_pos
        BY <1>2, <2>2, <3>1, <3>4 DEF ReadStretch
      <4> QED BY <4>1, <4>2
    <3> QED BY <3>3, <3>4
  <2> QED BY <2>1, <2>2 DEF FileInv
<1>3. CASE ZeroRest
  BY <1>3 DEF ZeroRest, FileInv
<1>4. CASE FinishRead
  BY <1>4 DEF FinishRead, FileInv, SeekAfterCopy
<1>5. CASE ReadThrows
  BY <1>5 DEF ReadThrows, FileInv
<1>6. CASE Acknowledge
  BY <1>6 DEF Acknowledge, FileInv
<1>7. CASE Post \/ Join \/ Call
  BY <1>7 DEF Post, Join, Call, Construct, ConstructFails, CallExit, CallSetActive, get_buffer,
              advance, thread, FileInv
<1>8. CASE UNCHANGED vars
  BY <1>8 DEF vars, thread, FileInv
<1> QED
  BY <1>1, <1>2, <1>3, <1>4, <1>5, <1>6, <1>7, <1>8 DEF Next, ReadThread, Client

LEMMA FileBound == ASSUME Turns, FileInv, Types PROVE FileInStep
BY DEF Turns, Busy, FileInv, FileInStep, Types

LEMMA PlaceInit == ASSUME Init PROVE Place
BY DEF Init, Place

LEMMA AskedType ==
  ASSUME Types PROVE write_pos \in Nat /\ asked.pzb \in Nat /\ asked.skip \in Nat
<1>1. asked.pzb \in 0 .. Buffer_Size
  BY DEF Types
<1> QED BY <1>1, Sizes DEF Types

LEMMA PlaceKept ==
  ASSUME Place, UNCHANGED <<active, asked, write_pos>>, failed' = FALSE => failed = FALSE,
         active.w > 0 /\ ~ Choosing' => ~ Choosing
  PROVE  Place'
BY DEF Place

LEMMA PlaceStep == ASSUME Turns, Types, Control, Place, [Next]_vars PROVE Place'
<1>1. CASE Dispatch
  <2>1. ~ Choosing'
    BY <1>1, DispatchCases DEF Choosing
  <2>2. UNCHANGED asked
    BY <1>1, DispatchCases DEF client
  <2>3. CASE pending.command = "SetActive"
    <3>1. Choosing
      BY <1>1, <2>3, DispatchCases DEF Choosing
    <3>2. asked = pending /\ write_pos = 0
      BY <3>1 DEF Control
    <3>3. /\ active'.w = pending.w /\ active'.pos = Wrap(Streams[pending.w], pending.skip)
          /\ write_pos' = write_pos + pending.pzb
      BY <1>1, <2>3, DispatchCases DEF zero_into_buffer
    <3>4. pending.pzb \in Nat /\ pending.skip \in Nat
      BY <2>3, CommandCases, Sizes DEF Types
    <3>5. write_pos' = asked.pzb /\ asked.skip + (asked.pzb - asked.pzb) = asked.skip
      BY <3>2, <3>3, <3>4
    <3> QED BY <2>2, <3>2, <3>3, <3>4, <3>5 DEF Place
  <2>4. CASE pending.command # "SetActive"
    <3>1. UNCHANGED <<active, write_pos>> /\ failed = FALSE
      BY <1>1, <2>4, DispatchCases
    <3>2. ~ Choosing
      BY <2>4 DEF Choosing
    <3> QED BY <2>2, <3>1, <3>2, PlaceKept
  <2> QED BY <2>3, <2>4
<1>2. CASE ReadStretch
  <2>1. tpc = "read" /\ count > 0 /\ active.pos # size
    BY <1>2 DEF ReadStretch
  <2> DEFINE s == Streams[active.w]
             x == asked.skip + (write_pos - asked.pzb)
             n == Stretch
  <2>2. /\ IsStream(s) /\ x \in Nat /\ active.pos = Wrap(s, x) /\ size = s.size
        /\ loop_pos = s.loop_pos /\ active.pos < s.size
    BY <2>1, Reading
  <2>3. n \in Nat /\ active.pos + n <= size
    BY <2>1, StretchFits
  <2>4. Wrap(s, x + n) = IF active.pos + n < size THEN active.pos + n ELSE loop_pos
    BY <2>2, <2>3, WrapOn
  <2>5. active'.pos = IF active.pos + n # size THEN active.pos + n ELSE loop_pos
    BY <1>2, StretchEnds
  <2>6. active'.pos = Wrap(s, x + n)
    <3>1. active.pos + n \in Int /\ size \in Int
      BY <2>1, <2>3, Reading
    <3> QED BY <2>3, <2>4, <2>5, <3>1
  <2>7. active'.w = active.w /\ active.w = asked.w /\ UNCHANGED <<asked, failed>>
    BY <1>2, <2>1, StretchEnds, Reading DEF client
  <2>8. /\ write_pos' = write_pos + n /\ asked.pzb <= write_pos'
        /\ asked.skip + (write_pos' - asked.pzb) = x + n
    <3>1. write_pos \in Nat /\ asked.pzb \in Nat /\ asked.skip \in Nat /\ asked.pzb <= write_pos
      BY <2>1, Reading, AskedType
    <3>2. write_pos' = write_pos + n
      BY <1>2, StretchEnds
    <3> QED BY <2>3, <3>1, <3>2
  <2> QED BY <2>6, <2>7, <2>8 DEF Place
<1>3. CASE ZeroRest
  <2>1. tpc = "read" /\ count > 0 /\ active.pos = size /\ write_pos' = write_pos + count
    BY <1>3 DEF ZeroRest, zero_into_buffer
  <2> DEFINE s == Streams[active.w]
             x == asked.skip + (write_pos - asked.pzb)
  <2>2. /\ IsStream(s) /\ x \in Nat /\ active.pos = Wrap(s, x) /\ size = s.size
    BY <2>1, Reading
  <2>3. count \in Nat
    BY Sizes DEF Types
  <2>4. Wrap(s, x + count) = active.pos
    BY <2>1, <2>2, <2>3, WrapEnd
  <2>5. active' = active /\ active.w = asked.w /\ UNCHANGED <<asked, failed>>
    BY <1>3, <2>1, Reading DEF client, ZeroRest
  <2>6. asked.pzb <= write_pos' /\ asked.skip + (write_pos' - asked.pzb) = x + count
    <3>1. write_pos \in Nat /\ asked.pzb \in Nat /\ asked.skip \in Nat /\ asked.pzb <= write_pos
      BY <2>1, Reading, AskedType
    <3> QED BY <2>1, <2>3, <3>1
  <2> QED BY <2>4, <2>5, <2>6 DEF Place
<1>4. CASE FinishRead
  BY <1>4, PlaceKept DEF FinishRead, client, Choosing
<1>5. CASE ReadThrows
  BY <1>5 DEF ReadThrows, Place
<1>6. CASE Acknowledge
  BY <1>6, PlaceKept DEF Acknowledge, client, Choosing
<1>7. CASE Post
  <2>1. command_sem = 0 /\ command_sem' = 1 /\ pending' = call /\ UNCHANGED <<active, failed>>
    BY <1>7 DEF Post, AwaitAck, Turns, Busy, thread
  <2>2. CASE call.command = "SetActive"
    BY <2>1, <2>2 DEF Place, Choosing
  <2>3. CASE call.command # "SetActive"
    <3>1. UNCHANGED <<asked, write_pos>>
      BY <1>7, <2>3 DEF Post
    <3>2. ~ Choosing
      BY <2>1 DEF Choosing
    <3> QED BY <2>1, <3>1, <3>2, PlaceKept
  <2> QED BY <2>2, <2>3
<1>8. CASE Construct
  <2>1. ~ Choosing
    BY <1>8 DEF Construct, Turns, Busy, Choosing
  <2> QED BY <1>8, <2>1, PlaceKept DEF Construct, thread
<1>9. CASE Join \/ ConstructFails \/ CallExit
  BY <1>9, PlaceKept DEF Join, ConstructFails, CallExit, thread, Choosing
<1>10. CASE \E w \in DOMAIN Streams, skip \in Skips, pzb \in Pzbs : CallSetActive(w, skip, pzb)
  BY <1>10, PlaceKept DEF CallSetActive, thread, Choosing
<1>11. CASE \E n \in 1 .. Overbuffer_Count : get_buffer(n) \/ advance(n)
  BY <1>11, PlaceKept DEF get_buffer, advance, thread, Choosing
<1>12. CASE UNCHANGED vars
  BY <1>12, PlaceKept DEF vars, thread, client, Choosing
<1> QED
  BY <1>1, <1>2, <1>3, <1>4, <1>5, <1>6, <1>7, <1>8, <1>9, <1>10, <1>11, <1>12
  DEF Next, ReadThread, Client, Call

-----------------------------------------------------------------------------
(* How far the ring is filled.                                              *)

LEMMA LowIs ==
  ASSUME Types
  PROVE  Low \in Nat /\ Low <= read_pos /\ read_pos < Low + Chunk_Size
<1>1. read_pos \in Nat /\ Chunk_Size \in Nat /\ Chunk_Size > 0
  BY Sizes DEF Types
<1>2. /\ read_pos \div Chunk_Size \in Nat /\ (read_pos % Chunk_Size) \in 0 .. (Chunk_Size - 1)
      /\ read_pos = Low + (read_pos % Chunk_Size)
  BY <1>1, DivMod DEF Low
<1>3. Low \in Nat
  BY <1>1, <1>2 DEF Low
<1> QED BY <1>1, <1>2, <1>3

\* advance asks for a quarter when it comes into the next one.
LEMMA LowAdvances ==
  ASSUME Types, NEW n \in 1 .. Overbuffer_Count
  PROVE  Chunk_Size * ((read_pos + n) \div Chunk_Size) =
           IF Crosses(read_pos, n) THEN Low + Chunk_Size ELSE Low
<1>1. PICK c \in Nat : c = Chunk_Size /\ c > 0 /\ n \in 1 .. c
  BY Sizes
<1>2. PICK d \in Int, e \in 0 .. (c - 1) : d = read_pos \div c /\ e = read_pos % c
                                          /\ read_pos = c * d + e
  BY <1>1, DivMod DEF Types
<1>3. Low = c * d
  BY <1>1, <1>2 DEF Low
<1>4. Crosses(read_pos, n) <=> d % 2 # ((read_pos + n) \div c) % 2
  BY <1>1, <1>2 DEF Crosses
<1>5. read_pos + n \in Int
  BY DEF Types
<1>6. CASE e + n < c
  <2>1. read_pos + n = c * d + (e + n) /\ e + n \in 0 .. (c - 1)
    BY <1>1, <1>2, <1>6
  <2>2. (read_pos + n) \div c = d
    BY <1>1, <1>5, <2>1, DivModIs
  <2> QED BY <1>1, <1>3, <1>4, <2>2
<1>7. CASE ~ (e + n < c)
  <2>1. c * (d + 1) = c * d + c /\ d + 1 \in Int
    BY <1>1, <1>2
  <2>2. read_pos + n = c * (d + 1) + (e + n - c) /\ e + n - c \in 0 .. (c - 1)
    BY <1>1, <1>2, <1>7, <2>1
  <2>3. (read_pos + n) \div c = d + 1
    BY <1>1, <1>5, <2>1, <2>2, DivModIs
  <2>4. d % 2 # (d + 1) % 2
    BY <1>2
  <2> QED BY <1>1, <1>3, <1>4, <2>1, <2>3, <2>4
<1> QED BY <1>6, <1>7

LEMMA OwesType ==
  ASSUME Types, Turns
  PROVE  CallOwes \in Nat /\ CommandOwes \in Nat /\ ReadOwes \in Nat
BY Sizes DEF Types, Turns, CallOwes, CommandOwes, ReadOwes

LEMMA LedgerInit == ASSUME Init PROVE Ledger
BY DEF Init, Ledger, Started, Choosing

LEMMA LedgerKept ==
  ASSUME Ledger, UNCHANGED <<read_pos, write_pos, need_sync>>, CallOwes' = CallOwes,
         CommandOwes' = CommandOwes, ReadOwes' = ReadOwes, Started' => Started,
         failed' = FALSE => failed = FALSE
  PROVE  Ledger'
<1>1. Low' = Low
  BY DEF Low
<1> QED BY <1>1 DEF Ledger

LEMMA LedgerStep == ASSUME Turns, Types, Control, Place, Ledger, [Next]_vars PROVE Ledger'
<1> DEFINE B == Buffer_Size
           C == Chunk_Size
<1>0. /\ B \in Nat /\ C \in Nat /\ B = 4 * C /\ Low \in Nat /\ write_pos \in Nat
      /\ CallOwes \in Nat /\ CommandOwes \in Nat /\ ReadOwes \in Nat /\ need_sync \in BOOLEAN
  BY Sizes, LowIs, OwesType DEF Types
<1>1. CASE Dispatch
  <2>1. /\ UNCHANGED <<read_pos, need_sync, cpc, call, failed>> /\ command_sem = 1
        /\ command_sem' = 0 /\ tpc = "wait" /\ failed = FALSE
    BY <1>1, DispatchCases DEF client
  <2>2. CallOwes' = CallOwes /\ Low' = Low /\ ReadOwes = 0 /\ CommandOwes' = 0
    BY <2>1 DEF CallOwes, Low, ReadOwes, CommandOwes
  <2>3. CASE pending.command = "SetActive"
    <3>1. Choosing /\ Started
      BY <2>1, <2>3 DEF Choosing, Started
    <3>2. write_pos = 0 /\ need_sync = TRUE
      BY <3>1 DEF Control
    <3>3. CommandOwes = B
      BY <2>1, <2>3 DEF CommandOwes
    <3>4. write_pos' = write_pos + pending.pzb /\ ReadOwes' = B - pending.pzb
      BY <1>1, <2>3, DispatchCases DEF zero_into_buffer, ReadOwes
    <3>5. pending.pzb \in Nat
      BY <2>3, CommandCases, Sizes DEF Types
    <3>6. write_pos' + ReadOwes' = B
      BY <1>0, <3>2, <3>4, <3>5
    <3>7. write_pos + CallOwes + B + 0 = B + Low
      BY <2>1, <2>2, <3>1, <3>3 DEF Ledger
    <3>8. write_pos' \in Int /\ ReadOwes' \in Int
      BY <1>0, <3>4, <3>5
    <3>9. write_pos' + CallOwes' + CommandOwes' + ReadOwes' = B + Low'
      <4>1. CallOwes = Low
        BY <1>0, <3>2, <3>7
      <4>2. CallOwes' = Low /\ CommandOwes' = 0 /\ Low' = Low /\ Low \in Int
        BY <1>0, <2>2, <4>1
      <4>3. PICK a \in Int, b \in Int : a = write_pos' /\ b = ReadOwes' /\ a + b = B
        BY <3>6, <3>8
      <4>4. a + Low + 0 + b = B + Low
        BY <4>2, <4>3
      <4> QED BY <4>2, <4>3, <4>4
    <3> QED BY <2>1, <3>2, <3>9 DEF Ledger
  <2>4. CASE pending.command = "BufferNext"
    <3>1. UNCHANGED <<active, write_pos>> /\ ReadOwes' = C
      BY <1>1, <2>4, DispatchCases DEF ReadOwes
    <3>2. CommandOwes = C
      BY <2>1, <2>4 DEF CommandOwes
    <3>3. Started' => Started
      BY <2>1, <3>1 DEF Started, Choosing
    <3> QED BY <1>0, <2>1, <2>2, <3>1, <3>2, <3>3 DEF Ledger
  <2>5. CASE pending.command \in {"Exit", "NOP"}
    <3>1. UNCHANGED <<active, write_pos>> /\ tpc' = "ack"
      BY <1>1, <2>5, DispatchCases
    <3>2. CommandOwes = 0 /\ ReadOwes' = 0
      BY <2>5, <3>1 DEF CommandOwes, ReadOwes
    <3>3. Started' => Started
      BY <2>1, <3>1 DEF Started, Choosing
    <3> QED BY <2>1, <2>2, <3>1, <3>2, <3>3, LedgerKept
  <2> QED BY <1>1, <2>3, <2>4, <2>5, DispatchCases
<1>2. CASE ReadStretch \/ ZeroRest
  <2>1. /\ tpc = "read" /\ tpc' = "read"
        /\ UNCHANGED <<read_pos, need_sync, cpc, call, failed, command_sem, pending>>
    BY <1>2 DEF ReadStretch, ZeroRest, client
  <2>2. \E n \in Nat : write_pos' = write_pos + n /\ count' = count - n
    <3>1. CASE ReadStretch
      <4>1. Stretch \in Nat
        BY <3>1, StretchFits DEF ReadStretch
      <4> QED BY <3>1, <4>1, StretchEnds
    <3>2. CASE ZeroRest
      <4>1. count \in Nat /\ count - count = 0
        BY Sizes DEF Types
      <4> QED BY <3>2, <4>1 DEF ZeroRest, zero_into_buffer
    <3> QED BY <1>2, <3>1, <3>2
  <2>3. PICK n \in Nat : write_pos' = write_pos + n /\ count' = count - n
    BY <2>2
  <2>4. CallOwes' = CallOwes /\ Low' = Low /\ CommandOwes' = CommandOwes /\ ReadOwes = count
        /\ ReadOwes' = count - n
    BY <2>1, <2>3 DEF CallOwes, Low, CommandOwes, ReadOwes
  <2>5. Started
    BY <2>1, Reading
  <2> HIDE DEF B, C
  <2>6. failed = FALSE => write_pos' + CallOwes' + CommandOwes' + ReadOwes' = B + Low'
    BY <1>0, <2>3, <2>4, <2>5 DEF Ledger, B
  <2>7. need_sync = FALSE => write_pos' + CallOwes' >= 3 * C + Low'
    BY <1>0, <2>3, <2>4, <2>5 DEF Ledger, C
  <2> QED BY <2>1, <2>6, <2>7 DEF Ledger, B, C
<1>3. CASE FinishRead
  <2>1. ReadOwes' = 0 /\ ReadOwes = 0
    BY <1>3 DEF FinishRead, ReadOwes
  <2> QED BY <1>3, <2>1, LedgerKept
          DEF FinishRead, client, CallOwes, CommandOwes, Started, Choosing
<1>4. CASE ReadThrows
  <2>1. Low' = Low /\ CallOwes' = CallOwes /\ UNCHANGED <<write_pos, need_sync>> /\ failed' = TRUE
    BY <1>4 DEF ReadThrows, client, Low, CallOwes
  <2>2. Started' => Started
    BY <1>4 DEF ReadThrows, Started, Choosing
  <2> QED BY <2>1, <2>2 DEF Ledger
<1>5. CASE Acknowledge
  <2>1. ReadOwes' = 0 /\ ReadOwes = 0
    BY <1>5 DEF Acknowledge, LoopOrEnd, ReadOwes
  <2> QED BY <1>5, <2>1, LedgerKept
          DEF Acknowledge, client, CallOwes, CommandOwes, Started, Choosing
<1>6. CASE Post
  <2>1. /\ command_sem = 0 /\ command_sem' = 1 /\ pending' = call /\ tpc # "read"
        /\ failed = FALSE /\ cpc = "call" /\ cpc' # "call" /\ UNCHANGED <<failed, active, tpc>>
    BY <1>6 DEF Post, AwaitAck, Turns, Busy, thread, Types
  <2>2. CommandOwes = 0 /\ ReadOwes = 0 /\ ReadOwes' = 0 /\ CallOwes' = 0
    BY <2>1 DEF CommandOwes, ReadOwes, CallOwes
  <2>3. Started => write_pos + CallOwes = B + Low
    BY <1>0, <2>1, <2>2 DEF Ledger
  <2>4. CASE call.command = "SetActive"
    <3>1. read_pos' = 0 /\ write_pos' = 0 /\ need_sync' = TRUE
      BY <1>6, <2>4 DEF Post
    <3>2. CommandOwes' = B
      BY <2>1, <2>4 DEF CommandOwes
    <3>3. Low' = 0
      <4>1. C > 0 /\ 0 = C * 0 + 0 /\ 0 \in 0 .. (C - 1)
        BY Sizes
      <4>2. 0 \div C = 0 /\ C * 0 = 0
        BY <1>0, <4>1, DivModIs
      <4> QED BY <3>1, <4>2 DEF Low
    <3> QED BY <1>0, <2>2, <3>1, <3>2, <3>3 DEF Ledger
  <2>5. CASE call.command = "NOP"
    <3>1. UNCHANGED <<read_pos, write_pos>> /\ CommandOwes' = 0 /\ CallOwes = 0 /\ Low' = Low
      BY <1>6, <2>1, <2>5 DEF Post, CommandOwes, CallOwes, Low
    <3>2. Started
      BY <2>1, <2>5 DEF Control
    <3> QED BY <1>0, <2>2, <2>3, <3>1, <3>2 DEF Ledger
  <2>6. CASE call.command = "BufferNext"
    <3>1. UNCHANGED <<read_pos, write_pos>> /\ CommandOwes' = C /\ CallOwes = C /\ Low' = Low
      BY <1>6, <2>1, <2>6 DEF Post, CommandOwes, CallOwes, Low
    <3>2. Started
      BY <2>1, <2>6 DEF Control
    <3> QED BY <1>0, <2>2, <2>3, <3>1, <3>2 DEF Ledger
  <2>7. CASE call.command = "Exit"
    <3>1. UNCHANGED <<read_pos, write_pos, need_sync>> /\ CommandOwes' = 0 /\ CallOwes = 0
      BY <1>6, <2>1, <2>7 DEF Post, CommandOwes, CallOwes
    <3>2. Started' => Started
      BY <2>1, <2>7 DEF Started, Choosing
    <3> QED BY <2>1, <2>2, <3>1, <3>2, LedgerKept
  <2> QED BY <2>4, <2>5, <2>6, <2>7, CommandCases DEF Types
<1>7. CASE Construct
  <2>1. pending'.command = "NOP" /\ command_sem = 0
    BY <1>7, CallsAreCommands DEF Construct, Turns, Busy
  <2> QED BY <1>7, <2>1, LedgerKept
          DEF Construct, thread, CallOwes, CommandOwes, ReadOwes, Started, Choosing
<1>8. CASE \/ Join \/ ConstructFails \/ CallExit \/ \E n \in 1 .. Overbuffer_Count : get_buffer(n)
           \/ \E w \in DOMAIN Streams, skip \in Skips, pzb \in Pzbs : CallSetActive(w, skip, pzb)
  <2>1. CallOwes = 0 /\ CallOwes' = 0
    BY <1>8, CallsAreCommands
    DEF Join, ConstructFails, CallExit, get_buffer, CallSetActive, CallOwes
  <2> QED BY <1>8, <2>1, LedgerKept
          DEF Join, ConstructFails, CallExit, get_buffer, CallSetActive, thread, CommandOwes,
              ReadOwes, Started, Choosing
<1>9. ASSUME NEW n \in 1 .. Overbuffer_Count, advance(n) PROVE Ledger'
  <2>1. /\ cpc = "idle" /\ read_pos' = read_pos + n
        /\ UNCHANGED <<write_pos, need_sync, failed, active, command_sem, pending, tpc, count>>
    BY <1>9 DEF advance, thread
  <2>2. /\ CallOwes = 0 /\ CommandOwes' = CommandOwes /\ ReadOwes' = ReadOwes
        /\ Started' => Started
    BY <2>1 DEF CallOwes, CommandOwes, ReadOwes, Started, Choosing
  <2>3. CASE Crosses(read_pos, n)
    <3>1. Low' = Low + C
      BY <2>1, <2>3, LowAdvances DEF Low
    <3>2. CallOwes' = C
      BY <1>9, <2>3, CallsAreCommands DEF advance, CallOwes
    <3> QED BY <1>0, <2>1, <2>2, <3>1, <3>2 DEF Ledger
  <2>4. CASE ~ Crosses(read_pos, n)
    <3>1. Low' = Low
      BY <2>1, <2>4, LowAdvances DEF Low
    <3>2. CallOwes' = 0
      BY <1>9, <2>1, <2>4 DEF advance, CallOwes
    <3> QED BY <1>0, <2>1, <2>2, <3>1, <3>2 DEF Ledger
  <2> QED BY <2>3, <2>4
<1>10. CASE UNCHANGED vars
  BY <1>10, LedgerKept DEF vars, thread, client, CallOwes, CommandOwes, ReadOwes, Started, Choosing
<1> QED
  BY <1>1, <1>2, <1>3, <1>4, <1>5, <1>6, <1>7, <1>8, <1>9, <1>10
  DEF Next, ReadThread, Client, Call

-----------------------------------------------------------------------------
(* What is in the ring.                                                     *)

\* The bytes that a read of a stretch brings are those asked for.
LEMMA BytesAreExpected ==
  ASSUME Turns, Types, Control, Place, FileInv, LoopInRing,
         tpc = "read", count > 0, active.pos # size, NEW i \in 0 .. (Stretch - 1)
  PROVE  /\ Bytes(i) = Expected(write_pos + i)
         /\ Bytes(i) \in Byte
         /\ Bytes(i) = <<active.w, active.pos + i>>
<1> DEFINE s == Streams[active.w]
           x == asked.skip + (write_pos - asked.pzb)
<1>1. /\ IsStream(s) /\ x \in Nat /\ active.pos = Wrap(s, x) /\ size = s.size
      /\ active.w = asked.w /\ active.pos \in Nat /\ size \in Nat /\ failed = FALSE
      /\ active.w \in 1 .. Len(Streams) /\ loop_pos \in Nat
      /\ active.pos < s.size
  BY Reading
<1>2. i \in Nat /\ active.pos + i < size
  <2>1. Stretch \in Nat /\ active.pos + Stretch <= size
    BY StretchFits
  <2> QED BY <1>1, <2>1
<1>3. Wrap(s, x + i) = active.pos + i
  BY <1>1, <1>2, WrapOn
<1>4. Bytes(i) = <<active.w, active.pos + i>>
  <2>1. CASE basep = {}
    <3>1. tell = active.pos
      BY <1>1, <2>1 DEF FileInv
    <3> QED BY <2>1, <3>1 DEF Bytes
  <2>2. CASE basep # {}
    <3>1. PICK o \in 0 .. write_pos : LoopAt(o)
      BY <2>2 DEF LoopInRing
    <3> DEFINE p == o % Buffer_Size
               j == active.pos - loop_pos + i
    <3>2. /\ basep = {p} /\ loop_pos <= active.pos
          /\ \A k \in 0 .. (size - loop_pos - 1) : buffer[p + k] = <<active.w, loop_pos + k>>
      BY <3>1 DEF LoopAt
    <3>3. (CHOOSE q \in basep : TRUE) = p
      BY <3>2
    <3>4. p \in Nat
      <4>1. o \in Int
        BY AskedType
      <4> QED BY <4>1, RingPlace, Sizes
    <3>5. j \in 0 .. (size - loop_pos - 1) /\ loop_pos + j = active.pos + i
      <4>1. /\ active.pos \in Nat /\ loop_pos \in Nat /\ size \in Nat /\ i \in Nat
            /\ active.pos + i < size /\ loop_pos <= active.pos
        BY <1>1, <1>2, <3>2
      <4> QED BY ONLY <4>1
    <3>6. p + (active.pos - loop_pos) + i = p + j
      BY <1>1, <1>2, <3>4
    <3>7. Bytes(i) = buffer[p + j]
      BY <2>2, <3>3, <3>6 DEF Bytes
    <3>8. buffer[p + j] = <<active.w, loop_pos + j>>
      BY <3>2, <3>5
    <3> QED BY <3>5, <3>7, <3>8
  <2> QED BY <2>1, <2>2
<1>5. Expected(write_pos + i) = <<active.w, active.pos + i>>
  <2>1. write_pos \in Nat /\ asked.pzb \in Nat /\ asked.skip \in Nat /\ asked.pzb <= write_pos
    BY AskedType, Reading
  <2>2. PICK k \in Int : k = write_pos + i
    BY <1>2, <2>1
  <2>3. ~ (k < asked.pzb) /\ asked.skip + (k - asked.pzb) = x + i
    BY <1>2, <2>1, <2>2
  <2>4. Wrap(Streams[asked.w], asked.skip + (k - asked.pzb)) = active.pos + i
    BY <1>1, <1>3, <2>3
  <2>5. active.pos + i # Streams[asked.w].size
    BY <1>1, <1>2
  <2>6. PICK p : p = active.pos + i
    OBVIOUS
  <2>7. Expected(k) = <<asked.w, p>>
    BY ONLY <2>3, <2>4, <2>5, <2>6, k \in Int, ExpectedIs
  <2> QED BY <1>1, <2>2, <2>6, <2>7
<1>6. <<active.w, active.pos + i>> \in Byte
  BY <1>1, <1>2 DEF Byte
<1> QED BY <1>4, <1>5, <1>6

\* What a read leaves as it is: the ring from the client's quarter on, and a loop that
\* is copied.
LEMMA ReadLeaves ==
  ASSUME Turns, Types, Control, Place, Ledger, tpc = "read",
         NEW f, DOMAIN f \subseteq 0 .. (count - 1), NEW k \in Nat, k < write_pos,
         Low <= k \/ write_pos + count <= k + Buffer_Size
  PROVE  Fill(buffer, write_pos, f)[k % Buffer_Size] = buffer[k % Buffer_Size]
<1>1. Started /\ failed = FALSE /\ command_sem = 0
  BY Reading
<1>2. write_pos + CallOwes + CommandOwes + ReadOwes = Buffer_Size + Low
  BY <1>1 DEF Ledger
<1>3. /\ CallOwes \in Nat /\ CommandOwes = 0 /\ ReadOwes = count /\ Low \in Nat
      /\ write_pos \in Nat /\ count \in Nat /\ Buffer_Size \in Nat
  <2>1. count \in Nat
    BY Sizes DEF Types
  <2> QED BY <1>1, <2>1, OwesType, LowIs, AskedType, Sizes DEF CommandOwes, ReadOwes
<1>4. write_pos + count <= k + Buffer_Size
  BY <1>2, <1>3
<1>5. /\ write_pos <= k + Buffer_Size
      /\ \A d \in DOMAIN f : write_pos + d # k + Buffer_Size
  BY <1>3, <1>4
<1> QED BY ONLY <1>3, <1>5, k < write_pos, k \in Nat, FillOut

LEMMA LoopInit == ASSUME Init PROVE LoopInRing
BY DEF Init, LoopInRing

LEMMA LoopStep ==
  ASSUME Turns, Types, Control, Place, FileInv, Ledger, LoopInRing, [Next]_vars
  PROVE  LoopInRing'
<1>1. CASE ReadStretch
  <2> DEFINE n == size - loop_pos
             f == [i \in 0 .. (Stretch - 1) |-> Bytes(i)]
  <2>1. /\ tpc = "read" /\ count > 0 /\ active.pos # size
        /\ active' = [w |-> active.w, pos |-> IF active.pos + Stretch # size
                                              THEN active.pos + Stretch ELSE loop_pos]
        /\ write_pos' = write_pos + Stretch /\ count' = count - Stretch
        /\ buffer' = Fill(buffer, write_pos, f)
    BY <1>1, StretchEnds
  <2>2. size' = size /\ loop_pos' = loop_pos /\ active'.w = active.w
    BY <2>1 DEF size, loop_pos
  <2>3. /\ write_pos \in Nat /\ count \in Nat /\ Stretch \in Nat /\ size \in Nat
        /\ loop_pos \in 0 .. size /\ Buffer_Size \in Nat /\ Stretch <= count
        /\ (write_pos % Buffer_Size) + Stretch <= Buffer_Size
        /\ active.pos \in Nat /\ active.pos + Stretch <= size /\ Stretch \in 0 .. Buffer_Size
        /\ count <= Buffer_Size
    <3>1. count \in 0 .. Buffer_Size
      BY DEF Types
    <3> QED BY <2>1, <3>1, AskedType, Reading, StretchFits, Sizes
  <2>4. CASE basep # {}
    <3>1. PICK o \in 0 .. write_pos : LoopAt(o)
      BY <2>4 DEF LoopInRing
    <3> DEFINE p == o % Buffer_Size
    <3>2. /\ basep = {p} /\ 0 < n /\ p + n <= Buffer_Size
          /\ o + n <= write_pos /\ write_pos + count <= o + Buffer_Size
          /\ loop_pos <= active.pos
          /\ \A j \in 0 .. (n - 1) : buffer[p + j] = <<active.w, loop_pos + j>>
      BY <3>1 DEF LoopAt
    <3>3. basep' = basep
      BY <1>1, <2>4 DEF ReadStretch, LoopJustRead
    <3>4. loop_pos <= active'.pos
      BY <2>1, <2>3, <3>2
    <3>5. o \in Nat /\ o \in 0 .. write_pos' /\ p \in Nat
      BY <2>1, <2>3, RingPlace, Sizes
    <3>6. o + n <= write_pos' /\ write_pos' + count' <= o + Buffer_Size
      BY <2>1, <2>3, <3>2, <3>5
    <3>7. ASSUME NEW j \in 0 .. (n - 1) PROVE buffer'[p + j] = <<active'.w, loop_pos + j>>
      <4>1. j \in Nat /\ p + j < Buffer_Size /\ o + j \in Nat /\ o + j < write_pos
            /\ write_pos + count <= o + j + Buffer_Size
        BY <2>3, <3>2, <3>5
      <4>2. (o + j) % Buffer_Size = p + j
        <5>1. o \in Int /\ Buffer_Size \in Nat /\ Buffer_Size > 0 /\ j \in Nat
              /\ (o % Buffer_Size) + j < Buffer_Size
          BY <3>5, <4>1, Sizes
        <5> QED BY ONLY <5>1, ModOn
      <4>3. Fill(buffer, write_pos, f)[(o + j) % Buffer_Size] = buffer[(o + j) % Buffer_Size]
        <5>1. DOMAIN f \subseteq 0 .. (count - 1)
          BY <2>3
        <5> HIDE DEF f
        <5> QED BY <2>1, <4>1, <5>1, ReadLeaves
      <4> QED BY <2>1, <3>2, <4>2, <4>3
    <3>8. LoopAt(o)'
      BY <2>2, <3>2, <3>3, <3>4, <3>6, <3>7 DEF LoopAt
    <3> QED BY <3>5, <3>8 DEF LoopInRing
  <2>5. CASE basep = {} /\ basep' # {}
    <3>1. active.pos + Stretch = size /\ LoopJustRead(Stretch)
          /\ basep' = {write_pos % Buffer_Size}
      BY <1>1, <2>5 DEF ReadStretch
    <3>2. n = Stretch /\ 0 < n /\ active.pos = loop_pos /\ active'.pos = loop_pos
      BY <2>1, <2>3, <3>1 DEF LoopJustRead
    <3> DEFINE p == write_pos % Buffer_Size
    <3>3. p \in Nat
      BY <2>3, RingPlace, Sizes
    <3>4. ASSUME NEW j \in 0 .. (n - 1) PROVE buffer'[p + j] = <<active'.w, loop_pos + j>>
      <4>1. j \in Nat /\ p + j < Buffer_Size /\ j \in 0 .. (Stretch - 1)
            /\ write_pos + j \in Nat /\ write_pos <= write_pos + j
            /\ write_pos + j < write_pos + Stretch /\ write_pos + j - write_pos = j
        BY <2>3, <3>2, <3>3
      <4>2. (write_pos + j) % Buffer_Size = p + j
        BY <2>3, <4>1, ModOn, Sizes
      <4>3. Fill(buffer, write_pos, f)[(write_pos + j) % Buffer_Size] = f[j]
        <5>1. PICK k \in Nat : k = write_pos + j
          BY <4>1
        <5>2. /\ write_pos \in Nat /\ j \in DOMAIN f /\ j \in 0 .. (Buffer_Size - 1)
          BY <2>3, <4>1
        <5>3. Fill(buffer, write_pos, f)[k % Buffer_Size] = f[j]
          <6> HIDE DEF f
          <6> QED BY ONLY <5>1, <5>2, k \in Nat, FillIn
        <5> QED BY <5>1, <5>3
      <4>4. f[j] = <<active.w, active.pos + j>>
        BY <2>1, <4>1, BytesAreExpected
      <4> QED BY <2>1, <2>2, <3>2, <4>2, <4>3, <4>4
    <3>5. PICK o \in 0 .. write_pos' : o = write_pos
      BY <2>1, <2>3
    <3>6. o + n <= write_pos' /\ write_pos' + count' <= o + Buffer_Size
      BY <2>1, <2>3, <3>2, <3>5
    <3>7. LoopAt(o)'
      BY <2>2, <2>3, <3>1, <3>2, <3>4, <3>5, <3>6 DEF LoopAt
    <3> QED BY <3>7 DEF LoopInRing
  <2>6. CASE basep' = {}
    BY <2>6 DEF LoopInRing
  <2> QED BY <2>4, <2>5, <2>6
<1>2. CASE ZeroRest
  <2>1. basep = {}
    <3> SUFFICES ASSUME basep # {} PROVE FALSE
      OBVIOUS
    <3>1. PICK o \in 0 .. write_pos : LoopAt(o)
      BY DEF LoopInRing
    <3>2. 0 < size - loop_pos
      BY <3>1 DEF LoopAt
    <3> QED BY <1>2, <3>2, Reading DEF ZeroRest
  <2> QED BY <1>2, <2>1 DEF ZeroRest, LoopInRing
<1>3. CASE FinishRead
  BY <1>3 DEF FinishRead, LoopInRing
<1>4. CASE ReadThrows
  BY <1>4 DEF ReadThrows, LoopInRing
<1>5. ASSUME tpc # "read", UNCHANGED basep PROVE LoopInRing'
  BY <1>5 DEF FileInv, LoopInRing
<1>6. CASE Dispatch \/ Acknowledge
  BY <1>5, <1>6 DEF Dispatch, Acknowledge
<1>7. CASE Post
  BY <1>5, <1>7 DEF Post, AwaitAck, thread, Turns, Busy
<1>8. ASSUME UNCHANGED <<basep, active, buffer, write_pos, count>> PROVE LoopInRing'
  <2>1. size' = size /\ loop_pos' = loop_pos
    BY <1>8 DEF size, loop_pos
  <2> QED BY <1>8, <2>1 DEF LoopInRing, LoopAt
<1>9. CASE Call \/ Join
  BY <1>8, <1>9 DEF Join, Call, Construct, ConstructFails, CallExit, CallSetActive, get_buffer,
                    advance, thread
<1>10. CASE UNCHANGED vars
  BY <1>8, <1>10 DEF vars, thread
<1> QED
  BY <1>1, <1>2, <1>3, <1>4, <1>6, <1>7, <1>9, <1>10 DEF Next, ReadThread, Client

LEMMA ContentInit == ASSUME Init PROVE Content
BY DEF Init, Content

LEMMA ContentLess ==
  ASSUME Content, UNCHANGED <<asked, write_pos>>,
         \A k \in Nat : Low <= k /\ k < write_pos => buffer'[k % Buffer_Size] = buffer[k % Buffer_Size],
         Low \in Nat, Low' \in Nat, Low <= Low'
  PROVE  Content'
<1> SUFFICES ASSUME NEW k \in Nat, Low' <= k, k < write_pos'
             PROVE  buffer'[k % Buffer_Size] = Expected(k)'
  BY DEF Content
<1>1. Low <= k /\ k < write_pos
  OBVIOUS
<1>2. Expected(k)' = Expected(k)
  BY DEF Expected
<1> QED BY <1>1, <1>2 DEF Content

LEMMA ContentStep ==
  ASSUME Turns, Types, Control, Place, FileInv, Ledger, LoopInRing, Content, [Next]_vars
  PROVE  Content'
<1>0. Low \in Nat /\ write_pos \in Nat /\ (UNCHANGED read_pos => Low' = Low)
  BY LowIs, AskedType DEF Low
<1>1. CASE Dispatch
  <2>1. UNCHANGED <<read_pos, asked>> /\ command_sem = 1
    BY <1>1, DispatchCases DEF client
  <2>2. CASE pending.command = "SetActive"
    <3> DEFINE f == [i \in 0 .. (pending.pzb - 1) |-> Zero]
    <3>1. write_pos = 0 /\ asked = pending
      BY <2>1, <2>2 DEF Control, Choosing
    <3>2. write_pos' = write_pos + pending.pzb /\ buffer' = Overbuffer(Fill(buffer, write_pos, f))
      BY <1>1, <2>2, DispatchCases DEF zero_into_buffer
    <3>3. pending.pzb \in 0 .. Buffer_Size /\ Buffer_Size \in Nat
      BY <2>2, CommandCases, Sizes DEF Types
    <3> SUFFICES ASSUME NEW k \in Nat, k < write_pos'
                 PROVE  buffer'[k % Buffer_Size] = Expected(k)'
      BY DEF Content
    <3>4. /\ k \in 0 .. (Buffer_Size - 1) /\ k \in DOMAIN f /\ k = write_pos + k
          /\ k < pending.pzb /\ f[k] = Zero
      BY <3>1, <3>2, <3>3
    <3>5. Fill(buffer, write_pos, f)[k % Buffer_Size] = f[k]
      <4> HIDE DEF f
      <4> QED BY ONLY <1>0, <3>4, k \in Nat, FillIn
    <3>6. Expected(k)' = Zero
      BY <2>1, <3>1, <3>4 DEF Expected
    <3> QED BY <3>2, <3>4, <3>5, <3>6, OverbufferAt
  <2>3. CASE pending.command # "SetActive"
    <3>1. UNCHANGED <<buffer, write_pos>>
      BY <1>1, <2>3, DispatchCases
    <3> QED BY <1>0, <2>1, <3>1, ContentLess
  <2> QED BY <2>2, <2>3
<1>2. CASE ReadStretch
  <2> DEFINE f == [i \in 0 .. (Stretch - 1) |-> Bytes(i)]
  <2>1. /\ tpc = "read" /\ count > 0 /\ active.pos # size /\ UNCHANGED <<read_pos, asked>>
        /\ write_pos' = write_pos + Stretch /\ buffer' = Fill(buffer, write_pos, f)
    BY <1>2, StretchEnds DEF client
  <2>2. Stretch \in 1 .. Buffer_Size /\ Stretch <= count /\ count \in Nat /\ Buffer_Size \in Nat
    BY <2>1, StretchFits, Sizes
  <2> SUFFICES ASSUME NEW k \in Nat, Low' <= k, k < write_pos'
               PROVE  buffer'[k % Buffer_Size] = Expected(k)'
    BY DEF Content
  <2>3. Expected(k)' = Expected(k) /\ Low <= k
    BY <1>0, <2>1 DEF Expected
  <2>4. CASE k < write_pos
    <3>1. DOMAIN f \subseteq 0 .. (count - 1)
      BY <2>2
    <3>2. Fill(buffer, write_pos, f)[k % Buffer_Size] = buffer[k % Buffer_Size]
      <4> HIDE DEF f
      <4> QED BY <2>1, <2>3, <2>4, <3>1, ReadLeaves
    <3> QED BY <2>1, <2>3, <2>4, <3>2 DEF Content
  <2>5. CASE ~ (k < write_pos)
    <3>1. PICK d \in Nat : d = k - write_pos
      BY <1>0, <2>5
    <3>2. /\ d \in 0 .. (Buffer_Size - 1) /\ d \in DOMAIN f /\ k = write_pos + d
          /\ d \in 0 .. (Stretch - 1)
      BY <1>0, <2>1, <2>2, <3>1
    <3>3. Fill(buffer, write_pos, f)[k % Buffer_Size] = f[d]
      <4> HIDE DEF f
      <4> QED BY ONLY <1>0, <3>2, k \in Nat, FillIn
    <3>4. f[d] = Expected(write_pos + d)
      BY <2>1, <3>2, BytesAreExpected
    <3> QED BY <2>1, <2>3, <3>2, <3>3, <3>4
  <2> QED BY <2>4, <2>5
<1>3. CASE ZeroRest
  <2> DEFINE f == [i \in 0 .. (count - 1) |-> Zero]
             s == Streams[active.w]
             x == asked.skip + (write_pos - asked.pzb)
  <2>1. /\ tpc = "read" /\ count > 0 /\ active.pos = size /\ UNCHANGED <<read_pos, asked>>
        /\ write_pos' = write_pos + count /\ buffer' = Overbuffer(Fill(buffer, write_pos, f))
    BY <1>3 DEF ZeroRest, zero_into_buffer, client
  <2>2. count \in 0 .. Buffer_Size /\ Buffer_Size \in Nat
    BY Sizes DEF Types
  <2> SUFFICES ASSUME NEW k \in Nat, Low' <= k, k < write_pos'
               PROVE  Fill(buffer, write_pos, f)[k % Buffer_Size] = Expected(k)'
    BY <2>1, OverbufferAt DEF Content
  <2>3. Expected(k)' = Expected(k) /\ Low <= k
    BY <1>0, <2>1 DEF Expected
  <2>4. CASE k < write_pos
    <3>1. DOMAIN f \subseteq 0 .. (count - 1)
      BY <2>2
    <3>2. Fill(buffer, write_pos, f)[k % Buffer_Size] = buffer[k % Buffer_Size]
      <4> HIDE DEF f
      <4> QED BY <2>1, <2>3, <2>4, <3>1, ReadLeaves
    <3> QED BY <2>1, <2>3, <2>4, <3>2 DEF Content
  <2>5. CASE ~ (k < write_pos)
    <3>1. PICK d \in Nat : d = k - write_pos
      BY <1>0, <2>5
    <3>2. /\ d \in 0 .. (Buffer_Size - 1) /\ d \in DOMAIN f /\ k = write_pos + d
          /\ f[d] = Zero
      BY <1>0, <2>1, <2>2, <3>1
    <3>3. Fill(buffer, write_pos, f)[k % Buffer_Size] = f[d]
      <4> HIDE DEF f
      <4> QED BY ONLY <1>0, <3>2, k \in Nat, FillIn
    <3>4. /\ IsStream(s) /\ x \in Nat /\ active.pos = Wrap(s, x) /\ size = s.size
          /\ active.w = asked.w /\ asked.pzb <= write_pos
      BY <2>1, Reading
    <3>5. Wrap(s, x + d) = s.size
      BY <2>1, <3>4, WrapEnd
    <3>6. asked.skip + (k - asked.pzb) = x + d
      BY <3>2, AskedType
    <3>7. Wrap(Streams[asked.w], asked.skip + (k - asked.pzb)) = Streams[asked.w].size
      BY <3>4, <3>5, <3>6
    <3>8. Expected(k) = Zero
      BY <3>7, ExpectedZero
    <3> QED BY <2>3, <3>2, <3>3, <3>8
  <2> QED BY <2>4, <2>5
<1>4. CASE FinishRead
  <2>1. UNCHANGED <<read_pos, asked, write_pos>> /\ buffer' = Overbuffer(buffer)
    BY <1>4 DEF FinishRead, client
  <2>2. \A k \in Nat : buffer'[k % Buffer_Size] = buffer[k % Buffer_Size]
    BY <2>1, OverbufferAt
  <2> QED BY <1>0, <2>1, <2>2, ContentLess
<1>5. CASE ReadThrows
  <2> DEFINE f == [i \in 0 .. (Stretch - 1) |-> Torn]
  <2>1. /\ tpc = "read" /\ count > 0 /\ active.pos # size
        /\ UNCHANGED <<read_pos, asked, write_pos>> /\ buffer' = Fill(buffer, write_pos, f)
    BY <1>5 DEF ReadThrows, client
  <2>2. DOMAIN f \subseteq 0 .. (count - 1)
    BY <2>1, StretchFits
  <2>3. \A k \in Nat : Low <= k /\ k < write_pos => buffer'[k % Buffer_Size] = buffer[k % Buffer_Size]
    <3> HIDE DEF f
    <3> QED BY <2>1, <2>2, ReadLeaves
  <2>4. UNCHANGED <<read_pos, asked, write_pos>>
    BY <2>1
  <2> QED BY ONLY Content, <1>0, <2>3, <2>4, ContentLess
<1>6. CASE Post
  <2>1. CASE call.command = "SetActive"
    <3>1. write_pos' = 0
      BY <1>6, <2>1 DEF Post
    <3> QED BY <3>1 DEF Content
  <2>2. CASE call.command # "SetActive"
    <3>1. UNCHANGED <<read_pos, asked, write_pos, buffer>>
      BY <1>6, <2>2 DEF Post
    <3> QED BY <1>0, <3>1, ContentLess
  <2> QED BY <2>1, <2>2
<1>7. ASSUME UNCHANGED <<read_pos, asked, write_pos, buffer>> PROVE Content'
  BY <1>0, <1>7, ContentLess
<1>8. CASE Acknowledge \/ Join \/ Construct \/ ConstructFails \/ CallExit
  BY <1>7, <1>8 DEF Acknowledge, Join, Construct, ConstructFails, CallExit, client
<1>9. CASE \/ \E n \in 1 .. Overbuffer_Count : get_buffer(n)
           \/ \E w \in DOMAIN Streams, skip \in Skips, pzb \in Pzbs : CallSetActive(w, skip, pzb)
  BY <1>7, <1>9 DEF get_buffer, CallSetActive
<1>10. ASSUME NEW n \in 1 .. Overbuffer_Count, advance(n) PROVE Content'
  <2>1. UNCHANGED <<asked, write_pos, buffer>> /\ read_pos' = read_pos + n
    BY <1>10 DEF advance
  <2>2. Low' \in Nat /\ Low <= Low'
    <3>1. Low' = Chunk_Size * ((read_pos + n) \div Chunk_Size)
      BY <2>1 DEF Low
    <3> QED BY <1>0, <3>1, LowAdvances, Sizes
  <2> QED BY <1>0, <2>1, <2>2, ContentLess
<1>11. CASE UNCHANGED vars
  BY <1>7, <1>11 DEF vars, client
<1> QED
  BY <1>1, <1>2, <1>3, <1>4, <1>5, <1>6, <1>8, <1>9, <1>10, <1>11
  DEF Next, ReadThread, Client, Call

LEMMA MirrorInit == ASSUME Init PROVE Mirror
<1>1. \A j \in 0 .. (Overbuffer_Count - 1) : j \in Places /\ Buffer_Size + j \in Places
  BY Sizes DEF Places
<1> QED BY <1>1 DEF Init, Mirror

LEMMA MirrorStep == ASSUME Turns, Types, Mirror, [Next]_vars PROVE Mirror'
<1>1. ASSUME UNCHANGED buffer, tpc' # "read" /\ failed' = FALSE => tpc # "read" /\ failed = FALSE
      PROVE  Mirror'
  BY <1>1 DEF Mirror
<1>2. CASE Dispatch
  <2>1. CASE tpc' = "read"
    BY <2>1 DEF Mirror
  <2>2. CASE tpc' # "read"
    <3>1. UNCHANGED buffer /\ tpc # "read" /\ failed = FALSE
      BY <1>2, <2>2, DispatchCases
    <3> QED BY <1>1, <3>1
  <2> QED BY <2>1, <2>2
<1>3. CASE ReadStretch \/ ZeroRest
  BY <1>3 DEF ReadStretch, ZeroRest, Mirror
<1>4. CASE FinishRead
  BY <1>4, OverbufferAt DEF FinishRead, Mirror
<1>5. CASE ReadThrows
  BY <1>5 DEF ReadThrows, Mirror
<1>6. CASE Acknowledge
  BY <1>1, <1>6 DEF Acknowledge
<1>7. CASE Post \/ Join \/ Call
  BY <1>1, <1>7 DEF Post, Join, Call, Construct, ConstructFails, CallExit, CallSetActive,
                    get_buffer, advance, thread
<1>8. CASE UNCHANGED vars
  BY <1>1, <1>8 DEF vars, thread
<1> QED
  BY <1>2, <1>3, <1>4, <1>5, <1>6, <1>7, <1>8 DEF Next, ReadThread, Client

LEMMA CopiedInit == ASSUME Init PROVE Copied
BY DEF Init, Copied, Started, Choosing

\* The copy holds what the ring's start does, as far as the ring is filled.
LEMMA CopiedFrom ==
  ASSUME Content', Ledger', write_pos' \in Nat, Low' \in Nat, CallOwes' \in Nat,
         \A j \in 0 .. (Overbuffer_Count - 1) : buffer'[Buffer_Size + j] = buffer'[j]
  PROVE  Copied'
<1> SUFFICES ASSUME Started', need_sync' = FALSE,
                    NEW k \in Nat, Low' <= k, k + CallOwes' < 3 * Chunk_Size + Low',
                    k % Buffer_Size < Overbuffer_Count
             PROVE  buffer'[Buffer_Size + (k % Buffer_Size)] = Expected(k)'
  BY DEF Copied
<1>1. write_pos' + CallOwes' >= 3 * Chunk_Size + Low'
  BY DEF Ledger
<1>2. k < write_pos'
  <2>1. \A w, c, l \in Nat : w + c >= 3 * Chunk_Size + l /\ k + c < 3 * Chunk_Size + l => k < w
    BY Sizes
  <2> QED BY <1>1, <2>1
<1>3. buffer'[k % Buffer_Size] = Expected(k)'
  BY <1>2 DEF Content
<1>4. PICK j \in 0 .. (Overbuffer_Count - 1) : j = k % Buffer_Size
  <2>1. (k % Buffer_Size) \in Nat /\ Overbuffer_Count \in Nat
    BY RingPlace, Sizes
  <2> QED BY <2>1
<1> QED BY <1>3, <1>4

LEMMA CopiedLess ==
  ASSUME Copied, UNCHANGED asked, Started' /\ need_sync' = FALSE => Started /\ need_sync = FALSE,
         \A j \in 0 .. (Overbuffer_Count - 1) : buffer'[Buffer_Size + j] = buffer[Buffer_Size + j],
         Low \in Nat, Low' \in Nat, CallOwes \in Nat, CallOwes' \in Nat,
         Low <= Low', Low' + CallOwes <= Low + CallOwes'
  PROVE  Copied'
<1> SUFFICES ASSUME Started', need_sync' = FALSE,
                    NEW k \in Nat, Low' <= k, k + CallOwes' < 3 * Chunk_Size + Low',
                    k % Buffer_Size < Overbuffer_Count
             PROVE  buffer'[Buffer_Size + (k % Buffer_Size)] = Expected(k)'
  BY DEF Copied
<1>1. Low <= k /\ k + CallOwes < 3 * Chunk_Size + Low
  <2>1. \A l, m, c, d \in Nat :
          /\ l <= m /\ m + c <= l + d /\ m <= k /\ k + d < 3 * Chunk_Size + m
          => l <= k /\ k + c < 3 * Chunk_Size + l
    BY Sizes
  <2> QED BY <2>1
<1>2. buffer[Buffer_Size + (k % Buffer_Size)] = Expected(k)
  BY <1>1 DEF Copied
<1>3. PICK j \in 0 .. (Overbuffer_Count - 1) : j = k % Buffer_Size
  <2>1. (k % Buffer_Size) \in Nat /\ Overbuffer_Count \in Nat
    BY RingPlace, Sizes
  <2> QED BY <2>1
<1>4. Expected(k)' = Expected(k)
  BY DEF Expected
<1> QED BY <1>2, <1>3, <1>4

LEMMA CopiedStep ==
  ASSUME Turns, Types, Control, Place, Ledger, Mirror, Copied, [Next]_vars,
         Content', Ledger', Types'
  PROVE  Copied'
<1>0. /\ Low \in Nat /\ write_pos' \in Nat /\ (UNCHANGED read_pos => Low' = Low)
      /\ CallOwes \in Nat /\ CallOwes' \in Nat
  BY LowIs, OwesType, Sizes DEF Low, Types, CallOwes
<1>1. ASSUME Started' /\ need_sync' = FALSE => Started /\ need_sync = FALSE, CallOwes' = CallOwes,
             UNCHANGED <<asked, read_pos>>,
             \A j \in 0 .. (Overbuffer_Count - 1) : buffer'[Buffer_Size + j] = buffer[Buffer_Size + j]
      PROVE  Copied'
  <2>1. Low' = Low /\ Low <= Low' /\ Low' + CallOwes <= Low + CallOwes'
    BY <1>0, <1>1
  <2> QED BY <1>0, <1>1, <2>1, CopiedLess
<1>2. CASE Dispatch
  <2>1. /\ UNCHANGED <<read_pos, asked, need_sync, cpc, call, pending>> /\ command_sem = 1
        /\ command_sem' = 0
    BY <1>2, DispatchCases DEF client
  <2>2. CASE pending.command = "SetActive"
    <3>1. need_sync' = TRUE
      BY <2>1, <2>2 DEF Control, Choosing
    <3> QED BY <3>1 DEF Copied
  <2>3. CASE pending.command # "SetActive"
    <3>1. UNCHANGED <<buffer, active>>
      BY <1>2, <2>3, DispatchCases
    <3>2. CallOwes' = CallOwes
      BY <2>1 DEF CallOwes
    <3>3. Started' => Started
      BY <2>1, <3>1 DEF Started, Choosing
    <3> QED BY <1>1, <2>1, <3>1, <3>2, <3>3
  <2> QED BY <2>2, <2>3
<1>3. CASE ReadStretch
  <2>1. /\ active'.w = active.w
        /\ UNCHANGED <<read_pos, asked, need_sync, cpc, call, pending, command_sem>>
        /\ buffer' = Fill(buffer, write_pos, [i \in 0 .. (Stretch - 1) |-> Bytes(i)])
    BY <1>3, StretchEnds DEF client
  <2>2. \A j \in 0 .. (Overbuffer_Count - 1) : buffer'[Buffer_Size + j] = buffer[Buffer_Size + j]
    BY <2>1, FillBehind
  <2> QED BY <1>1, <2>1, <2>2 DEF CallOwes, Started, Choosing
<1>4. CASE ZeroRest
  <2>1. UNCHANGED read_pos
    BY <1>4 DEF ZeroRest, client
  <2>2. \A j \in 0 .. (Overbuffer_Count - 1) : buffer'[Buffer_Size + j] = buffer'[j]
    BY <1>4, OverbufferAt DEF ZeroRest, zero_into_buffer
  <2> QED BY <1>0, <2>1, <2>2, CopiedFrom
<1>5. CASE FinishRead
  <2>1. UNCHANGED read_pos
    BY <1>5 DEF FinishRead, client
  <2>2. \A j \in 0 .. (Overbuffer_Count - 1) : buffer'[Buffer_Size + j] = buffer'[j]
    BY <1>5, OverbufferAt DEF FinishRead
  <2> QED BY <1>0, <2>1, <2>2, CopiedFrom
<1>6. CASE ReadThrows
  <2>1. /\ UNCHANGED <<read_pos, asked, need_sync, cpc, call, pending, command_sem, active>>
        /\ buffer' = Fill(buffer, write_pos, [i \in 0 .. (Stretch - 1) |-> Torn])
    BY <1>6 DEF ReadThrows, client
  <2>2. \A j \in 0 .. (Overbuffer_Count - 1) : buffer'[Buffer_Size + j] = buffer[Buffer_Size + j]
    BY <2>1, FillBehind
  <2> QED BY <1>1, <2>1, <2>2 DEF CallOwes, Started, Choosing
<1>7. CASE Acknowledge
  BY <1>1, <1>7 DEF Acknowledge, client, CallOwes, Started, Choosing
<1>8. CASE Post
  <2>1. /\ tpc # "read" /\ failed = FALSE /\ cpc' # "call" /\ UNCHANGED <<buffer, active>>
        /\ command_sem = 0 /\ pending' = call
    BY <1>8 DEF Post, AwaitAck, Turns, Busy, thread, Types
  <2>2. CASE call.command = "SetActive"
    <3>1. need_sync' = TRUE
      BY <1>8, <2>2 DEF Post
    <3> QED BY <3>1 DEF Copied
  <2>3. CASE call.command \in {"NOP", "BufferNext"}
    <3>1. UNCHANGED read_pos
      BY <1>8, <2>3 DEF Post
    <3>2. \A j \in 0 .. (Overbuffer_Count - 1) : buffer'[Buffer_Size + j] = buffer'[j]
      BY <2>1 DEF Mirror
    <3> QED BY <1>0, <3>1, <3>2, CopiedFrom
  <2>4. CASE call.command = "Exit"
    <3>1. UNCHANGED <<read_pos, asked, need_sync>>
      BY <1>8, <2>4 DEF Post
    <3>2. CallOwes' = CallOwes
      BY <2>1, <2>4 DEF CallOwes
    <3>3. Started' => Started
      BY <2>1, <2>4 DEF Started, Choosing
    <3> QED BY <1>1, <2>1, <3>1, <3>2, <3>3
  <2> QED BY <2>2, <2>3, <2>4, CommandCases DEF Types
<1>9. CASE Construct
  <2>1. pending'.command = "NOP"
    BY <1>9, CallsAreCommands DEF Construct
  <2> QED BY <1>1, <1>9, <2>1 DEF Construct, thread, CallOwes, Started, Choosing
<1>10. CASE \/ Join \/ ConstructFails \/ CallExit \/ \E n \in 1 .. Overbuffer_Count : get_buffer(n)
           \/ \E w \in DOMAIN Streams, skip \in Skips, pzb \in Pzbs : CallSetActive(w, skip, pzb)
  <2>1. CallOwes = 0 /\ CallOwes' = 0
    BY <1>10, CallsAreCommands
    DEF Join, ConstructFails, CallExit, get_buffer, CallSetActive, CallOwes
  <2> QED BY <1>1, <1>10, <2>1
          DEF Join, ConstructFails, CallExit, get_buffer, CallSetActive, thread, Started, Choosing
<1>11. ASSUME NEW n \in 1 .. Overbuffer_Count, advance(n) PROVE Copied'
  <2>1. /\ cpc = "idle" /\ read_pos' = read_pos + n
        /\ UNCHANGED <<asked, buffer, need_sync, active, command_sem, pending>>
    BY <1>11 DEF advance, thread
  <2>2. CallOwes = 0 /\ (Started' => Started)
    BY <2>1 DEF CallOwes, Started, Choosing
  <2>3. Low' = Chunk_Size * ((read_pos + n) \div Chunk_Size)
    BY <2>1 DEF Low
  <2>4. CallOwes' = IF Crosses(read_pos, n) THEN Chunk_Size ELSE 0
    BY <1>11, <2>1, CallsAreCommands DEF advance, CallOwes
  <2>5. Low' \in Nat /\ Low <= Low' /\ Low' + CallOwes <= Low + CallOwes'
    BY <1>0, <2>2, <2>3, <2>4, LowAdvances, Sizes
  <2> QED BY <1>0, <2>1, <2>2, <2>5, CopiedLess
<1>12. CASE UNCHANGED vars
  BY <1>1, <1>12 DEF vars, thread, client, CallOwes, Started, Choosing
<1> QED
  BY <1>2, <1>3, <1>4, <1>5, <1>6, <1>7, <1>8, <1>9, <1>10, <1>11, <1>12
  DEF Next, ReadThread, Client, Call

-----------------------------------------------------------------------------
(* Types, and the whole.                                                    *)

LEMMA TypesInit == ASSUME Init PROVE Types
<1> USE DEF Init
<1>1. pending \in Commands /\ call \in Commands
  BY CallsAreCommands
<1>2. asked.w \in 1 .. Len(Streams) /\ asked.skip \in Nat /\ asked.pzb \in 0 .. Buffer_Size
  BY FirstStream, Sizes DEF SetActive
<1>3. buffer \in [Places -> Byte]
  BY DEF Byte
<1>4. active \in [w : 0 .. Len(Streams), pos : Nat]
  BY FirstStream
<1>5. count \in 0 .. Buffer_Size /\ using \in 0 .. Overbuffer_Count
  BY Sizes
<1> QED BY <1>1, <1>2, <1>3, <1>4, <1>5 DEF Types

LEMMA TypesStep ==
  ASSUME Turns, Types, Control, Place, FileInv, LoopInRing, [Next]_vars
  PROVE  Types'
<1>1. CASE Dispatch
  <2>1. /\ UNCHANGED <<pending, call, asked, read_pos, need_sync, failed, cpc, using>>
        /\ tpc' \in {"ack", "read"} /\ running' \in BOOLEAN
    BY <1>1, DispatchCases DEF client
  <2>2. CASE pending.command = "SetActive"
    <3> DEFINE f == [i \in 0 .. (pending.pzb - 1) |-> Zero]
    <3>1. /\ tell' = Wrap(Streams[pending.w], pending.skip)
          /\ active' = [w |-> pending.w, pos |-> tell']
          /\ write_pos' = write_pos + pending.pzb
          /\ buffer' = Overbuffer(Fill(buffer, write_pos, f))
          /\ count' = Buffer_Size - pending.pzb
      BY <1>1, <2>2, DispatchCases DEF zero_into_buffer
    <3>2. pending.w \in 1 .. Len(Streams) /\ pending.skip \in Nat
          /\ pending.pzb \in 0 .. Buffer_Size
      BY <2>2, CommandCases DEF Types
    <3>3. IsStream(Streams[pending.w])
      BY <3>2, StreamType DEF IsStream
    <3>4. tell' \in Nat
      <4>1. Wrap(Streams[pending.w], pending.skip) \in 0 .. Streams[pending.w].size
        BY <3>2, <3>3, WrapType
      <4> QED BY <3>1, <3>3, <4>1 DEF IsStream
    <3>5. active' \in [w : 0 .. Len(Streams), pos : Nat]
      BY <3>1, <3>2, <3>4, FirstStream
    <3>6. write_pos' \in Nat /\ count' \in 0 .. Buffer_Size
      BY <3>1, <3>2, Sizes, AskedType
    <3>7. buffer' \in [Places -> Byte]
      <4>1. \A i \in DOMAIN f : f[i] \in Byte
        BY DEF Byte
      <4>2. buffer \in [Places -> Byte] /\ write_pos \in Nat
        BY DEF Types
      <4> HIDE DEF f
      <4>3. Fill(buffer, write_pos, f) \in [Places -> Byte]
        BY <4>1, <4>2, FillType
      <4> QED BY <3>1, <4>3, OverbufferAt
    <3> QED BY <2>1, <3>4, <3>5, <3>6, <3>7 DEF Types
  <2>3. CASE pending.command # "SetActive"
    <3>1. UNCHANGED <<active, tell, write_pos, buffer>> /\ count' \in {count, Chunk_Size}
      BY <1>1, <2>3, DispatchCases
    <3>2. count' \in 0 .. Buffer_Size
      BY <3>1, Sizes DEF Types
    <3> QED BY <2>1, <3>1, <3>2 DEF Types
  <2> QED BY <2>2, <2>3
<1>2. CASE ReadStretch
  <2> DEFINE f == [i \in 0 .. (Stretch - 1) |-> Bytes(i)]
  <2>1. /\ tpc = "read" /\ count > 0 /\ active.pos # size
        /\ active' = [w |-> active.w, pos |-> IF active.pos + Stretch # size
                                              THEN active.pos + Stretch ELSE loop_pos]
        /\ write_pos' = write_pos + Stretch /\ count' = count - Stretch
        /\ buffer' = Fill(buffer, write_pos, f)
        /\ UNCHANGED <<pending, client, running, failed, tpc>>
    BY <1>2, StretchEnds
  <2>2. /\ Stretch \in Nat /\ count - Stretch \in 0 .. Buffer_Size /\ loop_pos \in Nat
        /\ active.pos \in Nat /\ write_pos \in Nat
    BY <2>1, StretchFits, Reading, AskedType, Sizes
  <2>3. active' \in [w : 0 .. Len(Streams), pos : Nat] /\ write_pos' \in Nat
        /\ count' \in 0 .. Buffer_Size
    BY <2>1, <2>2 DEF Types
  <2>4. tell' \in Nat
    <3>1. tell \in Nat
      BY DEF Types
    <3>2. tell' \in {tell, tell + Stretch, loop_pos}
      BY <1>2 DEF ReadStretch
    <3> QED BY <2>2, <3>1, <3>2
  <2>5. buffer' \in [Places -> Byte]
    <3>1. \A i \in DOMAIN f : f[i] \in Byte
      BY <2>1, BytesAreExpected
    <3>2. buffer \in [Places -> Byte] /\ write_pos \in Nat
      BY DEF Types
    <3> QED BY <2>1, <3>1, <3>2, FillType
  <2> QED BY <2>1, <2>3, <2>4, <2>5 DEF Types, client
<1>3. CASE ZeroRest
  <2> DEFINE f == [i \in 0 .. (count - 1) |-> Zero]
  <2>1. /\ UNCHANGED <<pending, client, active, tell, running, failed, tpc>> /\ count' = 0
        /\ write_pos' = write_pos + count /\ buffer' = Overbuffer(Fill(buffer, write_pos, f))
    BY <1>3 DEF ZeroRest, zero_into_buffer
  <2>2. write_pos' \in Nat /\ count' \in 0 .. Buffer_Size
    <3>1. count \in Nat
      BY Sizes DEF Types
    <3> QED BY <2>1, <3>1, AskedType, Sizes
  <2>3. buffer' \in [Places -> Byte]
    <3>1. \A i \in DOMAIN f : f[i] \in Byte
      BY DEF Byte
    <3>2. buffer \in [Places -> Byte] /\ write_pos \in Nat
      BY DEF Types
    <3>3. Fill(buffer, write_pos, f) \in [Places -> Byte]
      <4> HIDE DEF f
      <4> QED BY <3>1, <3>2, FillType
    <3> QED BY <2>1, <3>3, OverbufferAt
  <2> QED BY <2>1, <2>2, <2>3 DEF Types, client
<1>4. CASE FinishRead
  <2>1. buffer' \in [Places -> Byte]
    BY <1>4, OverbufferAt DEF FinishRead, Types
  <2>2. tell' \in Nat
    BY <1>4 DEF FinishRead, SeekAfterCopy, Types
  <2> QED BY <1>4, <2>1, <2>2 DEF FinishRead, Types, client
<1>5. CASE ReadThrows
  <2> DEFINE f == [i \in 0 .. (Stretch - 1) |-> Torn]
  <2>1. /\ UNCHANGED <<pending, client, write_pos, active, tell, running>>
        /\ count' = 0 /\ failed' = TRUE /\ tpc' = "wait"
        /\ buffer' = Fill(buffer, write_pos, f)
    BY <1>5 DEF ReadThrows
  <2>2. buffer' \in [Places -> Byte]
    <3>1. \A i \in DOMAIN f : f[i] \in Byte
      BY DEF Byte
    <3>2. buffer \in [Places -> Byte] /\ write_pos \in Nat
      BY DEF Types
    <3> QED BY <2>1, <3>1, <3>2, FillType
  <2>3. count' \in 0 .. Buffer_Size
    BY <2>1, Sizes
  <2> QED BY <2>1, <2>2, <2>3 DEF Types, client
<1>6. CASE Acknowledge
  BY <1>6 DEF Acknowledge, LoopOrEnd, Types, client
<1>7. CASE Post
  <2>1. /\ pending' = call /\ UNCHANGED <<buffer, thread, call, using>>
        /\ cpc' \in {"idle", "join"}
    BY <1>7 DEF Post
  <2>2. read_pos' \in {0, read_pos} /\ write_pos' \in {0, write_pos}
        /\ need_sync' \in {TRUE, FALSE, need_sync}
    BY <1>7 DEF Post
  <2>3. asked'.w \in 1 .. Len(Streams) /\ asked'.skip \in Nat /\ asked'.pzb \in 0 .. Buffer_Size
    <3>1. CASE call.command = "SetActive"
      <4>1. asked' = call
        BY <1>7, <3>1 DEF Post
      <4> QED BY <3>1, <4>1, CommandCases DEF Types
    <3>2. CASE call.command # "SetActive"
      <4>1. asked' = asked
        BY <1>7, <3>2 DEF Post
      <4> QED BY <4>1 DEF Types
    <3> QED BY <3>1, <3>2
  <2>4. read_pos' \in Nat /\ write_pos' \in Nat /\ need_sync' \in BOOLEAN
    <3>1. read_pos \in Nat /\ write_pos \in Nat /\ need_sync \in BOOLEAN
      BY DEF Types
    <3>2. read_pos' \in Nat /\ write_pos' \in Nat
      BY <2>2, <3>1
    <3>3. need_sync' \in BOOLEAN
      BY <2>2, <3>1
    <3> QED BY <3>2, <3>3
  <2> QED BY <2>1, <2>3, <2>4 DEF Types, thread
<1>8. CASE Construct
  BY <1>8, CallsAreCommands DEF Construct, thread, Types
<1>9. CASE ConstructFails
  BY <1>9, CallsAreCommands DEF ConstructFails, thread, Types
<1>10. CASE CallExit
  <2>1. 0 \in 0 .. Overbuffer_Count
    BY Sizes
  <2> QED BY <1>10, <2>1, CallsAreCommands DEF CallExit, thread, Types
<1>11. CASE \E w \in DOMAIN Streams, skip \in Skips, pzb \in Pzbs : CallSetActive(w, skip, pzb)
  <2>1. 0 \in 0 .. Overbuffer_Count
    BY Sizes
  <2> QED BY <1>11, <2>1, CallsAreCommands DEF CallSetActive, thread, Types
<1>12. ASSUME NEW n \in 1 .. Overbuffer_Count, get_buffer(n) PROVE Types'
  <2>1. n \in 0 .. Overbuffer_Count
    BY Sizes
  <2> QED BY <1>12, <2>1, CallsAreCommands DEF get_buffer, thread, Types
<1>13. ASSUME NEW n \in 1 .. Overbuffer_Count, advance(n) PROVE Types'
  <2>1. 0 \in 0 .. Overbuffer_Count
    BY Sizes
  <2>2. read_pos + n \in Nat
    BY Sizes DEF Types
  <2> QED BY <1>13, <2>1, <2>2, CallsAreCommands DEF advance, thread, Types
<1>14. CASE Join
  BY <1>14 DEF Join, thread, Types
<1>15. CASE UNCHANGED vars
  BY <1>15 DEF vars, thread, client, Types
<1> QED
  BY <1>1, <1>2, <1>3, <1>4, <1>5, <1>6, <1>7, <1>8, <1>9, <1>10, <1>11, <1>12, <1>13,
     <1>14, <1>15 DEF Next, ReadThread, Client, Call

LEMMA InvInit == ASSUME Init PROVE IInv
BY TurnsInit, TypesInit, ControlInit, FileInit, LedgerInit, ContentInit, CopiedInit, MirrorInit,
   PlaceInit, LoopInit DEF IInv

LEMMA InvStep == ASSUME IInv, [Next]_vars PROVE IInv'
<1> USE DEF IInv
<1>1. Turns' /\ Control' /\ Place' /\ FileInv'
  BY TurnsStep, ControlStep, PlaceStep, FileStep
<1>2. Types' /\ Ledger' /\ LoopInRing' /\ Mirror'
  BY TypesStep, LedgerStep, LoopStep, MirrorStep
<1>3. Content'
  BY ContentStep
<1>4. Copied'
  BY <1>2, <1>3, CopiedStep
<1> QED BY <1>1, <1>2, <1>3, <1>4

THEOREM Holds == Spec => []IInv
<1>1. IInv /\ [Next]_vars => IInv'
  BY InvStep
<1>2. Init => IInv
  BY InvInit
<1> QED BY <1>1, <1>2, PTL DEF Spec

LEMMA TypesBound == ASSUME IInv PROVE TypeOK
<1> USE DEF IInv
<1>1. command_sem \in {0, 1} /\ ack_sem \in {0, 1}
  BY DEF Turns, Busy
<1>2. active.w \in 0 .. Len(Streams) /\ active.pos \in Nat
  BY DEF Types
<1>3. basep \subseteq 0 .. (Buffer_Size - 1)
  <2>1. CASE basep # {}
    <3>1. PICK o \in 0 .. write_pos : LoopAt(o)
      BY <2>1 DEF LoopInRing
    <3>2. basep = {o % Buffer_Size}
      BY <3>1 DEF LoopAt
    <3>3. o \in Int
      BY AskedType
    <3> QED BY <3>2, <3>3, RingPlace
  <2> QED BY <2>1
<1> QED BY <1>1, <1>2, <1>3 DEF Types, TypeOK

LEMMA ReadsBound == ASSUME IInv PROVE ReadsTheStream
<1> USE DEF IInv
<1> SUFFICES ASSUME cpc = "idle", using > 0, NEW i \in 0 .. (using - 1)
             PROVE  buffer[(read_pos % Buffer_Size) + i] = Expected(read_pos + i)
  BY DEF ReadsTheStream
<1>1. Started /\ need_sync = FALSE /\ CallOwes = 0
  BY DEF Control, CallOwes, Types
<1>2. /\ write_pos >= 3 * Chunk_Size + Low /\ Low \in Nat /\ Low <= read_pos
      /\ read_pos < Low + Chunk_Size /\ read_pos \in Nat /\ write_pos \in Nat
      /\ Chunk_Size \in Nat /\ Buffer_Size = 4 * Chunk_Size
  <2>1. write_pos + 0 >= 3 * Chunk_Size + Low
    BY <1>1 DEF Ledger
  <2> QED BY <2>1, LowIs, Sizes, AskedType DEF Types
<1>3. i \in Nat /\ i < Overbuffer_Count /\ Overbuffer_Count \in 1 .. Chunk_Size
  BY Sizes DEF Types
<1>4. PICK k \in Nat : k = read_pos + i
  BY <1>2, <1>3
<1>5. Low <= k /\ k < 3 * Chunk_Size + Low /\ k < write_pos
  BY <1>2, <1>3, <1>4
<1>6. PICK p \in 0 .. (Buffer_Size - 1) : p = read_pos % Buffer_Size
  <2>1. read_pos \in Int
    BY <1>2
  <2> QED BY <2>1, RingPlace
<1>7. CASE p + i < Buffer_Size
  <2>1. k % Buffer_Size = p + i
    <3>1. /\ read_pos \in Int /\ Buffer_Size \in Nat /\ Buffer_Size > 0
          /\ (read_pos % Buffer_Size) + i < Buffer_Size
      BY <1>2, <1>6, <1>7, Sizes
    <3> QED BY ONLY <1>3, <1>4, <1>6, <3>1, ModOn
  <2> QED BY <1>4, <1>5, <1>6, <2>1 DEF Content
<1>8. CASE ~ (p + i < Buffer_Size)
  <2>1. k % Buffer_Size = p + i - Buffer_Size
    <3>1. /\ read_pos \in Int /\ Buffer_Size \in Nat /\ Buffer_Size > 0
          /\ Buffer_Size <= (read_pos % Buffer_Size) + i
          /\ (read_pos % Buffer_Size) + i < 2 * Buffer_Size
      BY <1>2, <1>3, <1>6, <1>8, Sizes
    <3> QED BY ONLY <1>3, <1>4, <1>6, <3>1, ModOn
  <2>2. k % Buffer_Size < Overbuffer_Count /\ Buffer_Size + (k % Buffer_Size) = p + i
    BY <1>2, <1>3, <1>6, <2>1
  <2>3. k + CallOwes < 3 * Chunk_Size + Low
    BY <1>1, <1>5
  <2>4. buffer[Buffer_Size + (k % Buffer_Size)] = Expected(k)
    BY <1>1, <1>5, <2>2, <2>3 DEF Copied
  <2> QED BY <1>4, <1>6, <2>2, <2>4
<1> QED BY <1>7, <1>8

\* What the variables range over: TypeOK.
THEOREM TypesHold == Spec => []TypeOK
BY Holds, TypesBound, PTL

\* The file is where the reader believes it is whenever the client may give the next
\* command (FileInStep), though the loop is sometimes copied without being read again.
THEOREM FileFollows == Spec => []FileInStep
<1>1. IInv => FileInStep
  BY FileBound DEF IInv
<1> QED BY <1>1, Holds, PTL

\* What lies under the client's pointer is what it asked for, whatever the read thread
\* writes meanwhile: ReadsTheStream.
THEOREM ReadsWhatIsAsked == Spec => []ReadsTheStream
BY Holds, ReadsBound, PTL
=============================================================================
