-------------------------------- MODULE Frames --------------------------------
(***************************************************************************)
(* How the counter task finds the frames of a bill counter in the bytes of *)
(* its serial port: BC_P16_input (src/Src/plus_p16.c), BC_P506_input       *)
(* (src/Src/plus_p506.c) and BC_BH1000_input (src/Src/bh1000.c), called in *)
(* a loop by CNTIF_main (src/Src/counterif.c).  The wire may lose and      *)
(* damage bytes, and the port pushes out the oldest byte when the task is  *)
(* late (ByteFifo.tla).                                                    *)
(*                                                                         *)
(* The P16 sends a frame for each count, one that clears the counts, and   *)
(* one that ends the series and makes fInput return true; each ends in an  *)
(* additive checksum.  The P-506 and the BH1000 send all their values in   *)
(* one frame without a checksum, the BH1000 as decimal digits.             *)
(*                                                                         *)
(* A counter sends a frame's bytes without a pause, so SERIAL_getc and     *)
(* SERIAL_gets time out only on a silent wire, a few frames' time later.   *)
(***************************************************************************)
EXTENDS Naturals, Sequences, SequencesExt

CONSTANTS Models,       \* the models among which main finds the configured one
          Base,         \* bytes are 0..Base-1 (7 bits)
          STX, STX2,    \* the bytes that begin a frame; only the P16 has the second
          Clear,        \* 0x71, the second byte of the P16's clearing frame
          NumCounts,    \* counts of a P16, values of the other models
          Counts,       \* what a count can be, apart from zero
          Noise,        \* what a damaged byte can turn into
          Size, Size2,  \* BC_P16_FRAME_SIZE_1 and _2
          P506Size,     \* BC_P506_FRAME_SIZE
          BH1000Size,   \* BC_BH1000_FRAME_SIZE
          Radix,        \* the BH1000 sends its values as digits to this base (10),
          Zero,         \* from this byte on (0x30),
          NumDigits,    \* so many of them for a value
          RingSize,     \* the port's ulRxBufferLength (256)
          MsgMod,       \* bound of a byte in a message (256)
          NoReading,    \* fInput has not returned true yet
          MaxFrames,    \* bound: frames sent
          MaxFaults     \* bound: bytes lost or damaged on the wire

\* The powers of Radix.
Power[k \in 0..NumDigits] == IF k = 0 THEN 1 ELSE Radix * Power[k - 1]

ASSUME FramesAssumption ==
  /\ Models \subseteq {"P16", "P506", "BH1000"}
  /\ Base \in Nat \ {0}
  /\ STX \in 0..(Base - 1) /\ STX2 \in 0..(Base - 1) \ {STX}
  /\ NumCounts \in Nat \ {0}
  /\ Clear \in NumCounts..(Base - 1)
  /\ Counts \subseteq 0..(Base - 1) /\ Noise \subseteq 0..(Base - 1)
  /\ Size \in Nat /\ Size2 \in Nat /\ Size > 4 /\ Size2 > 2
  /\ P506Size \in Nat /\ P506Size > NumCounts + 1
  /\ Radix \in Nat \ {0} /\ Zero \in Nat /\ Zero + Radix <= Base
  /\ NumDigits \in Nat /\ \A n \in Counts : n < Power[NumDigits]
  /\ BH1000Size \in Nat /\ BH1000Size > NumCounts * NumDigits + 1
  /\ RingSize \in Nat \ {0} /\ MsgMod \in Nat \ {0}
  /\ MaxFrames \in Nat /\ MaxFaults \in Nat

VARIABLES
  model,      \* pBC->pInfo->xModel
  \* the bill counter
  shown,      \* its counts
  wire,       \* the bytes of the current frame still to arrive
  ring,       \* the bytes received and not yet read
  \* the counter task
  phase,      \* "first" byte, "rest" of the frame, or "check"
  pFrame,     \* the bytes read of a frame
  pCount,     \* the counts as the board knows them
  reading,    \* the message of the latest fInput that returned true
  \* history
  nFrames, nFaults,
  whole,      \* has the board had every byte since the wire was silent?
  agree,      \* has it had every change of the counts as well?
  pending     \* if whole, the frames sent and not yet checked

counter == <<model, shown, nFrames>>
parser == <<phase, pFrame, pCount, reading>>
framesVars == <<counter, wire, ring, parser, nFaults, whole, agree, pending>>

Byte == 0..(Base - 1)
Index == 0..(NumCounts - 1)
NoCounts == [d \in Index |-> 0]

(***************************************************************************)
(* Frames                                                                  *)
(***************************************************************************)

\* The sum of all bytes but the first and the last; seven bits of it are kept.
Checksum(f) == FoldLeft(LAMBDA a, b : (a + b) % Base, 0, SubSeq(f, 2, Len(f) - 1))

\* The frame of the given size that begins with these bytes: filled with zeros
\* and, in a P16, with the checksum in its last byte.
Filled(bytes, size) == bytes \o [i \in 1..(size - 1 - Len(bytes)) |-> 0]
WithChecksum(f) == Append(f, Checksum(Append(f, 0)))

CountFrame(d, n) == WithChecksum(Filled(<<STX, d, 0, n>>, Size))
ClearFrame == WithChecksum(Filled(<<STX, Clear>>, Size))
EndFrame == WithChecksum(Filled(<<STX2>>, Size2))
P506Frame(counts) == Append(Filled(<<STX>> \o [i \in 1..NumCounts |-> counts[i - 1]], P506Size), 0)
DigitsOf(n) == [i \in 1..NumDigits |-> Zero + ((n \div Power[NumDigits - i]) % Radix)]
BH1000Frame(counts) ==
  Append(Filled(<<STX>> \o FlattenSeq([i \in 1..NumCounts |-> DigitsOf(counts[i - 1])]), BH1000Size), 0)
PlainFrame(counts) == IF model = "P506" THEN P506Frame(counts) ELSE BH1000Frame(counts)

\* Mutant: the longer frame of the P16 is read like the shorter one.
FrameSizeOfFirst(first) ==
  CASE first = STX  /\ model = "P16" -> Size
    [] first = STX2 /\ model = "P16" -> Size
    [] first = STX  /\ model = "P506" -> P506Size
    [] first = STX  /\ model = "BH1000" -> BH1000Size
    [] OTHER -> 0

\* The length of a frame by its first byte; 0 if no frame begins so.
FrameSize(first) ==
  CASE first = STX  /\ model = "P16" -> Size
    [] first = STX2 /\ model = "P16" -> Size2
    [] first = STX  /\ model = "P506" -> P506Size
    [] first = STX  /\ model = "BH1000" -> BH1000Size
    [] OTHER -> 0

\* fGetMessage: what of the counts goes into a message.  The BH1000's has one byte
\* for its first value.  (The P-506's also has their sum.)
BH1000Message(counts) == [counts EXCEPT ![0] = @ % MsgMod]
Message(counts) == IF model = "BH1000" THEN BH1000Message(counts) ELSE counts

-----------------------------------------------------------------------------

\* The port has just been opened.  The counter has been on for a while and may be
\* in the midst of a frame.
FramesInit ==
  /\ model \in Models
  /\ shown \in [Index -> Counts \cup {0}]
  /\ LET f == IF model = "P16" THEN EndFrame ELSE PlainFrame(shown)
     IN \E k \in 2..Len(f) + 1 : wire = SubSeq(f, k, Len(f))
  /\ ring = <<>>
  /\ phase = "first" /\ pFrame = <<>>
  /\ pCount = NoCounts
  /\ reading = NoReading
  /\ nFrames = 0 /\ nFaults = 0
  /\ whole = (wire = <<>>)
  /\ agree = (wire = <<>> /\ shown = NoCounts)
  /\ pending = <<>>

(***************************************************************************)
(* The bill counter and the wire                                           *)
(***************************************************************************)

Sends(kind, counts, frame) ==
  /\ wire = <<>> /\ nFrames < MaxFrames
  /\ nFrames' = nFrames + 1
  /\ shown' = counts
  /\ wire' = frame
  /\ pending' = IF whole
                  THEN Append(pending, [kind |-> kind, counts |-> counts, sent |-> frame, came |-> frame])
                  ELSE pending
  /\ UNCHANGED <<model, ring, parser, nFaults, whole, agree>>

SendCount(d, n) ==
  LET counts == [shown EXCEPT ![d] = n] IN
    IF model = "P16" THEN Sends("count", counts, CountFrame(d, n))
                     ELSE Sends("end", counts, PlainFrame(counts))

SendClear == model = "P16" /\ Sends("clear", NoCounts, ClearFrame)
SendEnd == model = "P16" /\ Sends("end", shown, EndFrame)

\* What the history says once a byte is missing.
Incomplete == whole' = FALSE /\ agree' = FALSE /\ pending' = <<>>

\* A byte arrives; a full ring loses its oldest one.
Arrive ==
  /\ wire # <<>>
  /\ wire' = Tail(wire)
  /\ IF Len(ring) < RingSize
       THEN ring' = Append(ring, Head(wire)) /\ UNCHANGED <<whole, agree, pending>>
       ELSE ring' = Append(Tail(ring), Head(wire)) /\ Incomplete
  /\ UNCHANGED <<counter, parser, nFaults>>

\* A byte is lost on the wire or in the receiver.
Lose ==
  /\ wire # <<>> /\ nFaults < MaxFaults
  /\ nFaults' = nFaults + 1
  /\ wire' = Tail(wire)
  /\ Incomplete
  /\ UNCHANGED <<counter, ring, parser>>

\* A byte is damaged.  The frames stay in step if it is not the first one of its
\* frame; of two damaged bytes in one frame nothing can be said.
Damage(b) ==
  /\ wire # <<>> /\ b # Head(wire) /\ nFaults < MaxFaults
  /\ nFaults' = nFaults + 1
  /\ wire' = [wire EXCEPT ![1] = b]
  /\ IF whole /\ Last(pending).came = Last(pending).sent /\ Len(wire) < Len(Last(pending).sent)
       THEN /\ pending' = [pending EXCEPT ![Len(pending)].came[Len(Last(pending).came) - Len(wire) + 1] = b]
            /\ agree' = FALSE
            /\ UNCHANGED whole
       ELSE Incomplete
  /\ UNCHANGED <<counter, ring, parser>>

(***************************************************************************)
(* fInput                                                                  *)
(***************************************************************************)

Silent == wire = <<>> /\ ring = <<>>

\* SERIAL_getc: a byte that begins no frame is dropped, and fInput returns false.
GetFirst ==
  /\ phase = "first" /\ ring # <<>>
  /\ ring' = Tail(ring)
  /\ IF FrameSize(Head(ring)) = 0
       THEN UNCHANGED <<phase, pFrame>>
       ELSE phase' = "rest" /\ pFrame' = <<Head(ring)>>
  /\ UNCHANGED <<counter, wire, pCount, reading, nFaults, whole, agree, pending>>

\* SERIAL_getc times out, and fInput returns false.  Nothing is on its way, so the
\* next byte begins a frame.
FirstTimeout ==
  /\ phase = "first" /\ Silent
  /\ whole' = TRUE
  /\ UNCHANGED <<counter, wire, ring, parser, nFaults, agree, pending>>

\* SERIAL_gets: another byte of the frame.
GetRest ==
  /\ phase = "rest" /\ ring # <<>>
  /\ ring' = Tail(ring)
  /\ pFrame' = Append(pFrame, Head(ring))
  /\ phase' = IF Len(pFrame') = FrameSize(pFrame[1]) THEN "check" ELSE "rest"
  /\ UNCHANGED <<counter, wire, pCount, reading, nFaults, whole, agree, pending>>

\* Mutant: the rest of a frame is waited for without end.
RestNeverTimesOut == phase = "rest" /\ Silent /\ UNCHANGED framesVars

\* SERIAL_gets times out: fInput returns false.
RestTimeout ==
  /\ phase = "rest" /\ Silent
  /\ phase' = "first" /\ pFrame' = <<>>
  /\ UNCHANGED <<counter, wire, ring, pCount, reading, nFaults, whole, agree, pending>>

\* What the history says when a frame has been checked.
FrameDone ==
  /\ pending' = IF whole THEN Tail(pending) ELSE pending
  /\ agree' = \/ agree
              \/ /\ whole
                 /\ model # "P16" \/ Head(pending).kind = "clear"
                 /\ \A i \in DOMAIN pending : pending[i].came = pending[i].sent

\* Mutant: the sum leaves out the last byte before the checksum.
SumTooShort(f) ==
  model = "P16" => Checksum(Append(SubSeq(f, 1, Len(f) - 2), 0)) = Last(f)

\* Only the P16 has a checksum.
ChecksumRight(f) == model = "P16" => Checksum(f) = Last(f)

\* The number its digits say, up to the first byte that is none.
IsDigit(b) == b \in Zero..(Zero + Radix - 1)
Number(bytes) ==
  LET digits == CHOOSE p \in Prefixes(bytes) :
                  /\ \A i \in DOMAIN p : IsDigit(p[i])
                  /\ p # bytes => ~IsDigit(bytes[Len(p) + 1])
  IN FoldLeft(LAMBDA n, b : n * Radix + b - Zero, 0, digits)

\* The values in a frame of the P-506, a byte each, and of the BH1000.
Values(f) ==
  [d \in Index |-> IF model = "P506" THEN f[d + 2]
                   ELSE Number(SubSeq(f, 2 + d * NumDigits, 1 + (d + 1) * NumDigits))]

\* Mutant: the index in a count's frame is not checked.
CountedAnywhere(f) ==
  CASE model # "P16" -> Values(f)
    [] model = "P16" /\ f[1] = STX -> (f[2] :> f[3] * Base + f[4]) @@ pCount
    [] OTHER -> pCount

\* Mutant: the frame that clears the counts is ignored.
CountedWithoutClear(f) ==
  CASE model # "P16" -> Values(f)
    [] model = "P16" /\ f[1] = STX /\ f[2] \in Index -> [pCount EXCEPT ![f[2]] = f[3] * Base + f[4]]
    [] OTHER -> pCount

\* The counts after the frame f.
Counted(f) ==
  CASE model # "P16" -> Values(f)
    [] model = "P16" /\ f[1] = STX /\ f[2] \in Index -> [pCount EXCEPT ![f[2]] = f[3] * Base + f[4]]
    [] model = "P16" /\ f[1] = STX /\ f[2] = Clear -> NoCounts
    [] OTHER -> pCount

\* Does fInput return true after the frame f?
Ends(f) == model # "P16" \/ f[1] = STX2

\* A frame is complete.  One with a wrong checksum has no effect.
Check ==
  /\ phase = "check"
  /\ IF ChecksumRight(pFrame)
       THEN /\ pCount' = Counted(pFrame)
            /\ reading' = IF Ends(pFrame) THEN Message(pCount') ELSE reading
       ELSE UNCHANGED <<pCount, reading>>
  /\ phase' = "first" /\ pFrame' = <<>>
  /\ FrameDone
  /\ UNCHANGED <<counter, wire, ring, nFaults, whole>>

fInput == GetFirst \/ FirstTimeout \/ GetRest \/ RestTimeout \/ Check

-----------------------------------------------------------------------------

FramesNext ==
  \/ \E d \in Index, n \in Counts : SendCount(d, n)
  \/ SendClear
  \/ SendEnd
  \/ Arrive
  \/ Lose
  \/ \E b \in Noise : Damage(b)
  \/ fInput

FramesSpec == FramesInit /\ [][FramesNext]_framesVars

\* The task runs, and a frame that has begun arrives.
FairSpec == FramesSpec /\ WF_framesVars(fInput) /\ WF_framesVars(Arrive)

-----------------------------------------------------------------------------
(***************************************************************************)
(* Correctness                                                             *)
(***************************************************************************)

\* What the frames of a model can say: two bytes, one byte, NumDigits digits.
Limit == CASE model = "P16" -> Base * Base [] model = "P506" -> Base [] OTHER -> Power[NumDigits]
PossibleCounts == [Index -> 0..(Limit - 1)]

FramesTypeOK ==
  /\ model \in Models
  /\ shown \in [Index -> Counts \cup {0}]
  /\ wire \in Seq(Byte) /\ ring \in Seq(Byte) /\ Len(ring) <= RingSize
  /\ phase \in {"first", "rest", "check"}
  /\ pFrame \in Seq(Byte)
  /\ phase # "first" => Len(pFrame) <= FrameSize(pFrame[1])
  /\ pCount \in PossibleCounts
  /\ reading \in PossibleCounts \cup {NoReading}
  /\ nFrames \in 0..MaxFrames /\ nFaults \in 0..MaxFaults
  /\ whole \in BOOLEAN /\ agree \in BOOLEAN
  /\ agree => whole
  /\ ~whole => pending = <<>>

\* As long as no byte is missing the board reads each frame from its first byte
\* to its last, also across damaged ones: what it has read of a frame and what is
\* still to come are whole frames (plus_p16.c:24-60, bh1000.c:27-45).
InStep == whole => pFrame \o ring \o wire = FlattenSeq([i \in DOMAIN pending |-> pending[i].came])

\* A reading is what the counter showed when it ended the series, if the board has
\* had every change of the counts since they agreed (plus_p16.c:73-98).
ReadingAsShown ==
  [][phase = "check" /\ phase' = "first" /\ agree /\ Head(pending).kind = "end" =>
       reading' = Message(Head(pending).counts)]_framesVars

\* A P16 frame with a damaged byte behind its first one changes neither the counts
\* nor the reading (plus_p16.c:62-72).
DamagedRejected ==
  [][phase = "check" /\ whole /\ model = "P16" /\ Head(pending).came # Head(pending).sent =>
       UNCHANGED <<pCount, reading>>]_framesVars

\* Whatever was lost, the board is in step again when the counter has paused: no
\* incomplete frame is waited for without end (serial.c:218-228, counterif.c:90-94).
Recovers == ~whole ~> whole

=============================================================================
