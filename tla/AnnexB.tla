------------------------------- MODULE AnnexB -------------------------------
(***************************************************************************)
(* The splitter of a frame into NAL units (streamer/src/video/annexb.rs)   *)
(* and the readers on top of it (h264/reader.rs, h265/reader.rs).  A byte  *)
(* is one of those the code tells apart: 0, 1, and 6, the header of an     *)
(* H264 SEI unit, which stands for all the others too.                     *)
(***************************************************************************)
EXTENDS Naturals, Sequences

CONSTANTS
    MaxBytes,   \* bound: bytes of a frame
    FreeBytes   \* bound: bytes of a frame that need not begin with a start code

ASSUME AnnexBAssumption == {MaxBytes, FreeBytes} \subseteq Nat

Bytes  == {0, 1, 6}
Codecs == {"h264", "h265"}

VARIABLES
    reader,     \* whose reader it is
    data,       \* the frame
    offset,     \* AnnexBSplitter::offset
    nals        \* what next_nal has returned: [from, to) of the units, start code left out

annexVars == <<reader, data, offset, nals>>

AnnexTypeOK ==
    /\ reader \in Codecs /\ data \in Seq(Bytes)
    /\ offset \in 0..Len(data)
    /\ nals \in Seq((0..Len(data)) \X (0..Len(data)))

Byte(i)         == data[i + 1]
StartsAt(i, sc) == i + Len(sc) <= Len(data) /\ \A j \in DOMAIN sc : Byte(i + j - 1) = sc[j]
B3              == <<0, 0, 1>>
B4              == <<0, 0, 0, 1>>
NoCode          == [at |-> Len(data), len |-> 0]

\* reset: a frame arrives, and a short one is not always well-formed.
AnnexInit ==
    /\ reader \in Codecs
    /\ data \in UNION {[1..n -> Bytes] : n \in 0..MaxBytes}
    /\ Len(data) > FreeBytes => StartsAt(0, B3)
    /\ offset = 0 /\ nals = <<>>

\* Bug: after three zeros, the search goes on behind them.
FindStartCodeSkips(base) ==
    LET scan[i \in Nat] ==
          IF i + 2 >= Len(data) THEN NoCode
          ELSE IF StartsAt(i, B3)
               THEN IF i > base /\ Byte(i - 1) = 0 THEN [at |-> i - 1, len |-> 4]
                    ELSE [at |-> i, len |-> 3]
          ELSE IF StartsAt(i, B4) THEN [at |-> i, len |-> 4]
          ELSE IF StartsAt(i, <<0, 0, 0>>) THEN scan[i + 3]
          ELSE scan[i + 1]
    IN  scan[base]

\* find_start_code in the bytes from base on; NoCode if there is none.
FindStartCode(base) ==
    LET scan[i \in Nat] ==
          IF i + 2 >= Len(data) THEN NoCode
          ELSE IF StartsAt(i, B3)
               THEN IF i > base /\ Byte(i - 1) = 0 THEN [at |-> i - 1, len |-> 4]
                    ELSE [at |-> i, len |-> 3]
          ELSE IF StartsAt(i, B4) THEN [at |-> i, len |-> 4]
          ELSE scan[i + 1]
    IN  scan[base]

\* The start code the next unit has.
CodeAtOffset ==
    IF StartsAt(offset, B4) THEN [at |-> offset, len |-> 4]
    ELSE IF StartsAt(offset, B3) THEN [at |-> offset, len |-> 3]
    ELSE FindStartCode(offset)

HeaderSize == IF reader = "h264" THEN 1 ELSE 2

\* What the readers leave out: units without a whole header, and SEI units of H264.
Kept(from, to) ==
    /\ to - from >= HeaderSize
    /\ ~(reader = "h264" /\ Byte(from) = 6)

\* next, and what next_nal does with the unit.
NextUnit ==
    /\ offset < Len(data)
    /\ LET code == CodeAtOffset
           from == code.at + code.len
           to   == IF from < Len(data) THEN FindStartCode(from).at ELSE Len(data)
       IN  IF code = NoCode
           THEN offset' = Len(data) /\ UNCHANGED nals
           ELSE /\ offset' = to
                /\ nals' = IF Kept(from, to) THEN Append(nals, <<from, to>>) ELSE nals
    /\ UNCHANGED <<reader, data>>

AnnexNext == NextUnit
AnnexSpec == AnnexInit /\ [][AnnexNext]_annexVars

-----------------------------------------------------------------------------
(* The definition of the byte stream format: a unit begins behind 00 00 01 and ends *)
(* before the next one, or before the zero in front of that.                        *)

Marks    == {i \in 0..Len(data) : StartsAt(i, B3)}
EndOf(m) ==
    IF \A n \in Marks : n <= m THEN Len(data)
    ELSE LET n == CHOOSE n \in Marks : n > m /\ \A o \in Marks : o > m => n <= o
         IN  IF Byte(n - 1) = 0 THEN n - 1 ELSE n
Units    == {<<m + 3, EndOf(m)>> : m \in Marks}

\* The reader finds every unit of a frame, none twice and in order, however many zeros
\* come before a start code and wherever it falls in the bytes still to be searched
\* (annexb.rs:113-139).
FindsEveryUnit ==
    /\ offset = Len(data) =>
          {nals[i] : i \in DOMAIN nals} = {u \in Units : Kept(u[1], u[2])}
    /\ \A i, j \in DOMAIN nals : i < j => nals[i][2] < nals[j][1]
=============================================================================
