------------------------------- MODULE Ulpfec -------------------------------
(***************************************************************************)
(* One parity group of the forward error correction                        *)
(* (streamer/src/video/fec.rs): the packets of a group are recorded, then  *)
(* the parity of the group is made.  A number and a byte are the set of    *)
(* their one bits, so that XOR is the symmetric difference.                *)
(***************************************************************************)
EXTENDS Naturals, Sequences, SequencesExt

CONSTANTS
    Lengths,    \* lengths a payload may have, each a set of bits
    SizeOf,     \* the number each of them is
    Symbols,    \* bytes, and values of the other fields
    MaxGroup    \* MAX_GROUP_SIZE

ASSUME UlpfecAssumption ==
    /\ SizeOf \in [Lengths -> Nat] /\ MaxGroup \in 1..16    \* fec.rs:100-104
    /\ \A a, b \in Lengths : SizeOf[a] = SizeOf[b] => a = b

VARIABLES
    group,      \* the recorded packets
    base        \* sequence number of the first, modulo 2^16

fecVars == <<group, base>>

Payloads == UNION {[1..SizeOf[n] -> Symbols] : n \in Lengths}
LengthOf(payload) == CHOOSE n \in Lengths : SizeOf[n] = Len(payload)
FecMax(S) == CHOOSE m \in S : \A n \in S : n <= m
Xor(a, b) == (a \ b) \cup (b \ a)
SeqNumbers == 65536

ProtectedPackets == [seq : 0..SeqNumbers - 1, ts : Symbols, pt : Symbols, marker : BOOLEAN,
                     payload : Payloads]

FecTypeOK ==
    /\ group \in Seq(ProtectedPackets) /\ Len(group) <= MaxGroup
    /\ base \in 0..(SeqNumbers - 1)

FecInit == group = <<>> /\ base \in {0, SeqNumbers - 1}

\* push_media_packet: the next number, the frame's timestamp, a marker at its end.
PushMediaPacket(payload, ts, pt, marker) ==
    /\ Len(group) < MaxGroup
    /\ group # <<>> => ~Last(group).marker /\ Last(group).ts = ts /\ Last(group).pt = pt
    /\ group' = Append(group, [seq |-> (base + Len(group)) % SeqNumbers, ts |-> ts, pt |-> pt,
                               marker |-> marker, payload |-> payload])
    /\ UNCHANGED base

FecNext == \E payload \in Payloads, ts \in Symbols, pt \in Symbols, marker \in BOOLEAN :
              PushMediaPacket(payload, ts, pt, marker)
FecSpec == FecInit /\ [][FecNext]_fecVars

-----------------------------------------------------------------------------
(* generate_parity *)

XorAll(bits) ==
    LET acc[n \in 0..Len(bits)] == IF n = 0 THEN {} ELSE Xor(acc[n - 1], bits[n])
    IN  acc[Len(bits)]

\* The XOR of payloads, padded with zeros to a length.
ByteOf(payload, i)    == IF i <= Len(payload) THEN payload[i] ELSE {}
XorPayloads(payloads, length) ==
    [i \in 1..length |-> XorAll([j \in DOMAIN payloads |-> ByteOf(payloads[j], i)])]
XorField(g, field(_)) == XorAll([j \in DOMAIN g |-> field(g[j])])
Bit(b)                == IF b THEN {0} ELSE {}
PayloadsOf(g)         == [i \in DOMAIN g |-> g[i].payload]

\* Bug: the first packet's length is taken for the longest.
GenerateParityFirst(g) ==
    [base   |-> g[1].seq,
     mask   |-> {(p.seq + SeqNumbers - g[1].seq) % SeqNumbers : p \in {g[i] : i \in DOMAIN g}},
     marker |-> XorField(g, LAMBDA p : Bit(p.marker)),
     pt     |-> XorField(g, LAMBDA p : p.pt),
     ts     |-> XorField(g, LAMBDA p : p.ts),
     len    |-> XorField(g, LAMBDA p : LengthOf(p.payload)),
     parity |-> XorPayloads(PayloadsOf(g), Len(g[1].payload))]

GenerateParity(g) ==
    [base   |-> g[1].seq,
     mask   |-> {(p.seq + SeqNumbers - g[1].seq) % SeqNumbers : p \in {g[i] : i \in DOMAIN g}},
     marker |-> XorField(g, LAMBDA p : Bit(p.marker)),
     pt     |-> XorField(g, LAMBDA p : p.pt),
     ts     |-> XorField(g, LAMBDA p : p.ts),
     len    |-> XorField(g, LAMBDA p : LengthOf(p.payload)),
     parity |-> XorPayloads(PayloadsOf(g), FecMax({Len(g[i].payload) : i \in DOMAIN g}))]

-----------------------------------------------------------------------------

\* What RFC 5109 has the receiver compute for the packet with the number seq, from the
\* parity and the packets that came.
Recover(parity, came, seq) ==
    LET len == Xor(parity.len, XorField(came, LAMBDA p : LengthOf(p.payload)))
        all == XorPayloads(Append(PayloadsOf(came), parity.parity), Len(parity.parity))
    IN  [seq     |-> seq,
         ts      |-> Xor(parity.ts, XorField(came, LAMBDA p : p.ts)),
         pt      |-> Xor(parity.pt, XorField(came, LAMBDA p : p.pt)),
         marker  |-> Xor(parity.marker, XorField(came, LAMBDA p : Bit(p.marker))) # {},
         payload |-> IF len \in Lengths /\ SizeOf[len] <= Len(all)
                     THEN SubSeq(all, 1, SizeOf[len]) ELSE <<>>]

\* The mask fits its field and names the packets of the group, and whichever one of them is
\* lost, the receiver gets it back bit for bit from the others, whatever their lengths and
\* across the wrap of the sequence numbers (fec.rs:103-145).
OneLossIsRepaired ==
    \A lost \in DOMAIN group :
        LET parity == GenerateParity(group)
        IN  /\ parity.mask \subseteq 0..MaxGroup - 1
            /\ {(parity.base + k) % SeqNumbers : k \in parity.mask} = {group[i].seq : i \in DOMAIN group}
            /\ Recover(parity, RemoveAt(group, lost), group[lost].seq) = group[lost]
=============================================================================
