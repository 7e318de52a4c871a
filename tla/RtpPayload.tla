----------------------------- MODULE RtpPayload -----------------------------
(***************************************************************************)
(* The payloaders of the video track (streamer/src/video/h264/payloader.rs *)
(* and h265/payloader.rs): NAL units in, RTP payloads out, none larger     *)
(* than the MTU where that can be helped.  Parameter sets are held back    *)
(* until the others of their group are there.  A unit is its type, its     *)
(* number and its length; the bytes of a fragment are a range of it.       *)
(***************************************************************************)
EXTENDS Integers, Sequences

CONSTANTS
    Mtu,        \* bytes a payload may have
    MaxUnits,   \* units of a run
    SetLengths, \* lengths a parameter set may have
    SliceLengths

ASSUME PayloadAssumption ==
    /\ Mtu \in Nat /\ Mtu > 8 /\ Mtu < 65536    \* an aggregate's lengths fit two bytes
    /\ MaxUnits \in Nat
    /\ SetLengths \cup SliceLengths \subseteq Nat \ {0, 1}

Sets(c)       == IF c = "h264" THEN <<"sps", "pps">> ELSE <<"vps", "sps", "pps">>
IsSet(c, u)   == \E i \in DOMAIN Sets(c) : Sets(c)[i] = u.type
UnitHeader(c) == IF c = "h264" THEN 1 ELSE 2    \* NalHeader::SIZE
SetTypes      == {"vps", "sps", "pps"}
NalUnits      == [type : SetTypes \cup {"slice", "delimiter"}, id : Nat, len : Nat \ {0, 1}]
NoUnit        == [type |-> "none", id |-> 0, len |-> 0]
Nothing       == [t \in SetTypes |-> NoUnit]

VARIABLES
    codec,
    given,      \* units handed to payload()
    held,       \* the parameter sets held back, by type
    payloads,   \* what payload() has returned
    apart       \* a slice came between the parameter sets of a group

payloadVars == <<codec, given, held, payloads, apart>>

PayloadInit ==
    /\ codec \in {"h264", "h265"}
    /\ given = <<>> /\ payloads = <<>> /\ apart = FALSE
    /\ held = Nothing

-----------------------------------------------------------------------------
(* The three kinds of payload *)

Single(u)    == [kind |-> "single", units |-> <<u>>, from |-> 0, len |-> u.len,
                 start |-> FALSE, end |-> FALSE]

Total(units) ==
    LET sum[n \in 0..Len(units)] == IF n = 0 THEN 0 ELSE sum[n - 1] + 2 + units[n].len
    IN  sum[Len(units)]

\* A header of the unit's size, then each unit behind two bytes of length.
Aggregate(c, units) ==
    [kind |-> "aggregate", units |-> units, from |-> 0, start |-> FALSE, end |-> FALSE,
     len |-> UnitHeader(c) + Total(units)]

\* chunks() of what follows the unit's header, each behind that header and one more byte.
Fragments(c, u) ==
    LET size == Mtu - UnitHeader(c) - 1
        rest == u.len - UnitHeader(c)
        k    == (rest + size - 1) \div size
    IN  [i \in 1..k |->
            [kind |-> "fragment", units |-> <<u>>, from |-> (i - 1) * size,
             len |-> UnitHeader(c) + 1 + (IF i = k THEN rest - (k - 1) * size ELSE size),
             start |-> i = 1, end |-> i = k]]

Whole(c, u) == IF u.len <= Mtu THEN <<Single(u)>> ELSE Fragments(c, u)

AllHeld(c, h) == \A i \in DOMAIN Sets(c) : h[Sets(c)[i]] # NoUnit
Group(c, h)   == [i \in DOMAIN Sets(c) |-> h[Sets(c)[i]]]

\* The group in one payload, or in one each if that is too large.
Fits(c, len) == IF c = "h264" THEN len < Mtu ELSE len <= Mtu
Grouped(c, h) ==
    IF Fits(c, Aggregate(c, Group(c, h)).len) THEN <<Aggregate(c, Group(c, h))>>
    ELSE [i \in DOMAIN Sets(c) |-> Single(Group(c, h)[i])]

-----------------------------------------------------------------------------
(* payload() *)

\* Bug: a group too large for an aggregate is returned without the unit behind it.
PayloadH264ReturnsEarly(u) ==
    IF u.type = "delimiter" THEN UNCHANGED <<held, payloads>>
    ELSE IF IsSet("h264", u)
    THEN held' = [held EXCEPT ![u.type] = u] /\ UNCHANGED payloads
    ELSE IF AllHeld("h264", held)
    THEN LET group == Grouped("h264", held)
         IN  /\ held' = Nothing
             /\ payloads' = payloads \o group
                              \o (IF Len(group) > 1 THEN <<>> ELSE Whole("h264", u))
    ELSE payloads' = payloads \o Whole("h264", u) /\ UNCHANGED held

\* H264: parameter sets wait for the next other unit, delimiters and filler are dropped.
PayloadH264(u) ==
    IF u.type = "delimiter" THEN UNCHANGED <<held, payloads>>
    ELSE IF IsSet("h264", u)
    THEN held' = [held EXCEPT ![u.type] = u] /\ UNCHANGED payloads
    ELSE IF AllHeld("h264", held)
    THEN /\ held' = Nothing
         /\ payloads' = payloads \o Grouped("h264", held)
                          \o Whole("h264", u)
    ELSE payloads' = payloads \o Whole("h264", u) /\ UNCHANGED held

\* H265: the set that completes a group sends it; other units go as they are.
PayloadH265(u) ==
    LET h == IF IsSet("h265", u) THEN [held EXCEPT ![u.type] = u] ELSE held
    IN  IF AllHeld("h265", h)
        THEN /\ held' = Nothing
             /\ payloads' = payloads \o Grouped("h265", h)
        ELSE /\ held' = h
             /\ payloads' = IF IsSet("h265", u) THEN payloads
                            ELSE payloads \o Whole("h265", u)

Payload(u) ==
    /\ given' = Append(given, u)
    /\ IF codec = "h264" THEN PayloadH264(u) ELSE PayloadH265(u)
    /\ apart' = (apart \/ (u.type = "slice" /\ held # Nothing /\ ~AllHeld(codec, held)))
    /\ UNCHANGED codec

\* The type is chosen, then a length it can have.  VPS is no type of H264.
PayloadNext ==
    /\ Len(given) < MaxUnits
    /\ \/ \E t \in SetTypes, n \in SetLengths :
             IsSet(codec, [type |-> t]) /\ Payload([type |-> t, id |-> Len(given) + 1, len |-> n])
       \/ \E n \in SliceLengths :
             Payload([type |-> "slice", id |-> Len(given) + 1, len |-> n])
       \/ Payload([type |-> "delimiter", id |-> Len(given) + 1, len |-> 2])

PayloadSpec == PayloadInit /\ [][PayloadNext]_payloadVars

Parts ==
    [kind : {"single", "aggregate", "fragment"}, units : Seq(NalUnits) \ {<<>>}, from : Nat,
     len : Nat, start : BOOLEAN, end : BOOLEAN]

PayloadTypeOK ==
    /\ codec \in {"h264", "h265"} /\ apart \in BOOLEAN
    /\ given \in Seq(NalUnits) /\ Len(given) <= MaxUnits
    /\ held \in [SetTypes -> NalUnits \cup {NoUnit}] /\ payloads \in Seq(Parts)
    /\ \A t \in SetTypes : held[t] # NoUnit => held[t].type = t /\ IsSet(codec, held[t])

-----------------------------------------------------------------------------
(* What RFC 6184 and RFC 7798 have a receiver do *)

\* Units that are complete, and the unit that is being put together with the bytes of it
\* seen so far.
NoneYet == [done |-> <<>>, part |-> <<>>, upto |-> 0]

Receive(c, state, p) ==
    IF p.kind # "fragment" THEN [done |-> state.done \o p.units, part |-> <<>>, upto |-> 0]
    ELSE LET u    == p.units[1]
             upto == p.from + p.len - UnitHeader(c) - 1
         IN  IF ~(p.start \/ (state.part = p.units /\ state.upto = p.from))
             THEN [done |-> state.done, part |-> <<>>, upto |-> 0]
             ELSE IF p.end /\ upto = u.len - UnitHeader(c)
             THEN [done |-> Append(state.done, u), part |-> <<>>, upto |-> 0]
             ELSE [done |-> state.done, part |-> p.units, upto |-> upto]

Reassembled(c, parts) ==
    LET got[n \in 0..Len(parts)] == IF n = 0 THEN NoneYet ELSE Receive(c, got[n - 1], parts[n])
    IN  got[Len(parts)]

\* A decoder keeps the last parameter set of each type; a slice meets those in force.
See(state, u) ==
    [sets   |-> IF u.type \in SetTypes THEN [state.sets EXCEPT ![u.type] = u] ELSE state.sets,
     slices |-> IF u.type = "slice" THEN Append(state.slices, [unit |-> u, sets |-> state.sets])
                ELSE state.slices]

Decoded(units) ==
    LET seen[n \in 0..Len(units)] ==
            IF n = 0 THEN [sets |-> Nothing, slices |-> <<>>] ELSE See(seen[n - 1], units[n])
    IN  seen[Len(units)]

\* Every slice given reaches the receiver in one piece and in order, also right behind
\* parameter sets too large for one payload; it finds there the parameter sets the
\* encoder meant it for, unless they came in halves; and only parameter sets exceed the
\* MTU (h264/payloader.rs:172-176).
SlicesArrive ==
    LET came  == Decoded(Reassembled(codec, payloads).done).slices
        meant == Decoded(given).slices
    IN  /\ Len(came) = Len(meant) /\ \A i \in DOMAIN meant : came[i].unit = meant[i].unit
        /\ ~apart => came = meant
        /\ \A i \in DOMAIN payloads : payloads[i].len > Mtu =>
              payloads[i].kind = "single" /\ IsSet(codec, payloads[i].units[1])
=============================================================================
