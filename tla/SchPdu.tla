------------------------------- MODULE SchPdu -------------------------------
(***************************************************************************)
(* MAC PDUs (class sch_pdu: test/pdu.cc, hdr/common/pdu.h), as the         *)
(* multiplexer of the eNB writes and the demultiplexer of the UE reads     *)
(* them: sub-headers, then the SDUs, then padding, pdu_len bytes in all.   *)
(*                                                                         *)
(* A PDU being written is the number of bytes that remain and the lengths  *)
(* of its SDUs.  A sub-header is a record: whether it is one of padding,   *)
(* the length it carries (none for padding and in the last one) and the    *)
(* E bit, another one follows.  A payload read is its place behind the     *)
(* sub-headers and its size.  Control elements are left out: none is ever  *)
(* inserted.                                                               *)
(***************************************************************************)
EXTENDS Integers, SequencesExt

CONSTANTS
    PDU_LEN,     \* bytes of a MAC PDU (300)
    LONG,        \* SDUs from this length on have three bytes of sub-header (128)
    MAX_SUBH     \* max_subheaders (20)

ASSUME SchPduAssumption == {PDU_LEN, LONG, MAX_SUBH} \subseteq Nat \ {0}

\* The room for the header has 13 bytes more than two for each sub-header; a
\* PDU is too short for as many sub-headers of three bytes.
ASSUME FewLongAssumption == PDU_LEN < 13 * LONG

\* Mutant of size_header_sdu: the third byte comes one byte too late.
size_header_sduLate(n) == IF n <= LONG THEN 2 ELSE 3

size_header_sdu(n) == IF n < LONG THEN 2 ELSE 3

-----------------------------------------------------------------------------
(* Writing.                                                                *)

init_tx == [rem_len |-> PDU_LEN, sdus |-> <<>>]

\* One SDU less than there are sub-headers.
new_subh(p) == Len(p.sdus) < MAX_SUBH - 1

\* The last sub-header has one byte, any other one two or three.
one_more(p) == IF p.sdus = <<>> THEN 0 ELSE size_header_sdu(Last(p.sdus)) - 1

\* Mutant of get_sdu_space: the last sub-header is thought to stay as short.
get_sdu_spaceShort(p) == p.rem_len - 1

get_sdu_space(p) == p.rem_len - one_more(p) - 1

\* add_sdu() and update_space_sdu().
add_sdu(p, n) == [rem_len |-> get_sdu_space(p) - n, sdus |-> Append(p.sdus, n)]

\* Mutant of multibyte_padding: padding of two bytes is taken for longer.
multibyte_paddingEarly(p) == p.rem_len > 1

multibyte_padding(p) == p.rem_len > 2

\* Two bytes of padding at most are sub-headers in front of the others.
onetwo_padding(p) == IF multibyte_padding(p) THEN 0 ELSE p.rem_len

\* More of it has a sub-header at the end, before which the SDUs' is not last.
padding(p) == IF multibyte_padding(p) THEN p.rem_len - 1 - one_more(p) ELSE 0

subheaders(p) ==
    [i \in 1 .. onetwo_padding(p) |-> [pad |-> TRUE, L |-> 0, e |-> TRUE]]
      \o [i \in 1 .. Len(p.sdus) |->
            IF multibyte_padding(p) \/ i < Len(p.sdus)
            THEN [pad |-> FALSE, L |-> p.sdus[i], e |-> TRUE]
            ELSE [pad |-> FALSE, L |-> 0, e |-> FALSE]]
      \o (IF multibyte_padding(p)
          THEN <<[pad |-> TRUE, L |-> 0, e |-> FALSE]>> ELSE <<>>)

\* What a sub-header is counted for, and what write_subheader() writes of it.
get_header_size(h) == IF h.pad \/ ~h.e THEN 1 ELSE size_header_sdu(h.L)

write_subheader(h) == IF h.pad \/ ~h.e THEN 1 ELSE IF h.L >= LONG THEN 3 ELSE 2

sum(s) == FoldLeft(+, 0, s)

header_sz(p) == sum([i \in DOMAIN subheaders(p) |-> get_header_size(subheaders(p)[i])])

\* write_packet() does not return NULL: the header has room in front of the
\* SDUs, the bytes add up to pdu_len, and the header has the size counted.
Written(p) ==
    /\ p.rem_len >= 0
    /\ header_sz(p) < 2 * MAX_SUBH + 13
    /\ padding(p) + header_sz(p) + sum(p.sdus) = PDU_LEN
    /\ header_sz(p) = sum([i \in DOMAIN subheaders(p) |-> write_subheader(subheaders(p)[i])])

-----------------------------------------------------------------------------
(* Reading.                                                                *)

size_plus_header(h) == (IF h.pad THEN 1 ELSE size_header_sdu(h.L)) + h.L

\* Mutant of last_size: the sub-headers before the last are not counted.
last_sizeBare(hs) == PDU_LEN - sum([i \in 1 .. Len(hs) - 1 |-> hs[i].L]) - 1

\* The last payload is what is left of the PDU.
last_size(hs) ==
    PDU_LEN - sum([i \in 1 .. Len(hs) - 1 |-> size_plus_header(hs[i])]) - 1

\* The payloads of the SDUs, in order.  read_payload() goes on from payload to
\* payload; the size of the last one is corrected afterwards.
parse_packet(hs) ==
    LET payload(i) == [at |-> sum([j \in 1 .. i - 1 |-> hs[j].L]),
                       size |-> IF i = Len(hs) THEN last_size(hs) ELSE hs[i].L]
        read(found, i) == IF hs[i].pad THEN found ELSE Append(found, payload(i))
    IN FoldLeft(read, <<>>, [i \in DOMAIN hs |-> i])
=============================================================================
