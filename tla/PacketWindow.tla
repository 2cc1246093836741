---------------------------- MODULE PacketWindow ----------------------------
(***************************************************************************)
(* The window of bytes a packet buffer shows of its chunk of memory, for   *)
(* both backends.  A chunk starts with the link-layer headroom, then the   *)
(* public headroom, the payload and the tailroom; `start' and `end' move   *)
(* with every edit.  The byte contents are left out: an edit that reports  *)
(* an error leaves the window alone.                                       *)
(***************************************************************************)
EXTENDS Integers

data_offset(layout) == layout.l2_headroom + layout.headroom

minimum_chunk_size(layout) ==
  data_offset(layout) + layout.payload_capacity + layout.tailroom

Contiguous(l2_headroom, headroom, payload_capacity, tailroom) ==
  LET sizes == [l2_headroom |-> l2_headroom, headroom |-> headroom,
                payload_capacity |-> payload_capacity, tailroom |-> tailroom]
  IN  [l2_headroom |-> l2_headroom, headroom |-> headroom,
       payload_capacity |-> payload_capacity, tailroom |-> tailroom,
       chunk_size |-> minimum_chunk_size(sizes)]

Fresh(layout) == [start |-> data_offset(layout), end |-> data_offset(layout)]

Length(w) == w.end - w.start
headroom(w, layout) == w.start - layout.l2_headroom
tailroom(w, layout) == layout.chunk_size - w.end

prepend(w, layout, n) ==
  IF n > headroom(w, layout) THEN w ELSE [w EXCEPT !.start = @ - n]

extend_from_slice(w, layout, n) ==
  IF n > tailroom(w, layout) THEN w ELSE [w EXCEPT !.end = @ + n]

trim_prefix(w, n) == IF n > Length(w) THEN w ELSE [w EXCEPT !.start = @ + n]

trim_suffix(w, n) == IF n > Length(w) THEN w ELSE [w EXCEPT !.end = @ - n]

\* A length the kernel reports for a datagram written at the data offset.
set_received_len(layout, n) ==
  [start |-> data_offset(layout), end |-> data_offset(layout) + n]

\* The bytes handed to the device: a link-layer header is written directly
\* in front of the window, which does not move.
TxFrameFits(w, layout, header_len) ==
  header_len <= w.start /\ w.end <= layout.chunk_size

TxFrame(w, header_len) == [start |-> w.start - header_len, end |-> w.end]

Inside(w, layout) ==
  layout.l2_headroom <= w.start /\ w.start <= w.end /\ w.end <= layout.chunk_size
=============================================================================
