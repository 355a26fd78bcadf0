--------------------------- MODULE MCTcpFraming ---------------------------
(* Two messages and two bad frames, for TLC. *)
EXTENDS TcpFraming

MCMessages == {<<7>>, <<8, 9>>, <<1, 2, 3>>}

\* Length 0; longer than the buffer.
MCBadFrames == {<<0, 0>>, <<1, 0, 5>>}

=============================================================================
