------------------------------- MODULE MCRing -------------------------------
(* A ring of four bytes. Lines of two bytes, one or two ahead; lines of the *)
(* ring's length; and a line longer than the ring.                          *)
EXTENDS UsartRing

Ahead(n, ends) == [ahead |-> n, ends |-> ends]
MCStreams == {Ahead(1, <<2, 4, 6>>), Ahead(2, <<2, 4, 6, 8>>), Ahead(1, <<4, 6, 10>>),
              Ahead(2, <<1, 4, 5, 6>>), Ahead(3, <<1, 2, 4, 5, 6>>), Ahead(1, <<3, 9>>),
              Ahead(2, <<3, 6>>)}
=============================================================================
