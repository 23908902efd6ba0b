----------------------------- MODULE MCDirectory -----------------------------
EXTENDS Directory

CONSTANTS c1, c2, c3, x, y

(* Three clusters share x: c1 reads and writes it, c2 reads it, c3 writes    *)
(* it.  c2 also writes y, whose entry competes with that of x for the way.   *)
(* With one pointer to an entry x is broadcast as soon as two read it; with  *)
(* three it never is.                                                        *)
MCAccesses == {<<c1, x, "READ_REQ">>, <<c1, x, "WRITE_REQ">>,
               <<c2, x, "READ_REQ">>, <<c3, x, "WRITE_REQ">>,
               <<c2, y, "WRITE_REQ">>}

=============================================================================
