----------------------------- MODULE MCRxFraming -----------------------------
(* RxFraming with frames of five to six characters: a payload of at most   *)
(* one character, whose checksum is "aa" or "ab" by its length.            *)
EXTENDS RxFraming

MCChars == {"$", "*", "CR", "LF", "a", "b"}
MCChecksumOK(p, d) == d = <<"a", IF Len(p) % 2 = 0 THEN "a" ELSE "b">>
=============================================================================
