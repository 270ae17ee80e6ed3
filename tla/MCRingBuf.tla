------------------------------ MODULE MCRingBuf ------------------------------
(* Small instances of RingBuf for TLC. *)
EXTENDS RingBuf, TLC

\* Half of 36 and of 44 is no multiple of 4, half of 40 is.  Two to five items
\* fill a buffer, and the pointers come to every address.
MCSizes == (NOSPLIT :> {36, 44}) @@ (ALLOWSPLIT :> {36, 40}) @@ (BYTEBUF :> {1, 5})
MCLens == (NOSPLIT :> {0, 3, 8, 16})
          @@ (ALLOWSPLIT :> {0, 3, 12, 20, 24})
          @@ (BYTEBUF :> 0 .. 5)
MCJunk == {Hdr(0, {}), Hdr(4, {"FREE"}), Hdr(0, {"DUMMY"})}

\* Nothing is promised after an item was handed out before it was completed.
NoFault == fault = "none"
==============================================================================
