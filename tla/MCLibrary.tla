------------------------------ MODULE MCLibrary ------------------------------
(* Two drum folders for module Library: side by side, or one in the other. *)
EXTENDS Library

CONSTANTS Drums, Kicks,             (* folders                              *)
          KickWav, SnareWav         (* paths                                *)

SideBySide == (Drums :> {SnareWav}) @@ (Kicks :> {KickWav})
Nested     == (Drums :> {SnareWav, KickWav}) @@ (Kicks :> {KickWav})
(* A drum that can be analysed and one that is still being copied. *)
HalfCopied == {(KickWav :> "Kick") @@ (SnareWav :> Unreadable)}
=============================================================================
