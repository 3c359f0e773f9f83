---------------------------- MODULE MCGeneration ----------------------------
(* Templates that name two images, one of them twice, and that name one of    *)
(* them after an edit.  The logo is deleted, and comes back as another; the    *)
(* newer version of the photo is not an image at all.                          *)
EXTENDS Generation, TLC

CONSTANTS logo, photo, w1, w2

References == << << logo, photo, logo >>, << photo >> >>

Sources == (logo :> {0, 2}) @@ (photo :> {1, 2})

Refused == { << photo, 2 >> }
=============================================================================
