-------------------------- MODULE MCEinkCompositor --------------------------
(***************************************************************************)
(* A panel of 5 x 2 pixels with updates on 2-pixel boundaries, so that its *)
(* width is not a multiple; source colours "k" and "g" are opaque, "dark"  *)
(* becomes the same RGB565 value as "k", "t" is transparent.               *)
(***************************************************************************)
EXTENDS EinkCompositor

MCPaint ==
  [c \in {"k", "dark", "g", "t"} |->
    [d \in {"w", "k", "g"} |-> CASE c = "dark" -> "k" [] c = "t" -> d [] OTHER -> c]]
MCGray == [c \in {"k", "dark", "g", "t"} |-> IF c = "t" THEN "w" ELSE "g"]

Plain(c, w, h) == [p \in (0 .. w - 1) \X (0 .. h - 1) |-> c]

Overlay(x0, y0, x1, y1, buffer) ==
  [type |-> "overlay", ok |-> TRUE, xform |-> "0", frame |-> Rect(x0, y0, x1, y1),
   crop |-> Rect(0, 0, x1 - x0, y1 - y0), buffer |-> buffer]

\* One row of two colours, as a 2 x 1 buffer.
Pair == [p \in (0 .. 1) \X (0 .. 0) |-> IF p[1] = 0 THEN "k" ELSE "t"]

Bar == Overlay(0, 0, 5, 1, Plain("g", 5, 1))
Dark == Overlay(0, 0, 5, 1, Plain("dark", 5, 1))
Icon == Overlay(3, 1, 4, 2, Plain("k", 1, 1))
Turned == [Overlay(1, 0, 2, 2, Pair) EXCEPT !.xform = "ROT_270", !.crop = Rect(0, 0, 2, 1)]
Mirror == [Overlay(3, 1, 5, 2, Pair) EXCEPT !.xform = "FLIP_H"]
Cut == Overlay(-1, 1, 1, 2, Plain("k", 2, 1))
Away == [Turned EXCEPT !.frame = Rect(6, 0, 7, 2)]
Lost == [Bar EXCEPT !.ok = FALSE]
Back == [type |-> "background", colour |-> "k"]
Target == [type |-> "target"]

Screens ==
  {<<Bar, Target>>, <<Dark, Icon>>, <<Icon>>, <<Turned, Mirror>>, <<Cut, Lost>>, <<Back, Icon>>,
   <<Lost>>, <<Away>>}

MCBoot == [p \in Pixels |-> IF p[1] < 2 THEN "k" ELSE "w"]
=============================================================================
