--------------------------- MODULE EinkCompositor ---------------------------
(***************************************************************************)
(* The e-ink hardware composer (gralloc_eink/src/hwcomposer_eink.c): what  *)
(* prepare(), set() and blank() do to the framebuffer and to the panel.    *)
(* SurfaceFlinger makes these calls from one thread, so each is one step;  *)
(* module EinkVsync has the thread that runs beside them.                  *)
(*                                                                         *)
(* A picture is a function from pixels <<x, y>> to colours.  A layer is a  *)
(* record of a type, ok (its buffer is known to gralloc, can be locked and *)
(* has a format the composer reads), a displayFrame, a crop, a transform   *)
(* and a buffer, itself a function from positions to source colours.       *)
(* The panel is external: it shows a region of the framebuffer when        *)
(* MXCFB_SEND_UPDATE asks for it, and every update that is not a full one  *)
(* leaves a ghost behind.                                                  *)
(***************************************************************************)
EXTENDS Integers, Sequences, FiniteSetsExt, SequencesExt

CONSTANTS
  Width, Height,     \* of the panel
  Align,             \* the EPDC's x granularity, 8 in the code
  FullEvery,         \* EINK_FULL_UPDATE_EVERY, 60 in the code
  White,             \* the 0xff fill
  Colours,           \* colours of the framebuffer, RGB565
  Paint,             \* Paint[c][d]: source colour c blended onto d
  Gray,              \* Gray[c]: the fill of a background of source colour c
  Scenes,            \* layer lists SurfaceFlinger may hand over
  BootPicture        \* what fb0 holds when the device is opened

ASSUME PanelAssumption == /\ {Width, Height, Align, FullEvery} \subseteq Nat \ {0}
                          /\ White \in Colours

VARIABLES
  shadow,      \* hw->shadow
  fb,          \* hw->fb_mem
  panel,       \* hw->panel: the composer's idea of what is shown
  painted,     \* px0, py0, px1, py1
  updates,     \* the update counter modulo FullEvery
  force_full, blanked,
  composed,    \* g_last_set_us is not 0
  shown,       \* external: what the panel shows
  ghosts,      \* external: partial updates since the last full one, up to FullEvery
  lost,        \* an update has failed since the last full one that did not
  last         \* the last call and what it did

vars == <<shadow, fb, panel, painted, updates, force_full, blanked, composed,
          shown, ghosts, lost, last>>

Rect(x0, y0, x1, y1) == [x0 |-> x0, y0 |-> y0, x1 |-> x1, y1 |-> y1]
Whole == Rect(0, 0, Width, Height)
Empty == Rect(0, 0, 0, 0)
Pixels == (0 .. Width - 1) \X (0 .. Height - 1)
In(p, r) == r.x0 <= p[1] /\ p[1] < r.x1 /\ r.y0 <= p[2] /\ p[2] < r.y1
Pictures == [Pixels -> Colours]
Fill(c) == [p \in Pixels |-> c]

------------------------------------------------------------------------------
(* Composition into the shadow buffer.                                      *)

\* Where pixel <<sx, sy>> of a crop of size cw x ch lands in its frame.
place(xform, sx, sy, cw, ch) ==
  CASE xform = "ROT_90"  -> <<ch - 1 - sy, sx>>
    [] xform = "ROT_180" -> <<cw - 1 - sx, ch - 1 - sy>>
    [] xform = "ROT_270" -> <<sy, cw - 1 - sx>>
    [] xform = "FLIP_H"  -> <<cw - 1 - sx, sy>>
    [] xform = "FLIP_V"  -> <<sx, ch - 1 - sy>>
    [] OTHER             -> <<sx, sy>>

cw(l) == l.crop.x1 - l.crop.x0
ch(l) == l.crop.y1 - l.crop.y0

\* The crop's pixels that land inside both buffers, with where they land.
landing(l) ==
  {s \in (0 .. cw(l) - 1) \X (0 .. ch(l) - 1) :
     /\ <<l.crop.x0 + s[1], l.crop.y0 + s[2]>> \in DOMAIN l.buffer
     /\ <<l.frame.x0 + place(l.xform, s[1], s[2], cw(l), ch(l))[1],
          l.frame.y0 + place(l.xform, s[1], s[2], cw(l), ch(l))[2]>> \in Pixels}

source_of(l, p) ==
  {s \in landing(l) : place(l.xform, s[1], s[2], cw(l), ch(l))
                        = <<p[1] - l.frame.x0, p[2] - l.frame.y0>>}

\* Its geometry is known, its format can be read and its buffer locked.
readable(l) == l.ok

Composes(l) ==
  /\ l.type = "overlay" /\ readable(l)
  /\ l.frame.x1 > l.frame.x0 /\ l.frame.y1 > l.frame.y0
  /\ cw(l) > 0 /\ ch(l) > 0

\* A pixel's conversion to RGB565 and its blending, as a table.
blend_px(c, d) == Paint[c][d]

compose_layer(pic, l) ==
  [p \in Pixels |->
    IF source_of(l, p) = {} THEN pic[p]
    ELSE LET s == CHOOSE s \in source_of(l, p) : TRUE
         IN blend_px(l.buffer[<<l.crop.x0 + s[1], l.crop.y0 + s[2]>>], pic[p])]

compose_background(l) == Fill(Gray[l.colour])

compose(pic, l) ==
  CASE l.type = "background" -> compose_background(l)
    [] Composes(l) -> compose_layer(pic, l)
    [] OTHER -> pic

\* The layers one after another, onto white.
compose_all(scene) ==
  LET after[i \in 0 .. Len(scene)] ==
        IF i = 0 THEN Fill(White) ELSE compose(after[i - 1], scene[i])
  IN after[Len(scene)]

------------------------------------------------------------------------------
(* What SurfaceFlinger hands over.                                          *)

HasCorners(r) == {r.x0, r.y0, r.x1, r.y1} \subseteq Int

\* The composer does not scale: a crop larger than its frame is copied 1:1 and
\* runs over the frame's edge, outside of what is reported as touched.
Unscaled(l) ==
  LET dw == l.frame.x1 - l.frame.x0
      dh == l.frame.y1 - l.frame.y0
  IN IF l.xform \in {"ROT_90", "ROT_270"} THEN ch(l) <= dw /\ cw(l) <= dh
     ELSE cw(l) <= dw /\ ch(l) <= dh

\* SurfaceFlinger leaves out layers of which nothing is on the display.  For
\* one beside the panel the copy by rows would count a negative width.
Visible(l) == l.xform = "0" /\ Composes(l) => landing(l) # {}

IsLayer(l) ==
  \/ l.type = "target"
  \/ l.type = "background" /\ l.colour \in DOMAIN Gray
  \/ /\ l.type = "overlay" /\ l.ok \in BOOLEAN
     /\ HasCorners(l.frame) /\ HasCorners(l.crop)
     /\ \A s \in DOMAIN l.buffer : l.buffer[s] \in DOMAIN Paint
     /\ Unscaled(l) /\ Visible(l)

ASSUME ScenesAssumption ==
  /\ \A scene \in Scenes : scene \in Seq(ToSet(scene)) /\ \A l \in ToSet(scene) : IsLayer(l)
  /\ \A c \in DOMAIN Paint : Paint[c] \in [Colours -> Colours]
  /\ \A c \in DOMAIN Gray : Gray[c] \in Colours
  /\ BootPicture \in Pictures

------------------------------------------------------------------------------
(* The region of an update.                                                 *)

frames(scene) ==
  {l.frame : l \in {k \in ToSet(scene) : Composes(k)}}
  \cup {Whole : l \in {k \in ToSet(scene) : k.type = "background"}}

clip(r) == Rect(Max({r.x0, 0}), Max({r.y0, 0}), Min({r.x1, Width}), Min({r.y1, Height}))

NonEmpty(r) == r.x1 > r.x0 /\ r.y1 > r.y0

hull(rs) == Rect(Min({r.x0 : r \in rs}), Min({r.y0 : r \in rs}),
                 Max({r.x1 : r \in rs}), Max({r.y1 : r \in rs}))

touched(scene) ==
  LET r == clip(hull(frames(scene) \cup {Rect(Width, Height, 0, 0)}))
  IN IF NonEmpty(r) THEN r ELSE Whole

\* Variant: only the layers of this frame.
with_painted_now(r) == r

with_painted(r) == IF NonEmpty(painted) THEN hull({r, painted}) ELSE r

aligned(r) ==
  LET left == r.x0 - (r.x0 % Align)
      w == Align * ((r.x1 - left + Align - 1) \div Align)
  IN Rect(left, r.y0, Min({left + w, Width}), r.y1)

------------------------------------------------------------------------------
(* hwc_compose.                                                             *)

eink_send_update(r, full, ok) ==
  /\ shown' = IF ok THEN [p \in Pixels |-> IF In(p, aligned(r)) THEN fb'[p] ELSE shown[p]]
              ELSE shown
  /\ ghosts' = IF ~ok THEN ghosts ELSE IF full THEN 0 ELSE Min({ghosts + 1, FullEvery})
  /\ lost' = (~ok \/ (lost /\ ~full))

count_update(changed) == IF changed THEN (updates + 1) % FullEvery ELSE updates

\* The rows of an update region that differ from the composer's copy of the panel.
changed_rows(pic, r) ==
  {y \in r.y0 .. r.y1 - 1 : \E x \in r.x0 .. r.x1 - 1 : panel[<<x, y>>] # pic[<<x, y>>]}

\* A frame that something was composed into, for an update region r.  Bound: an
\* update may fail when none before it is lost.
push(pic, r, full) ==
  LET rows == changed_rows(pic, r)
      copy(mem) == [p \in Pixels |-> IF In(p, r) /\ p[2] \in rows THEN pic[p] ELSE mem[p]]
      changed == rows # {}
  IN /\ panel' = copy(panel)
     /\ fb' = copy(fb)
     /\ updates' = count_update(changed)
     /\ composed' = TRUE
     /\ IF changed
        THEN \E ok \in {TRUE, lost} : eink_send_update(r, full, ok)
        ELSE UNCHANGED <<shown, ghosts, lost>>
     /\ last' = [dirty |-> TRUE, region |-> IF changed THEN aligned(r) ELSE Empty]

compose_frame(scene) ==
  /\ shadow' = compose_all(scene)
  /\ IF frames(scene) = {}
     THEN /\ last' = [dirty |-> FALSE]
          /\ UNCHANGED <<fb, panel, painted, updates, force_full, composed, shown, ghosts, lost>>
     ELSE LET r == with_painted(touched(scene))
              full == updates = 0 \/ force_full
          IN /\ painted' = r
             /\ force_full' = FALSE
             /\ push(shadow', IF full THEN Whole ELSE r, full)
  /\ UNCHANGED blanked

blanked_compose ==
  /\ last' = [dirty |-> FALSE]
  /\ UNCHANGED <<shadow, fb, panel, painted, updates, force_full, blanked, composed,
                 shown, ghosts, lost>>

hwc_compose(scene) == IF blanked THEN blanked_compose ELSE compose_frame(scene)

------------------------------------------------------------------------------
(* The calls of SurfaceFlinger.                                             *)

hwc_set(scene) == hwc_compose(scene)

\* prepare() composes when set() has been missing for EINK_SET_MISSING_US.
hwc_prepare(scene) ==
  /\ ~blanked /\ composed
  /\ hwc_compose(scene)

hwc_blank(b) ==
  /\ blanked' = b
  /\ force_full' = IF b THEN force_full ELSE TRUE
  /\ last' = [dirty |-> FALSE]
  /\ UNCHANGED <<shadow, fb, panel, painted, updates, composed, shown, ghosts, lost>>

Init ==
  /\ fb = BootPicture /\ panel = BootPicture /\ shown = BootPicture
  /\ shadow = Fill(White)
  /\ painted = Empty /\ updates = 0 /\ force_full = FALSE /\ blanked = FALSE
  /\ composed = FALSE /\ ghosts = 0 /\ lost = FALSE
  /\ last = [dirty |-> FALSE]

Next ==
  \/ \E scene \in Scenes : hwc_set(scene)
  \/ \E scene \in Scenes : hwc_prepare(scene)
  \/ \E b \in BOOLEAN : hwc_blank(b)

Spec == Init /\ [][Next]_vars
------------------------------------------------------------------------------
(* Properties.                                                              *)

IsRect(r) == r.x0 \in 0 .. Width /\ r.x1 \in 0 .. Width /\ r.y0 \in 0 .. Height /\ r.y1 \in 0 .. Height

(* Every buffer is a picture of the panel's size and every update region    *)
(* lies inside the panel.                                                   *)
TypeOK ==
  /\ {shadow, fb, panel, shown} \subseteq Pictures
  /\ IsRect(painted) /\ updates \in 0 .. FullEvery - 1
  /\ {force_full, blanked, composed, lost} \subseteq BOOLEAN
  /\ ghosts \in 0 .. FullEvery
  /\ last.dirty => IsRect(last.region)

(* A frame that was composed is on the panel in full: the union of the      *)
(* frames, what earlier frames painted, the rounding to the EPDC's grid and *)
(* the skipping of unchanged rows never leave out a pixel that changed.     *)
(* The composer's copy of the panel, which decides what is sent, is what    *)
(* the panel shows.  What a failed MXCFB_SEND_UPDATE left out is there at   *)
(* the latest after the next full update.  And ghosting is cleared in time: *)
(* fewer than EINK_FULL_UPDATE_EVERY partial updates reach the panel        *)
(* between two full ones, however many frames are skipped as identical.     *)
ShowsFrame ==
  /\ TypeOK
  /\ ~lost => panel = shown /\ ghosts < FullEvery
  /\ last.dirty /\ ~lost => shown = shadow
=============================================================================
